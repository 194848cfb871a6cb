----------------------------- MODULE StateFile -----------------------------
(***************************************************************************)
(* STATE.md, the planning tool's memory of a project, and the commands     *)
(* that rewrite it (bin/lib/state.cjs, and the STATE.md part of            *)
(* `phase complete`).  Several agents run the commands at the same time,   *)
(* each in a process of its own.  A command reads the whole file, edits    *)
(* the text, rebuilds the YAML frontmatter from the edited body and hands  *)
(* the result to writeStateMd, which takes the lock file STATE.md.lock,    *)
(* truncates and rewrites the file, and unlinks the lock.                  *)
(*                                                                         *)
(* The text is abstracted to what the commands read back: the layout of    *)
(* the fields (bold `**Status:**` or the template's plain `Status:`), the  *)
(* frontmatter's status, the body's Status and Plan fields and             *)
(* the entries of the Decisions, Blockers and Metrics sections.  Progress, *)
(* dates and session fields are text that no command reads back.           *)
(***************************************************************************)
EXTENDS Naturals, FiniteSets

CONSTANTS
  Agents,       \* processes that run a command
  Decisions,    \* texts for add-decision and record-metric
  Blockers,     \* texts for add-blocker and resolve-blocker
  Statuses,     \* Status texts a user sets with `state update` or `patch`
  Commands,     \* the commands the agents run
  MaxPlans,     \* bound: plans in a phase
  MaxTries,     \* maxRetries of writeStateMd
  MaxCommands,  \* bound: commands started in a behaviour
  NoLock, Empty, None

ASSUME StateFileAssumption ==
  /\ MaxPlans \in Nat \ {0} /\ MaxTries \in Nat \ {0} /\ MaxCommands \in Nat
  /\ NoLock \notin Agents /\ None \notin Decisions
  /\ Decisions \cap Blockers = {}

VARIABLES
  file,      \* STATE.md: Empty while torn, else a Content record
  lock,      \* creator of STATE.md.lock, or NoLock
  stale,     \* the lock file is older than ten seconds
  pc,        \* where each agent is
  buf,       \* the text an agent is going to write
  tries,     \* failed attempts of an agent on the lock
  adding,    \* the decision an agent is adding, or None
  acked,     \* history: decisions a command reported as added
  forced,    \* history: somebody went past the lock, or died
  wiped,     \* history: `phase complete` read a torn file
  left       \* commands that may still start

vars == <<file, lock, stale, pc, buf, tries, adding, acked, forced, wiped, left>>

-----------------------------------------------------------------------------
(* The file's text. *)

\* The texts the commands themselves put in the body's Status field.
OwnStatuses == {"Ready to plan", "Ready to execute", "Executing Phase",
                "Phase complete - ready for verification", "Milestone complete"}

BodyStatuses == OwnStatuses \cup Statuses

\* buildStateFrontmatter's chain of tests; a text none of them knows stays as it is.
NormalizeStatus(s) ==
  CASE s = "Paused"                                               -> "paused"
    [] s \in {"Executing Phase", "In progress", "Ready to execute"} -> "executing"
    [] s \in {"Ready to plan", "Planning"}                          -> "planning"
    [] s = "Discussing"                                             -> "discussing"
    [] s = "Phase complete - ready for verification"                -> "verifying"
    [] s = "Milestone complete"                                     -> "completed"
    [] s = None                                                     -> "unknown"
    [] OTHER                                                        -> s

FrontStatuses == {"paused", "executing", "planning", "discussing", "verifying", "completed",
                  "unknown"} \cup BodyStatuses

\* fm: None before the first write; plan 0: "Not started"; total 0: missing or "?".
Content == [bold: BOOLEAN, sections: BOOLEAN, fm: FrontStatuses \cup {None},
            status: BodyStatuses \cup {None}, plan: 0..MaxPlans, total: 0..MaxPlans,
            log: SUBSET (Decisions \cup Blockers)]

\* The marks are no content, and no user types the words the tool falls back to.
ASSUME ContentAssumption ==
  /\ Empty \notin Content
  /\ None \notin FrontStatuses \cup {"Paused", "In progress", "Planning", "Discussing"}
  /\ "unknown" \notin BodyStatuses

\* What is left when a torn file is taken for STATE.md: no field, no section.
Bodyless == [bold |-> FALSE, sections |-> FALSE, fm |-> None, status |-> None,
             plan |-> 0, total |-> 0, log |-> {}]

\* The field patterns ignore case and take the first match, so in the plain
\* layout `Status:` and `Progress:` match the frontmatter's keys first; what
\* is written there does not survive the rebuild of the frontmatter, except
\* for the status of a body that has none.
InBody(c) == c.bold \/ c.fm = None

ReplaceStatus(c, s) ==
  IF c.status # None /\ InBody(c) THEN [c EXCEPT !.status = s]
  ELSE IF c.fm # None THEN [c EXCEPT !.fm = s] ELSE c

\* Status (or Progress) was found, in the body or in the frontmatter.
HasField(c) == c.fm # None \/ c.status # None

\* Only the plain layout keeps its Status line in the Current Position section.
updateCurrentPositionFields(c, s) ==
  IF ~c.bold /\ c.sections /\ c.status # None THEN [c EXCEPT !.status = s] ELSE c

\* stateExtractField as state-snapshot uses it: the first `status:` of the file.
StateSnapshot(c) == IF c.status # None /\ InBody(c) THEN c.status ELSE c.fm

\* `state json` prints the frontmatter, and builds it when there is none.
StateJson(c) == IF c.fm # None THEN c.fm ELSE NormalizeStatus(c.status)

MutSync(c) ==
  [c EXCEPT !.fm = IF c.fm \notin {None, "unknown"} THEN c.fm ELSE NormalizeStatus(c.status)]
MutSyncForget(c) == [c EXCEPT !.fm = NormalizeStatus(c.status)]
\* Rebuild the frontmatter from the body; a known status outlives its line.
syncStateFrontmatter(c) ==
  LET derived == NormalizeStatus(c.status)
  IN  [c EXCEPT !.fm = IF derived = "unknown" /\ c.fm \notin {None, "unknown"}
                       THEN c.fm ELSE derived]

-----------------------------------------------------------------------------
(* What each command makes of the text it read; a command whose fields or *)
(* sections are not there leaves the text, and the file, alone.           *)

AdvancePlan(c) ==
  IF c.plan >= c.total
  THEN updateCurrentPositionFields(ReplaceStatus(c,
         "Phase complete - ready for verification"), "Phase complete - ready for verification")
  ELSE [updateCurrentPositionFields(ReplaceStatus(c, "Ready to execute"),
          "Ready to execute") EXCEPT !.plan = c.plan + 1]

\* Without a plan count (n = 0) the plain layout says "1 of ?" and the bold
\* one keeps the total of the phase before.
BeginPhase(c, n) ==
  LET marked == updateCurrentPositionFields(
                  ReplaceStatus(c, "Executing Phase"), "Executing Phase")
  IN  IF ~c.sections THEN marked
      ELSE [marked EXCEPT !.plan = 1, !.total = IF c.bold /\ n = 0 THEN @ ELSE n]

\* The STATE.md part of `phase complete`: no Current Position update here.
PhaseComplete(c, last) ==
  LET marked == ReplaceStatus(c,
                  IF last THEN "Milestone complete" ELSE "Ready to plan")
  IN  [marked EXCEPT !.plan = 0, !.total = IF c.bold THEN @ ELSE 0]

\* A command and its argument.
Requests ==
  (({"status"} \cap Commands) \X Statuses)
  \cup (({"advance", "progress", "session"} \cap Commands) \X {None})
  \cup (({"begin"} \cap Commands) \X (0..MaxPlans))
  \cup (({"decision"} \cap Commands) \X Decisions)
  \cup (({"blocker", "resolve"} \cap Commands) \X Blockers)
  \cup (({"complete"} \cap Commands) \X BOOLEAN)

\* The guards that keep a command from writing.  A torn file has no field.
Writes(r, c) ==
  \/ r[1] = "complete"
  \/ /\ c # Empty
     /\ CASE r[1] = "status"                -> HasField(c)
          [] r[1] \in {"progress", "begin"} -> HasField(c) \/ c.sections
          [] r[1] = "advance"               -> c.plan # 0 /\ c.total # 0
          [] OTHER                          -> c.sections

Edit(r, c) ==
  CASE r[1] = "status"   -> ReplaceStatus(c, r[2])
    [] r[1] = "advance"  -> AdvancePlan(c)
    [] r[1] = "begin"    -> BeginPhase(c, r[2])
    [] r[1] \in {"decision", "blocker"} -> [c EXCEPT !.log = @ \cup {r[2]}]
    [] r[1] = "resolve"  -> [c EXCEPT !.log = @ \ {r[2]}]
    [] r[1] = "complete" -> IF c = Empty THEN Bodyless ELSE PhaseComplete(c, r[2])
    [] OTHER             -> c

-----------------------------------------------------------------------------
\* STATE.md as the template leaves it, or as the first command rewrote it.
Init ==
  /\ \E c \in [bold: BOOLEAN, sections: {TRUE}, fm: {None}, status: {"Ready to plan"},
                plan: {1}, total: 1..MaxPlans, log: {{}}] :
       file \in {c, syncStateFrontmatter(c)}
  /\ lock = NoLock
  /\ stale = FALSE
  /\ pc = [a \in Agents |-> "idle"]
  /\ buf = [a \in Agents |-> Empty]
  /\ tries = [a \in Agents |-> 0]
  /\ adding = [a \in Agents |-> None]
  /\ acked = {}
  /\ forced = FALSE
  /\ wiped = FALSE
  /\ left = MaxCommands

\* The process is gone, and its variables with it.
Forget(a) ==
  /\ buf' = [buf EXCEPT ![a] = Empty]
  /\ tries' = [tries EXCEPT ![a] = 0]
  /\ adding' = [adding EXCEPT ![a] = None]

\* A command reads STATE.md and edits its copy,
\* before it has the lock.
Read(a, r) ==
  /\ pc[a] = "idle" /\ left > 0
  /\ left' = left - 1
  /\ IF Writes(r, file)
     THEN /\ buf' = [buf EXCEPT ![a] = syncStateFrontmatter(Edit(r, file))]
          /\ pc' = [pc EXCEPT ![a] = "lock"]
          /\ tries' = [tries EXCEPT ![a] = 0]
          /\ adding' = [adding EXCEPT ![a] = IF r[1] = "decision" THEN r[2] ELSE None]
          /\ wiped' = (wiped \/ file = Empty)
     ELSE UNCHANGED <<buf, pc, tries, adding, wiped>>
  /\ UNCHANGED <<file, lock, stale, acked, forced>>

MutTakeLock(a) ==
  /\ pc[a] = "lock"
  /\ lock' = a
  /\ stale' = FALSE
  /\ pc' = [pc EXCEPT ![a] = "truncate"]
  /\ UNCHANGED <<file, buf, tries, adding, acked, forced, wiped, left>>
\* O_CREAT | O_EXCL succeeds.
TakeLock(a) ==
  /\ pc[a] = "lock" /\ lock = NoLock
  /\ lock' = a
  /\ stale' = FALSE
  /\ pc' = [pc EXCEPT ![a] = "truncate"]
  /\ UNCHANGED <<file, buf, tries, adding, acked, forced, wiped, left>>

MutSeeLock(a) ==
  /\ pc[a] = "lock" /\ lock # NoLock
  /\ pc' = [pc EXCEPT ![a] = IF stale THEN "steal" ELSE "lock"]
  /\ UNCHANGED <<file, lock, stale, buf, tries, adding, acked, forced, wiped, left>>
\* EEXIST: look at the age of the lock; give up after the last try.
SeeLock(a) ==
  /\ pc[a] = "lock" /\ lock # NoLock
  /\ IF stale
     THEN pc' = [pc EXCEPT ![a] = "steal"] /\ UNCHANGED tries
     ELSE IF tries[a] = MaxTries - 1
     THEN pc' = [pc EXCEPT ![a] = "force"] /\ UNCHANGED tries
     ELSE tries' = [tries EXCEPT ![a] = @ + 1] /\ UNCHANGED pc
  /\ UNCHANGED <<file, lock, stale, buf, adding, acked, forced, wiped, left>>

MutSteal(a) ==
  /\ pc[a] = "steal"
  /\ lock' = NoLock
  /\ stale' = FALSE
  /\ tries' = [tries EXCEPT ![a] = @ + 1]
  /\ pc' = [pc EXCEPT ![a] = "lock"]
  /\ forced' = TRUE
  /\ UNCHANGED <<file, buf, adding, acked, wiped, left>>
\* Unlink the lock found stale, whoever's it is by now, and try again; the
\* loop that ends here goes on to write without a lock.
Steal(a) ==
  /\ pc[a] = "steal"
  /\ lock' = NoLock
  /\ stale' = FALSE
  /\ tries' = [tries EXCEPT ![a] = IF @ = MaxTries - 1 THEN @ ELSE @ + 1]
  /\ pc' = [pc EXCEPT ![a] = IF tries[a] = MaxTries - 1 THEN "truncate" ELSE "lock"]
  /\ forced' = TRUE
  /\ UNCHANGED <<file, buf, adding, acked, wiped, left>>

\* Last resort: unlink the lock and write anyway.
LastResort(a) ==
  /\ pc[a] = "force"
  /\ lock' = NoLock
  /\ stale' = FALSE
  /\ pc' = [pc EXCEPT ![a] = "truncate"]
  /\ forced' = TRUE
  /\ UNCHANGED <<file, buf, tries, adding, acked, wiped, left>>

\* openSync fails for another reason: proceed without the lock.
LockError(a) ==
  /\ pc[a] = "lock"
  /\ pc' = [pc EXCEPT ![a] = "truncate"]
  /\ forced' = TRUE
  /\ UNCHANGED <<file, lock, stale, buf, tries, adding, acked, wiped, left>>

\* writeFileSync opens the file for writing ...
Truncate(a) ==
  /\ pc[a] = "truncate"
  /\ file' = Empty
  /\ pc' = [pc EXCEPT ![a] = "fill"]
  /\ UNCHANGED <<lock, stale, buf, tries, adding, acked, forced, wiped, left>>

\* ... and writes the text; of two texts written over each other the fields
\* found first are those of the later one.
Fill(a) ==
  /\ pc[a] = "fill"
  /\ file' = buf[a]
  /\ acked' = acked \cup ({adding[a]} \ {None})
  /\ pc' = [pc EXCEPT ![a] = "unlock"]
  /\ UNCHANGED <<lock, stale, buf, tries, adding, forced, wiped, left>>

\* The disk is full: the error leaves the file torn, and still unlinks the lock.
FillFails(a) ==
  /\ pc[a] = "fill"
  /\ pc' = [pc EXCEPT ![a] = "unlock"]
  /\ UNCHANGED <<file, lock, stale, buf, tries, adding, acked, forced, wiped, left>>

MutUnlock(a) ==
  /\ pc[a] = "unlock"
  /\ pc' = [pc EXCEPT ![a] = "idle"]
  /\ Forget(a)
  /\ lock' = IF file = Empty THEN lock ELSE NoLock
  /\ stale' = FALSE
  /\ UNCHANGED <<file, acked, forced, wiped, left>>
\* finally: unlink the lock file, whoever created it.
Unlock(a) ==
  /\ pc[a] = "unlock"
  /\ lock' = NoLock
  /\ stale' = FALSE
  /\ pc' = [pc EXCEPT ![a] = "idle"]
  /\ Forget(a)
  /\ UNCHANGED <<file, acked, forced, wiped, left>>

\* The process is killed anywhere between its read and the end.
Crash(a) ==
  /\ pc[a] \notin {"idle", "dead"}
  /\ pc' = [pc EXCEPT ![a] = "dead"]
  /\ Forget(a)
  /\ forced' = TRUE
  /\ UNCHANGED <<file, lock, stale, acked, wiped, left>>

\* Ten seconds pass on a lock file.
AgeLock ==
  /\ lock # NoLock /\ ~stale
  /\ stale' = TRUE
  /\ UNCHANGED <<file, lock, pc, buf, tries, adding, acked, forced, wiped, left>>

\* An agent edits STATE.md by hand and drops the Status line.
RemoveStatusLine ==
  /\ file # Empty /\ file.fm # None /\ file.status # None
  /\ file' = [file EXCEPT !.status = None]
  /\ UNCHANGED <<lock, stale, pc, buf, tries, adding, acked, forced, wiped, left>>

Step(a) == \/ TakeLock(a) \/ SeeLock(a) \/ Steal(a) \/ LastResort(a)
           \/ Truncate(a) \/ Fill(a) \/ FillFails(a) \/ Unlock(a)

Next ==
  \/ \E a \in Agents : \/ \E r \in Requests : Read(a, r)
                       \/ Step(a) \/ LockError(a) \/ Crash(a)
  \/ AgeLock \/ RemoveStatusLine

Spec == Init /\ [][Next]_vars

\* The operating system keeps running a process that has not been killed.
FairSpec == Spec /\ \A a \in Agents : WF_vars(Step(a))

-----------------------------------------------------------------------------
Writing == {"truncate", "fill", "unlock"}

\* The type invariant: the file, the copies the agents hold and the lock are
\* what state.cjs can leave there.
TypeOK ==
  /\ file \in Content \cup {Empty}
  /\ lock \in Agents \cup {NoLock}
  /\ stale \in BOOLEAN
  /\ pc \in [Agents -> {"idle", "lock", "steal", "force", "dead"} \cup Writing]
  /\ buf \in [Agents -> Content \cup {Empty}]
  /\ \A a \in Agents : pc[a] \notin {"idle", "dead"} => buf[a] # Empty
  /\ tries \in [Agents -> 0..(MaxTries - 1)]
  /\ adding \in [Agents -> Decisions \cup {None}]
  /\ acked \subseteq Decisions
  /\ forced \in BOOLEAN /\ wiped \in BOOLEAN
  /\ left \in 0..MaxCommands

\* A lock file is never left behind by a command that returned: its creator
\* is still writing, or was killed, although any agent may unlink any lock
\* (writeStateMd's finally, its stale test and its last resort).
LockHasHolder == lock # NoLock => pc[lock] \in Writing \cup {"dead"}

\* As long as nobody went past the lock or died, only one agent is writing.
OneWriter ==
  ~forced => \A a, b \in Agents : pc[a] \in Writing /\ pc[b] \in Writing => a = b

\* `state json` (frontmatter) and `state-snapshot` (first match in the text)
\* never report different statuses, and both report the body's Status when
\* it has one.
ReportsAgree ==
  file # Empty =>
    /\ NormalizeStatus(StateSnapshot(file)) = NormalizeStatus(StateJson(file))
    /\ file.status # None => StateJson(file) = NormalizeStatus(file.status)

\* The recorded status is forgotten in one case only: `phase complete` read
\* the file while another command had truncated it.
StatusKept == file # Empty /\ StateJson(file) = "unknown" => wiped

\* Every command ends, also when the holder of the lock was killed: the
\* attempts are bounded and the last one goes past the lock.
CommandEnds ==
  \A a \in Agents : pc[a] \notin {"idle", "dead"} ~> pc[a] \in {"idle", "dead"}

\* While everybody respects the lock, a decision reported as added stays in
\* the file (the comment of writeStateMd: the lock prevents parallel agents
\* "from overwriting each other's changes").
NoLostDecision == ~forced /\ file # Empty => acked \subseteq file.log
=============================================================================
