--------------------------- MODULE StateFileProofs ---------------------------
(***************************************************************************)
(* Proofs about STATE.md, for any number of agents and commands: the type  *)
(* invariant, the lock and the status the reports show.                    *)
(***************************************************************************)
EXTENDS StateFile, TLAPS

\* A writer that nobody went past holds the lock.
HoldsLock == ~forced => \A a \in Agents : pc[a] \in Writing => lock = a

\* What every text is that a command has rebuilt, or the template left: the
\* two reports agree on it, and its status is known unless w.
Sound(c, w) ==
  /\ NormalizeStatus(StateSnapshot(c)) = NormalizeStatus(StateJson(c))
  /\ c.status # None => StateJson(c) = NormalizeStatus(c.status)
  /\ StateJson(c) = "unknown" => w

TextsSound ==
  /\ file # Empty => Sound(file, wiped)
  /\ \A a \in Agents : buf[a] # Empty => Sound(buf[a], wiped)

StateInv == TypeOK /\ LockHasHolder /\ HoldsLock /\ TextsSound

-----------------------------------------------------------------------------
(* The operators on texts. *)

\* NormalizeStatus maps the body's texts to the frontmatter's, and a text it
\* has mapped to itself; only a missing status becomes "unknown".
LEMMA NormalizeFacts ==
  ASSUME NEW s \in FrontStatuses \cup {None}
  PROVE  /\ NormalizeStatus(s) \in FrontStatuses
         /\ NormalizeStatus(NormalizeStatus(s)) = NormalizeStatus(s)
         /\ NormalizeStatus(s) = "unknown" <=> s \in {None, "unknown"}
<1>1. NormalizeStatus(s) \in FrontStatuses
  BY ContentAssumption DEF NormalizeStatus, FrontStatuses, BodyStatuses, OwnStatuses
<1>2. NormalizeStatus(NormalizeStatus(s)) = NormalizeStatus(s)
  BY ContentAssumption DEF NormalizeStatus, FrontStatuses
<1>3. NormalizeStatus(s) = "unknown" <=> s \in {None, "unknown"}
  BY ContentAssumption DEF NormalizeStatus, FrontStatuses, BodyStatuses, OwnStatuses
<1>4. QED BY <1>1, <1>2, <1>3

\* The rebuilt frontmatter is well typed and never missing.
LEMMA SyncType ==
  ASSUME NEW c \in Content
  PROVE  syncStateFrontmatter(c) \in Content
<1>1. NormalizeStatus(c.status) \in FrontStatuses
  BY NormalizeFacts DEF Content, FrontStatuses
<1>2. QED BY <1>1 DEF syncStateFrontmatter, Content

\* Writing a status text keeps the type.
LEMMA ReplaceType ==
  ASSUME NEW c \in Content, NEW s \in BodyStatuses
  PROVE  /\ ReplaceStatus(c, s) \in Content
         /\ updateCurrentPositionFields(c, s) \in Content
BY DEF ReplaceStatus, updateCurrentPositionFields, Content, FrontStatuses

\* Every command makes a well-typed text of a well-typed text.
LEMMA EditType ==
  ASSUME NEW c \in Content, NEW r \in Requests
  PROVE  Edit(r, c) \in Content
<1>0. c # Empty /\ MaxPlans \in Nat
  BY ContentAssumption, StateFileAssumption
<1>1. CASE r[1] = "status"
  <2>1. r[2] \in BodyStatuses  BY <1>1 DEF Requests, BodyStatuses
  <2>2. QED BY <1>1, <2>1, ReplaceType DEF Edit
<1>2. CASE r[1] = "advance"
  <2> DEFINE done == "Phase complete - ready for verification"
             next == "Ready to execute"
             u(s) == updateCurrentPositionFields(ReplaceStatus(c, s), s)
  <2>1. done \in BodyStatuses /\ next \in BodyStatuses  BY DEF BodyStatuses, OwnStatuses
  <2>2. u(done) \in Content /\ u(next) \in Content  BY <2>1, ReplaceType
  <2>3. Edit(r, c) = AdvancePlan(c)  BY <1>2 DEF Edit
  <2>4. CASE c.plan >= c.total  BY <2>2, <2>3, <2>4 DEF AdvancePlan
  <2>5. CASE c.plan < c.total
    <3>1. c.plan + 1 \in 0..MaxPlans  BY <1>0, <2>5 DEF Content
    <3>2. [u(next) EXCEPT !.plan = c.plan + 1] \in Content  BY <2>2, <3>1 DEF Content
    <3>3. ~(c.plan >= c.total)  BY <1>0, <2>5 DEF Content
    <3>4. QED BY <2>3, <3>2, <3>3 DEF AdvancePlan
  <2>6. QED BY <1>0, <2>4, <2>5 DEF Content
<1>3. CASE r[1] = "begin"
  <2>1. r[2] \in 0..MaxPlans  BY <1>3 DEF Requests
  <2>2. "Executing Phase" \in BodyStatuses  BY DEF BodyStatuses, OwnStatuses
  <2> DEFINE marked == updateCurrentPositionFields(
                         ReplaceStatus(c, "Executing Phase"), "Executing Phase")
  <2>3. marked \in Content  BY <2>2, ReplaceType
  <2>4. Edit(r, c) = BeginPhase(c, r[2])  BY <1>3 DEF Edit
  <2>5. 1 \in 0..MaxPlans  BY StateFileAssumption
  <2>6. [marked EXCEPT !.plan = 1, !.total = IF c.bold /\ r[2] = 0 THEN @ ELSE r[2]] \in Content
    BY <2>1, <2>3, <2>5 DEF Content
  <2>7. QED BY <2>3, <2>4, <2>6 DEF BeginPhase
<1>4. CASE r[1] = "decision" \/ r[1] = "blocker"
  <2>1. r[2] \in Decisions \cup Blockers  BY <1>4 DEF Requests
  <2>2. Edit(r, c) = [c EXCEPT !.log = @ \cup {r[2]}]  BY <1>4 DEF Edit
  <2>3. QED BY <2>1, <2>2 DEF Content
<1>5. CASE r[1] = "resolve"
  <2>1. Edit(r, c) = [c EXCEPT !.log = @ \ {r[2]}]  BY <1>5 DEF Edit
  <2>2. QED BY <2>1 DEF Content
<1>6. CASE r[1] = "complete"
  <2> DEFINE marked(s) == ReplaceStatus(c, s)
             t == IF r[2] THEN "Milestone complete" ELSE "Ready to plan"
  <2>1. t \in BodyStatuses  BY DEF BodyStatuses, OwnStatuses
  <2>2. marked(t) \in Content  BY <2>1, ReplaceType
  <2>3. Edit(r, c) = PhaseComplete(c, r[2])  BY <1>0, <1>6 DEF Edit
  <2>4. 0 \in 0..MaxPlans  BY <1>0
  <2>5. [marked(t) EXCEPT !.plan = 0, !.total = IF c.bold THEN @ ELSE 0] \in Content
    BY <2>2, <2>4 DEF Content
  <2>6. QED BY <2>3, <2>5 DEF PhaseComplete
<1>7. CASE r[1] \notin {"status", "advance", "begin", "decision", "blocker", "resolve", "complete"}
  BY <1>7 DEF Edit
<1>8. QED BY <1>1, <1>2, <1>3, <1>4, <1>5, <1>6, <1>7

\* Somewhere in the text the status is recorded, unless w.
Known(c, w) == c.status = None /\ c.fm \in {None, "unknown"} => w

\* A rebuilt text is sound if the status was known before.
LEMMA SyncSound ==
  ASSUME NEW c \in Content, NEW w \in BOOLEAN, Known(c, w)
  PROVE  Sound(syncStateFrontmatter(c), w)
<1> DEFINE d == syncStateFrontmatter(c)
           n == NormalizeStatus(c.status)
<1>1. c.status \in BodyStatuses \cup {None} /\ c.fm \in FrontStatuses \cup {None}
  BY DEF Content
<1>2. c.status \in FrontStatuses \cup {None}  BY <1>1 DEF FrontStatuses
<1>3. n \in FrontStatuses /\ NormalizeStatus(n) = n /\ (n = "unknown" <=> c.status \in {None, "unknown"})
  BY <1>2, NormalizeFacts
<1>4. None \notin FrontStatuses /\ "unknown" \notin BodyStatuses  BY ContentAssumption
<1>5. /\ d.status = c.status /\ d.bold = c.bold
      /\ d.fm = IF n = "unknown" /\ c.fm \notin {None, "unknown"} THEN c.fm ELSE n
  BY DEF syncStateFrontmatter, Content
<1>6. d.fm # None  BY <1>1, <1>3, <1>4, <1>5
<1>7. StateJson(d) = d.fm  BY <1>6 DEF StateJson
<1>8. CASE c.status # None
  <2>1. n # "unknown"  BY <1>1, <1>3, <1>4, <1>8
  <2>2. d.fm = n  BY <1>5, <2>1
  <2>3. StateSnapshot(d) \in {c.status, n}  BY <1>5, <2>2 DEF StateSnapshot
  <2>4. NormalizeStatus(StateSnapshot(d)) = n /\ NormalizeStatus(StateJson(d)) = n
    BY <1>3, <1>7, <2>2, <2>3
  <2>5. QED BY <1>5, <1>7, <2>1, <2>2, <2>4 DEF Sound
<1>9. CASE c.status = None
  <2>1. StateSnapshot(d) = d.fm  BY <1>5, <1>9 DEF StateSnapshot
  <2>2. d.fm = "unknown" => w  BY <1>3, <1>5, <1>9 DEF Known
  <2>3. QED BY <1>5, <1>7, <1>9, <2>1, <2>2 DEF Sound
<1>10. QED BY <1>8, <1>9

\* In a sound text the status is known.
LEMMA SoundKnown ==
  ASSUME NEW c \in Content, NEW w \in BOOLEAN, Sound(c, w)
  PROVE  Known(c, w)
<1>1. NormalizeStatus(None) = "unknown"  BY NormalizeFacts
<1>2. QED BY <1>1 DEF Sound, Known, StateJson

\* Writing a status makes it known, wherever the pattern finds its field.
LEMMA ReplaceKnown ==
  ASSUME NEW c \in Content, NEW w \in BOOLEAN, Known(c, w), NEW s \in BodyStatuses
  PROVE  /\ Known(ReplaceStatus(c, s), w)
         /\ Known(updateCurrentPositionFields(c, s), w)
<1>1. s # None /\ s # "unknown"  BY ContentAssumption DEF FrontStatuses
<1>2. QED BY <1>1 DEF Known, ReplaceStatus, updateCurrentPositionFields, Content

\* No command makes the text forget its status.
LEMMA EditKnown ==
  ASSUME NEW c \in Content, NEW w \in BOOLEAN, Known(c, w), NEW r \in Requests
  PROVE  Known(Edit(r, c), w)
<1> DEFINE u(s) == updateCurrentPositionFields(ReplaceStatus(c, s), s)
<1>0. c # Empty  BY ContentAssumption
<1>1. \A s \in BodyStatuses : /\ ReplaceStatus(c, s) \in Content /\ Known(ReplaceStatus(c, s), w)
                              /\ u(s) \in Content /\ Known(u(s), w)
  BY ReplaceType, ReplaceKnown
<1>2. /\ "Phase complete - ready for verification" \in BodyStatuses
      /\ "Ready to execute" \in BodyStatuses /\ "Executing Phase" \in BodyStatuses
      /\ "Milestone complete" \in BodyStatuses /\ "Ready to plan" \in BodyStatuses
  BY DEF BodyStatuses, OwnStatuses
<1>3. CASE r[1] = "status"
  <2>1. r[2] \in BodyStatuses  BY <1>3 DEF Requests, BodyStatuses
  <2>2. QED BY <1>1, <1>3, <2>1 DEF Edit
<1>4. CASE r[1] = "advance"
  <2>1. Edit(r, c) = AdvancePlan(c)  BY <1>4 DEF Edit
  <2>2. Edit(r, c) \in {u("Phase complete - ready for verification"),
                        [u("Ready to execute") EXCEPT !.plan = c.plan + 1]}
    BY <2>1 DEF AdvancePlan
  <2>3. QED BY <1>1, <1>2, <2>2 DEF Known, Content
<1>5. CASE r[1] = "begin"
  <2>1. Edit(r, c) = BeginPhase(c, r[2])  BY <1>5 DEF Edit
  <2>2. /\ BeginPhase(c, r[2]).status = u("Executing Phase").status
        /\ BeginPhase(c, r[2]).fm = u("Executing Phase").fm
    BY <1>1, <1>2 DEF BeginPhase, Content
  <2>3. QED BY <1>1, <1>2, <2>1, <2>2 DEF Known
<1>6. CASE r[1] = "complete"
  <2> DEFINE t == IF r[2] THEN "Milestone complete" ELSE "Ready to plan"
  <2>1. Edit(r, c) = PhaseComplete(c, r[2])  BY <1>0, <1>6 DEF Edit
  <2>2. t \in BodyStatuses  BY <1>2
  <2>3. /\ PhaseComplete(c, r[2]).status = ReplaceStatus(c, t).status
        /\ PhaseComplete(c, r[2]).fm = ReplaceStatus(c, t).fm
    BY <1>1, <2>2 DEF PhaseComplete, Content
  <2>4. QED BY <1>1, <2>1, <2>2, <2>3 DEF Known
<1>7. CASE r[1] \notin {"status", "advance", "begin", "complete"}
  <2>1. Edit(r, c).status = c.status /\ Edit(r, c).fm = c.fm  BY <1>7 DEF Edit, Content
  <2>2. QED BY <2>1 DEF Known
<1>8. QED BY <1>3, <1>4, <1>5, <1>6, <1>7

-----------------------------------------------------------------------------
(* The invariant. *)

\* What a command that writes is going to write, also from a torn file.
LEMMA NewText ==
  ASSUME NEW c \in Content \cup {Empty}, NEW w \in BOOLEAN, NEW r \in Requests,
         Writes(r, c), c # Empty => Sound(c, w)
  PROVE  /\ syncStateFrontmatter(Edit(r, c)) \in Content
         /\ Sound(syncStateFrontmatter(Edit(r, c)), w \/ c = Empty)
<1> DEFINE v == w \/ c = Empty
<1>1. v \in BOOLEAN  OBVIOUS
<1>2. Edit(r, c) \in Content /\ Known(Edit(r, c), v)
  <2>1. CASE c # Empty
    <3>1. c \in Content /\ Sound(c, w) /\ v = w  BY <2>1
    <3>2. Known(c, w)  BY <3>1, SoundKnown
    <3>3. Known(Edit(r, c), w) /\ Edit(r, c) \in Content  BY <3>1, <3>2, EditKnown, EditType
    <3>4. QED BY <3>1, <3>3
  <2>2. CASE c = Empty
    <3>1. r[1] = "complete"  BY <2>2 DEF Writes
    <3>2. Edit(r, c) = Bodyless  BY <2>2, <3>1 DEF Edit
    <3>3. Bodyless \in Content  BY StateFileAssumption DEF Bodyless, Content
    <3>4. QED BY <2>2, <3>2, <3>3 DEF Known
  <2>3. QED BY <2>1, <2>2
<1>3. QED BY <1>1, <1>2, SyncType, SyncSound

\* The bounds are large enough for what is written there at the start.
LEMMA Bounds ==
  /\ 0 \in 0..(MaxTries - 1) /\ MaxCommands \in 0..MaxCommands
  /\ 0 \in 0..MaxPlans /\ 1 \in 0..MaxPlans /\ 1..MaxPlans \subseteq 0..MaxPlans
BY StateFileAssumption

LEMMA InitInv == Init => StateInv
<1> SUFFICES ASSUME Init PROVE StateInv  OBVIOUS
<1>1. PICK c \in [bold: BOOLEAN, sections: {TRUE}, fm: {None}, status: {"Ready to plan"},
                   plan: {1}, total: 1..MaxPlans, log: {{}}] :
        file \in {c, syncStateFrontmatter(c)}
  BY DEF Init
<1>2. c \in Content
  <2>1. /\ c.bold \in BOOLEAN /\ c.sections \in BOOLEAN /\ c.fm \in FrontStatuses \cup {None}
        /\ c.status \in BodyStatuses \cup {None} /\ c.log \in SUBSET (Decisions \cup Blockers)
    BY DEF BodyStatuses, OwnStatuses
  <2>2. c.plan \in 0..MaxPlans /\ c.total \in 0..MaxPlans  BY <1>1, Bounds, Zenon
  <2>3. c = [bold |-> c.bold, sections |-> c.sections, fm |-> c.fm, status |-> c.status,
             plan |-> c.plan, total |-> c.total, log |-> c.log]
    OBVIOUS
  <2>4. QED BY <2>1, <2>2, <2>3 DEF Content
<1>3. c.status = "Ready to plan" /\ c.fm = None  BY <1>1
<1>4. "Ready to plan" # None /\ "Ready to plan" \in FrontStatuses
  BY ContentAssumption DEF FrontStatuses, BodyStatuses, OwnStatuses
<1>5. Known(c, FALSE)  BY <1>3, <1>4 DEF Known
<1>6. Sound(c, FALSE)
  <2>1. StateSnapshot(c) = "Ready to plan"  BY <1>3, <1>4 DEF StateSnapshot, InBody
  <2>2. StateJson(c) = NormalizeStatus("Ready to plan")  BY <1>3 DEF StateJson
  <2>3. QED BY <1>3, <1>4, <2>1, <2>2, NormalizeFacts, ContentAssumption DEF Sound
<1>7. Sound(syncStateFrontmatter(c), FALSE) /\ syncStateFrontmatter(c) \in Content
  BY <1>2, <1>5, SyncSound, SyncType
<1>8. file \in Content /\ Sound(file, FALSE)  BY <1>1, <1>2, <1>6, <1>7
<1>9. TypeOK
  <2>1. 0 \in 0..(MaxTries - 1) /\ MaxCommands \in 0..MaxCommands  BY Bounds
  <2>2. /\ lock = NoLock /\ stale = FALSE /\ acked = {} /\ forced = FALSE /\ wiped = FALSE
        /\ left = MaxCommands
        /\ pc = [a \in Agents |-> "idle"] /\ buf = [a \in Agents |-> Empty]
        /\ tries = [a \in Agents |-> 0] /\ adding = [a \in Agents |-> None]
    BY DEF Init
  <2>3. QED BY <1>8, <2>1, <2>2 DEF TypeOK
<1>10. LockHasHolder /\ HoldsLock  BY DEF Init, LockHasHolder, HoldsLock, Writing
<1>11. TextsSound
  <2>1. wiped = FALSE /\ \A a \in Agents : buf[a] = Empty  BY DEF Init
  <2>2. QED BY <1>8, <2>1 DEF TextsSound
<1>12. QED BY <1>9, <1>10, <1>11 DEF StateInv

\* A command starts.
LEMMA ReadInv ==
  ASSUME StateInv, NEW a \in Agents, NEW r \in Requests, Read(a, r)
  PROVE  StateInv'
<1>1. TypeOK /\ LockHasHolder /\ HoldsLock /\ TextsSound  BY DEF StateInv
<1>2. CASE ~Writes(r, file)
  <2>1. UNCHANGED <<file, lock, stale, pc, buf, tries, adding, acked, forced, wiped>>
    BY <1>2 DEF Read
  <2>2. left' \in 0..MaxCommands  BY <1>1, StateFileAssumption DEF Read, TypeOK
  <2>3. TypeOK'  BY <1>1, <2>1, <2>2 DEF TypeOK
  <2>4. LockHasHolder' /\ HoldsLock'  BY <1>1, <2>1 DEF LockHasHolder, HoldsLock
  <2>5. TextsSound'  BY <1>1, <2>1 DEF TextsSound
  <2>6. QED BY <2>3, <2>4, <2>5 DEF StateInv
<1>3. CASE Writes(r, file)
  <2> DEFINE new == syncStateFrontmatter(Edit(r, file))
  <2>1. new \in Content /\ Sound(new, wiped \/ file = Empty)
    BY <1>1, <1>3, NewText DEF TypeOK, TextsSound
  <2> HIDE DEF new
  <2>2. /\ buf' = [buf EXCEPT ![a] = new]
        /\ pc' = [pc EXCEPT ![a] = "lock"]
        /\ tries' = [tries EXCEPT ![a] = 0]
        /\ wiped' = (wiped \/ file = Empty)
        /\ UNCHANGED <<file, lock, stale, acked, forced>>
    BY <1>3 DEF Read, new
  <2>3. adding' \in [Agents -> Decisions \cup {None}]
    <3>1. r[1] = "decision" => r[2] \in Decisions  BY DEF Requests
    <3>2. adding' = [adding EXCEPT ![a] = IF r[1] = "decision" THEN r[2] ELSE None]
      BY <1>3 DEF Read
    <3>3. QED BY <1>1, <3>1, <3>2 DEF TypeOK
  <2>4. left' \in 0..MaxCommands  BY <1>1, StateFileAssumption DEF Read, TypeOK
  <2>5. new # Empty  BY <2>1, ContentAssumption
  <2>6. TypeOK'
    <3>1. pc' \in [Agents -> {"idle", "lock", "steal", "force", "dead"} \cup Writing]
      BY <1>1, <2>2 DEF TypeOK
    <3>2. buf' \in [Agents -> Content \cup {Empty}]  BY <1>1, <2>1, <2>2 DEF TypeOK
    <3>3. \A b \in Agents : pc'[b] \notin {"idle", "dead"} => buf'[b] # Empty
      BY <1>1, <2>2, <2>5 DEF TypeOK
    <3>4. tries' \in [Agents -> 0..(MaxTries - 1)]
      BY <1>1, <2>2, StateFileAssumption DEF TypeOK
    <3>5. wiped' \in BOOLEAN  BY <2>2
    <3>6. QED BY <1>1, <2>2, <2>3, <2>4, <3>1, <3>2, <3>3, <3>4, <3>5 DEF TypeOK
  <2>7. pc[a] = "idle"  BY DEF Read
  <2>8. LockHasHolder' /\ HoldsLock'
    BY <1>1, <2>2, <2>7 DEF LockHasHolder, HoldsLock, TypeOK, Writing
  <2>9. TextsSound'
    <3>1. \A c : Sound(c, wiped) => Sound(c, wiped')  BY <2>2 DEF Sound
    <3>2. file' # Empty => Sound(file', wiped')  BY <1>1, <2>2, <3>1 DEF TextsSound
    <3>3. ASSUME NEW b \in Agents, buf'[b] # Empty PROVE Sound(buf'[b], wiped')
      <4>1. CASE b = a  BY <1>1, <2>1, <2>2, <4>1 DEF TypeOK
      <4>2. CASE b # a  BY <1>1, <2>2, <3>1, <3>3, <4>2 DEF TextsSound, TypeOK
      <4>3. QED BY <4>1, <4>2
    <3>4. QED BY <3>2, <3>3 DEF TextsSound
  <2>10. QED BY <2>6, <2>8, <2>9 DEF StateInv
<1>4. QED BY <1>2, <1>3

\* The steps that leave the texts alone keep them sound.
LEMMA SameTexts ==
  ASSUME TextsSound, UNCHANGED <<file, buf, wiped>>
  PROVE  TextsSound'
BY DEF TextsSound

\* Getting, or getting past, the lock.
LEMMA LockInv ==
  ASSUME StateInv, NEW a \in Agents,
         TakeLock(a) \/ SeeLock(a) \/ Steal(a) \/ LastResort(a) \/ LockError(a)
  PROVE  StateInv'
<1>1. TypeOK /\ LockHasHolder /\ HoldsLock /\ TextsSound  BY DEF StateInv
<1>2. UNCHANGED <<file, buf, adding, acked, wiped, left>> /\ pc[a] \in {"lock", "steal", "force"}
  BY DEF TakeLock, SeeLock, Steal, LastResort, LockError
<1>3. TextsSound'  BY <1>1, <1>2, SameTexts
<1>4. /\ \A t \in 0..(MaxTries - 1) : t # MaxTries - 1 => t + 1 \in 0..(MaxTries - 1)
      /\ a # NoLock
  BY StateFileAssumption
<1>5. tries[a] \in 0..(MaxTries - 1)  BY <1>1 DEF TypeOK
<1>6. tries' \in [Agents -> 0..(MaxTries - 1)]
  <2>1. CASE TakeLock(a) \/ LastResort(a) \/ LockError(a)
    BY <1>1, <2>1 DEF TakeLock, LastResort, LockError, TypeOK
  <2>2. CASE SeeLock(a)  BY <1>1, <1>4, <1>5, <2>2 DEF SeeLock, TypeOK
  <2>3. CASE Steal(a)  BY <1>1, <1>4, <1>5, <2>3 DEF Steal, TypeOK
  <2>4. QED BY <2>1, <2>2, <2>3
<1>7. \E x \in {"lock", "steal", "force", "truncate"} : pc' = [pc EXCEPT ![a] = x]
  <2>1. CASE TakeLock(a) \/ LastResort(a) \/ LockError(a)
    BY <2>1 DEF TakeLock, LastResort, LockError
  <2>2. CASE SeeLock(a)
    <3>1. pc[a] = "lock" /\ pc \in [Agents -> {"idle", "lock", "steal", "force", "dead"} \cup Writing]
      BY <1>1, <2>2 DEF SeeLock, TypeOK
    <3>2. pc = [pc EXCEPT ![a] = "lock"]  BY <3>1
    <3>3. pc' = [pc EXCEPT ![a] = "steal"] \/ pc' = [pc EXCEPT ![a] = "force"] \/ pc' = pc
      BY <2>2 DEF SeeLock
    <3>4. QED BY <3>2, <3>3
  <2>3. CASE Steal(a)  BY <2>3 DEF Steal
  <2>4. QED BY <2>1, <2>2, <2>3
<1>8. PICK x \in {"lock", "steal", "force", "truncate"} : pc' = [pc EXCEPT ![a] = x]
  BY <1>7
<1>9. TypeOK'
  <2>1. pc' \in [Agents -> {"idle", "lock", "steal", "force", "dead"} \cup Writing]
    BY <1>1, <1>8 DEF TypeOK, Writing
  <2>2. \A b \in Agents : pc'[b] \notin {"idle", "dead"} => buf'[b] # Empty
    BY <1>1, <1>2, <1>8 DEF TypeOK
  <2>3. lock' \in Agents \cup {NoLock} /\ stale' \in BOOLEAN /\ forced' \in BOOLEAN
    BY <1>1 DEF TakeLock, SeeLock, Steal, LastResort, LockError, TypeOK
  <2>4. QED BY <1>1, <1>2, <1>6, <2>1, <2>2, <2>3 DEF TypeOK
<1>10. LockHasHolder'
  <2>1. CASE TakeLock(a)
    <3>1. lock' = a /\ pc' = [pc EXCEPT ![a] = "truncate"]  BY <2>1 DEF TakeLock
    <3>2. QED BY <1>1, <3>1 DEF LockHasHolder, TypeOK, Writing
  <2>2. CASE Steal(a) \/ LastResort(a)  BY <2>2 DEF Steal, LastResort, LockHasHolder
  <2>3. CASE SeeLock(a) \/ LockError(a)
    <3>1. lock' = lock  BY <2>3 DEF SeeLock, LockError
    <3>2. lock # a \/ lock = NoLock  BY <1>1, <1>2 DEF LockHasHolder, Writing
    <3>3. QED BY <1>1, <1>8, <3>1, <3>2 DEF LockHasHolder, TypeOK
  <2>4. QED BY <2>1, <2>2, <2>3
<1>11. HoldsLock'
  <2>1. CASE TakeLock(a)
    <3>1. lock = NoLock /\ lock' = a /\ forced' = forced /\ pc' = [pc EXCEPT ![a] = "truncate"]
      BY <2>1 DEF TakeLock
    <3>2. ~forced => \A b \in Agents : pc[b] \notin Writing
      BY <1>1, <3>1, StateFileAssumption DEF HoldsLock
    <3>3. QED BY <1>1, <3>1, <3>2 DEF HoldsLock, TypeOK
  <2>2. CASE Steal(a) \/ LastResort(a) \/ LockError(a)
    BY <2>2 DEF Steal, LastResort, LockError, HoldsLock
  <2>3. CASE SeeLock(a)
    <3>1. lock' = lock /\ forced' = forced  BY <2>3 DEF SeeLock
    <3>2. \A b \in Agents : pc'[b] \in Writing => pc[b] \in Writing
      <4>1. pc' = [pc EXCEPT ![a] = "steal"] \/ pc' = [pc EXCEPT ![a] = "force"] \/ pc' = pc
        BY <2>3 DEF SeeLock
      <4>2. QED BY <1>1, <4>1 DEF TypeOK, Writing
    <3>3. QED BY <1>1, <3>1, <3>2 DEF HoldsLock
  <2>4. QED BY <2>1, <2>2, <2>3
<1>12. QED BY <1>3, <1>9, <1>10, <1>11 DEF StateInv

\* The two halves of the write.
LEMMA WriteInv ==
  ASSUME StateInv, NEW a \in Agents, Truncate(a) \/ Fill(a) \/ FillFails(a)
  PROVE  StateInv'
<1>1. TypeOK /\ LockHasHolder /\ HoldsLock /\ TextsSound  BY DEF StateInv
<1>2. UNCHANGED <<lock, stale, buf, tries, adding, forced, wiped, left>>
  BY DEF Truncate, Fill, FillFails
<1>3. /\ pc[a] \in Writing
      /\ pc' = [pc EXCEPT ![a] = "fill"] \/ pc' = [pc EXCEPT ![a] = "unlock"]
  BY DEF Truncate, Fill, FillFails, Writing
<1>4. buf[a] # Empty /\ buf[a] \in Content \cup {Empty}
  BY <1>1, <1>3 DEF TypeOK, Writing
<1>5. file' \in {Empty, buf[a], file}
  BY DEF Truncate, Fill, FillFails
<1>6. acked' \subseteq Decisions
  BY <1>1 DEF Truncate, Fill, FillFails, TypeOK
<1>7. TypeOK'
  <2>1. pc' \in [Agents -> {"idle", "lock", "steal", "force", "dead"} \cup Writing]
    BY <1>1, <1>3 DEF TypeOK, Writing
  <2>2. \A b \in Agents : pc'[b] \notin {"idle", "dead"} => buf'[b] # Empty
    BY <1>1, <1>2, <1>3, <1>4 DEF TypeOK
  <2>3. QED BY <1>1, <1>2, <1>4, <1>5, <1>6, <2>1, <2>2 DEF TypeOK
<1>8. \A b \in Agents : /\ pc'[b] \in Writing <=> pc[b] \in Writing
                        /\ pc[b] = "dead" => pc'[b] = "dead"
  BY <1>1, <1>3 DEF TypeOK, Writing
<1>9. LockHasHolder' /\ HoldsLock'
  BY <1>1, <1>2, <1>8 DEF LockHasHolder, HoldsLock, TypeOK
<1>10. TextsSound'  BY <1>1, <1>2, <1>4, <1>5 DEF TextsSound
<1>11. QED BY <1>7, <1>9, <1>10 DEF StateInv

\* A command returns or is killed.
LEMMA EndInv ==
  ASSUME StateInv, NEW a \in Agents, Unlock(a) \/ Crash(a)
  PROVE  StateInv'
<1>1. TypeOK /\ LockHasHolder /\ HoldsLock /\ TextsSound  BY DEF StateInv
<1>2. /\ buf' = [buf EXCEPT ![a] = Empty]
      /\ tries' = [tries EXCEPT ![a] = 0]
      /\ adding' = [adding EXCEPT ![a] = None]
      /\ UNCHANGED <<file, acked, wiped, left>>
  BY DEF Unlock, Crash, Forget
<1>3. pc' = [pc EXCEPT ![a] = "idle"] \/ pc' = [pc EXCEPT ![a] = "dead"]
  BY DEF Unlock, Crash
<1>4. TypeOK'
  <2>1. tries' \in [Agents -> 0..(MaxTries - 1)]  BY <1>1, <1>2, Bounds DEF TypeOK
  <2>2. lock' \in Agents \cup {NoLock} /\ stale' \in BOOLEAN /\ forced' \in BOOLEAN
    BY <1>1 DEF Unlock, Crash, TypeOK
  <2>3. pc' \in [Agents -> {"idle", "lock", "steal", "force", "dead"} \cup Writing]
    BY <1>1, <1>3 DEF TypeOK
  <2>4. \A b \in Agents : pc'[b] \notin {"idle", "dead"} => buf'[b] # Empty
    BY <1>1, <1>2, <1>3 DEF TypeOK
  <2>5. buf' \in [Agents -> Content \cup {Empty}] /\ adding' \in [Agents -> Decisions \cup {None}]
    BY <1>1, <1>2 DEF TypeOK
  <2>6. QED BY <1>1, <1>2, <2>1, <2>2, <2>3, <2>4, <2>5 DEF TypeOK
<1>5. LockHasHolder'
  <2>1. CASE Unlock(a)  BY <2>1 DEF Unlock, LockHasHolder
  <2>2. CASE Crash(a)
    <3>1. lock' = lock /\ pc' = [pc EXCEPT ![a] = "dead"]  BY <2>2 DEF Crash
    <3>2. QED BY <1>1, <3>1 DEF LockHasHolder, TypeOK
  <2>3. QED BY <2>1, <2>2
<1>6. HoldsLock'
  <2>1. CASE Unlock(a)
    <3>1. pc[a] \in Writing /\ forced' = forced /\ pc' = [pc EXCEPT ![a] = "idle"]
      BY <2>1 DEF Unlock, Writing
    <3>2. ~forced => \A b \in Agents : pc[b] \in Writing => b = a
      BY <1>1, <3>1 DEF HoldsLock
    <3>3. ~forced' => \A b \in Agents : pc'[b] \notin Writing
      BY <1>1, <3>1, <3>2 DEF TypeOK, Writing
    <3>4. QED BY <3>3 DEF HoldsLock
  <2>2. CASE Crash(a)  BY <2>2 DEF Crash, HoldsLock
  <2>3. QED BY <2>1, <2>2
<1>7. TextsSound'  BY <1>1, <1>2 DEF TextsSound, TypeOK
<1>8. QED BY <1>4, <1>5, <1>6, <1>7 DEF StateInv

\* Time passes, or somebody edits the file by hand.
LEMMA AroundInv ==
  ASSUME StateInv, AgeLock \/ RemoveStatusLine
  PROVE  StateInv'
<1>1. TypeOK /\ LockHasHolder /\ HoldsLock /\ TextsSound  BY DEF StateInv
<1>2. UNCHANGED <<lock, pc, buf, tries, adding, acked, forced, wiped, left>>
  BY DEF AgeLock, RemoveStatusLine
<1>3. file' \in Content \cup {Empty} /\ (file' # Empty => Sound(file', wiped))
  <2>1. CASE AgeLock  BY <1>1, <2>1 DEF AgeLock, TypeOK, TextsSound
  <2>2. CASE RemoveStatusLine
    <3> DEFINE d == [file EXCEPT !.status = None]
    <3>1. file \in Content /\ file.fm # None /\ file' = d /\ Sound(file, wiped)
      BY <1>1, <2>2 DEF RemoveStatusLine, TypeOK, TextsSound
    <3>2. d \in Content /\ d.status = None /\ d.fm = file.fm  BY <3>1 DEF Content
    <3>3. StateSnapshot(d) = d.fm /\ StateJson(d) = StateJson(file) /\ StateJson(d) = d.fm
      BY <3>1, <3>2 DEF StateSnapshot, StateJson
    <3>4. Sound(d, wiped)  BY <3>1, <3>2, <3>3 DEF Sound
    <3>5. QED BY <3>1, <3>2, <3>4
  <2>3. QED BY <2>1, <2>2
<1>4. stale' \in BOOLEAN  BY <1>1 DEF AgeLock, RemoveStatusLine, TypeOK
<1>5. TypeOK'  BY <1>1, <1>2, <1>3, <1>4 DEF TypeOK
<1>6. LockHasHolder' /\ HoldsLock'  BY <1>1, <1>2 DEF LockHasHolder, HoldsLock
<1>7. TextsSound'  BY <1>1, <1>2, <1>3 DEF TextsSound
<1>8. QED BY <1>5, <1>6, <1>7 DEF StateInv

\* The inductive invariant holds in every reachable state: types, the lock's
\* creator, the lock held by the writer, and sound texts.
THEOREM StateInvariant == Spec => []StateInv
<1>1. Init => StateInv  BY InitInv
<1>2. StateInv /\ [Next]_vars => StateInv'
  <2> SUFFICES ASSUME StateInv, [Next]_vars PROVE StateInv'  OBVIOUS
  <2>1. ASSUME NEW a \in Agents, NEW r \in Requests, Read(a, r) PROVE StateInv'
    BY <2>1, ReadInv
  <2>2. ASSUME NEW a \in Agents,
               TakeLock(a) \/ SeeLock(a) \/ Steal(a) \/ LastResort(a) \/ LockError(a)
        PROVE StateInv'
    BY <2>2, LockInv
  <2>3. ASSUME NEW a \in Agents, Truncate(a) \/ Fill(a) \/ FillFails(a) PROVE StateInv'
    BY <2>3, WriteInv
  <2>4. ASSUME NEW a \in Agents, Unlock(a) \/ Crash(a) PROVE StateInv'
    BY <2>4, EndInv
  <2>5. CASE AgeLock \/ RemoveStatusLine  BY <2>5, AroundInv
  <2>6. CASE UNCHANGED vars
    BY <2>6 DEF vars, StateInv, TypeOK, LockHasHolder, HoldsLock, TextsSound
  <2>7. QED BY <2>1, <2>2, <2>3, <2>4, <2>5, <2>6 DEF Next, Step
<1>3. QED BY <1>1, <1>2, PTL DEF Spec

\* The file, the copies and the lock keep their types, for any number of agents.
THEOREM StateTypeCorrect == Spec => []TypeOK
BY StateInvariant, PTL DEF StateInv

\* writeStateMd leaves no lock file behind, whoever unlinked whose.
THEOREM LockIsHeld == Spec => []LockHasHolder
BY StateInvariant, PTL DEF StateInv

\* The lock of writeStateMd excludes, as long as nobody goes past it or dies.
THEOREM LockExcludes == Spec => []OneWriter
<1>1. StateInv => OneWriter  BY DEF StateInv, HoldsLock, OneWriter
<1>2. QED BY <1>1, StateInvariant, PTL

\* `state json` and `state-snapshot` agree on every file any number of
\* commands can leave.
THEOREM ReportsAlwaysAgree == Spec => []ReportsAgree
<1>1. StateInv => ReportsAgree  BY DEF StateInv, TextsSound, Sound, ReportsAgree
<1>2. QED BY <1>1, StateInvariant, PTL

\* The status is forgotten only after `phase complete` read a torn file.
THEOREM StatusAlwaysKept == Spec => []StatusKept
<1>1. StateInv => StatusKept  BY DEF StateInv, TextsSound, Sound, StatusKept
<1>2. QED BY <1>1, StateInvariant, PTL
=============================================================================
