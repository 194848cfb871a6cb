----------------------------- MODULE PhaseTree -----------------------------
(***************************************************************************)
(* The phases of a project, which the planning tool keeps twice: as        *)
(* headers of ROADMAP.md and as directories under .planning/phases/        *)
(* (bin/lib/phase.cjs, milestone.cjs and the lookups of core.cjs).         *)
(*                                                                         *)
(* A phase has an integer number and, when it was inserted, a decimal one  *)
(* (d > 0); phase 6 is "Phase 6:" in ROADMAP.md and 06-<slug> on disk, the *)
(* phase inserted after it "Phase 06.1:" and 06.1-<slug>.  Behind the      *)
(* section of the current milestone ROADMAP.md may have the one of a later *)
(* milestone: some commands read the current section, others the text.     *)
(* A command is a sequence of file system calls and may be killed between  *)
(* two of them; executors write SUMMARY files at any time.                 *)
(***************************************************************************)
EXTENDS Integers, Sequences, FiniteSets, SequencesExt

CONSTANTS
  Slugs,       \* descriptions, as they appear in directory names
  Planned,     \* number of phases the roadmapper wrote
  Forms,       \* how a phase number is typed: "header", as ROADMAP.md has it, or "other"
  Versions,    \* milestone versions, numbered in the order of their names
  MaxPhases,   \* bound: directories ever created
  MaxCommands  \* bound: commands started

ASSUME PhaseTreeAssumption ==
  /\ Planned \in Nat \ {0} /\ MaxPhases \in Nat /\ MaxCommands \in Nat
  /\ Planned <= MaxPhases
  /\ Forms \subseteq {"header", "other"}
  /\ Versions \subseteq Nat

VARIABLES
  roadmap,   \* headers of ROADMAP.md in document order
  later,     \* does the section of a later milestone follow the current one?
  cut,       \* if so, the number of headers in front of it
  disk,      \* directories under phases/
  archive,   \* directories under milestones/<version>-phases/, by version
  state,     \* STATE.md: current phase, Completed Phases, Total Phases
  job,       \* the command under way and what it still has to do
  executed,  \* history: directories that ever held a SUMMARY
  dropped,   \* history: directories deleted with --force
  raced,     \* history: SUMMARY written between the guard and the deletion
  drift,     \* history: something that may part ROADMAP.md from the disk
  made,      \* directories created so far
  left       \* commands that may still start

vars == <<roadmap, later, cut, disk, archive, state, job, executed, dropped, raced, drift, made, left>>

\* box: the phase's line in the checklist; `phase add` and `insert` write none.
Header == [n: Nat, d: Nat, slug: Slugs, box: {"none", "open", "done"}]
Dir    == [n: Nat, d: Nat, slug: Slugs, id: Nat, run: BOOLEAN]
Idle   == [op |-> "idle"]

Same(x, y)     == x.n = y.n /\ x.d = y.d
SameName(x, y) == Same(x, y) /\ x.slug = y.slug

\* The headers that extractCurrentMilestone leaves, and their places.
Current == IF later THEN 1..cut ELSE DOMAIN roadmap
extractCurrentMilestone == {roadmap[i] : i \in Current}

-----------------------------------------------------------------------------
\* comparePhaseNum: 6 < 6.1 < 6.2 < 7.
comparePhaseNum(x, y) == x.n < y.n \/ (x.n = y.n /\ x.d < y.d)

\* The first directory in sorted order; equal numbers come in any order.
FirstOf(S) == {x \in S : \A y \in S : ~comparePhaseNum(y, x)}

\* Directories are found by the start of their names, so 06 also finds 06.1.
StartsWith(S, n, d) == {x \in S : x.n = n /\ (d = 0 \/ x.d = d)}

\* `phases list --phase`: the first of them.
PhasesList(n, d) == FirstOf(StartsWith(disk, n, d))

\* findPhaseInternal: the same, then the archives, the last version first.
\* `init plan-phase`, `execute-phase` and `verify-work` take what it finds.
findPhaseInternal(n, d) ==
  LET archived == {v \in Versions : StartsWith(archive[v], n, d) # {}} IN
  IF StartsWith(disk, n, d) # {} THEN FirstOf(StartsWith(disk, n, d))
  ELSE IF archived # {} THEN FirstOf(StartsWith(archive[Max(archived)], n, d))
  ELSE {}

\* The text of a header against the argument: an integer has no leading zero
\* in ROADMAP.md, a decimal has the one of its directory.
Matches(h, n, d, form) == form = "header" /\ h.n = n /\ h.d = d

\* `roadmap get-phase`, getRoadmapPhaseInternal: the first matching header of
\* the current milestone.
RoadmapGetPhase(n, d, form) ==
  LET found == {i \in Current : Matches(roadmap[i], n, d, form)}
  IN  {roadmap[i] : i \in {j \in found : \A k \in found : j <= k}}

\* `init phase-op`: shipped work that reused the number gives way to a header
\* of the current milestone (no directory then).
InitPhaseOp(n, d, form) ==
  IF findPhaseInternal(n, d) \subseteq disk \/ RoadmapGetPhase(n, d, form) = {}
  THEN findPhaseInternal(n, d) ELSE {}

\* getMilestonePhaseFilter: the directories whose number has a header in the
\* current milestone; all of them when that has none.
InMilestone == {x \in disk : \/ Current = {}
                             \/ \E h \in extractCurrentMilestone : Same(h, x)}

\* `validate consistency`: every header of the current milestone has a
\* directory, every directory a header there (the integer's will do for a
\* decimal), the integers on disk no gap.
ValidateConsistency ==
  LET integers == {x.n : x \in {y \in disk : y.d = 0}} IN
  /\ \A h \in extractCurrentMilestone : \E x \in disk : Same(h, x)
  /\ \A x \in disk : \E h \in extractCurrentMilestone : h.n = x.n /\ h.d \in {0, x.d}
  /\ \A k \in integers : k = Min(integers) \/ k - 1 \in integers

MutNextInteger == 1 + Cardinality(Current)
\* `phase add` looks for the highest integer in the current milestone only.
NextInteger == 1 + Max({h.n : h \in extractCurrentMilestone} \cup {0})

\* `phase insert` looks for the highest decimal on disk only.
NextDecimal(n) == 1 + Max({x.d : x \in {y \in disk : y.n = n}} \cup {0})

\* mkdir -p of a phase directory; an existing one is taken as it is.
MakeDir(n, d, slug) ==
  IF \E x \in disk : SameName(x, [n |-> n, d |-> d, slug |-> slug])
  THEN UNCHANGED <<disk, made>>
  ELSE /\ made < MaxPhases
       /\ disk' = disk \cup {[n |-> n, d |-> d, slug |-> slug, id |-> made + 1, run |-> FALSE]}
       /\ made' = made + 1

Start == job = Idle /\ left > 0 /\ left' = left - 1

-----------------------------------------------------------------------------
\* The roadmapper wrote the phases of this milestone and, in some projects, a
\* section for the next one, with a phase in it or none yet.
Init ==
  /\ \E name \in [1..(Planned + 1) -> Slugs], phases \in {Planned, Planned + 1} :
       /\ roadmap = [i \in 1..phases |->
                       [n |-> i, d |-> 0, slug |-> name[i],
                        box |-> IF i <= Planned THEN "open" ELSE "none"]]
       /\ later \in BOOLEAN
       /\ phases > Planned => later
       /\ cut = IF later THEN Planned ELSE 0
       /\ disk = {[n |-> i, d |-> 0, slug |-> name[i], id |-> i, run |-> FALSE] : i \in 1..Planned}
  /\ archive = [v \in Versions |-> {}]
  /\ state = [n |-> 1, d |-> 0, completed |-> 0, total |-> Planned]
  /\ job = Idle
  /\ executed = {}
  /\ dropped = {}
  /\ raced = {}
  /\ drift = FALSE
  /\ made = Planned
  /\ left = MaxCommands

\* phase add: the directory first ...
PhaseAdd(slug) ==
  /\ Start
  /\ MakeDir(NextInteger, 0, slug)
  /\ job' = [op |-> "add", h |-> [n |-> NextInteger, d |-> 0, slug |-> slug, box |-> "none"]]
  /\ drift' = (drift \/ later)
  /\ UNCHANGED <<roadmap, later, cut, archive, state, executed, dropped, raced>>

\* ... then the section at the end of ROADMAP.md, behind a later milestone's.
PhaseAddRoadmap ==
  /\ job.op = "add"
  /\ roadmap' = Append(roadmap, job.h)
  /\ job' = Idle
  /\ UNCHANGED <<later, cut, disk, archive, state, executed, dropped, raced, drift, made, left>>

\* phase insert: the current milestone must have the phase to insert after.
PhaseInsert(i, slug) ==
  LET n == roadmap[i].n IN
  /\ Start
  /\ roadmap[i].d = 0
  /\ \A j \in 1..(i - 1) : roadmap[j].n # n \/ roadmap[j].d # 0
  /\ MakeDir(n, NextDecimal(n), slug)
  /\ job' = [op |-> "insert", at |-> i + 1,
             h |-> [n |-> n, d |-> NextDecimal(n), slug |-> slug, box |-> "none"]]
  /\ drift' = (drift \/ (later /\ i = cut))
  /\ UNCHANGED <<roadmap, later, cut, archive, state, executed, dropped, raced>>

\* Its section goes right before the next header of a phase, which the heading
\* of a later milestone is not.
PhaseInsertRoadmap ==
  /\ job.op = "insert"
  /\ roadmap' = InsertAt(roadmap, job.at, job.h)
  /\ cut' = IF later /\ job.at <= cut THEN cut + 1 ELSE cut
  /\ job' = Idle
  /\ UNCHANGED <<later, disk, archive, state, executed, dropped, raced, drift, made, left>>

\* The directories a removal has to rename: the decimals behind a decimal,
\* or everything behind an integer.
ToRename(n, d, S) ==
  IF d > 0 THEN {x \in S : x.n = n /\ x.d > d} ELSE {x \in S : x.n > n}

\* A removal that leaves inserted phases behind, or phases to renumber.
HasFollowers(n, d) == \E x \in disk : (x.n = n /\ x.d > d) \/ x \in ToRename(n, d, disk)

\* The places of the headers that match the argument, and a removal of the
\* last header before a later milestone.
Sections(n, d, form) == {i \in DOMAIN roadmap : Matches(roadmap[i], n, d, form)}
Severs(n, d, form)   == later /\ Sections(n, d, form) # {} /\ Min(Sections(n, d, form)) = cut

MutPhaseRemove(n, d, force, form) ==
  LET target == FirstOf({x \in disk : x.n = n /\ x.d = d}) IN
  /\ Start
  /\ \E gone \in IF target = {} THEN {{}} ELSE {{x} : x \in target} :
       job' = [op |-> "delete", n |-> n, d |-> d, form |-> form, force |-> force,
               ids |-> {y.id : y \in gone}]
  /\ drift' = (drift \/ form # "header" \/ HasFollowers(n, d) \/ Severs(n, d, form))
  /\ UNCHANGED <<roadmap, later, cut, disk, archive, state, executed, dropped, raced, made>>
\* phase remove: find the directory, and refuse executed work unless forced.
PhaseRemove(n, d, force, form) ==
  LET target == FirstOf({x \in disk : x.n = n /\ x.d = d}) IN
  /\ Start
  /\ \E gone \in IF target = {} THEN {{}} ELSE {{x} : x \in target} :
       /\ \A y \in gone : y.run => force
       /\ job' = [op |-> "delete", n |-> n, d |-> d, form |-> form, force |-> force,
                  ids |-> {y.id : y \in gone}]
  /\ drift' = (drift \/ form # "header" \/ HasFollowers(n, d) \/ Severs(n, d, form))
  /\ UNCHANGED <<roadmap, later, cut, disk, archive, state, executed, dropped, raced, made>>

\* Delete the directory with all it holds by now.
PhaseRemoveDelete ==
  LET gone == {x \in disk : x.id \in job.ids} IN
  /\ job.op = "delete"
  /\ disk' = disk \ gone
  /\ dropped' = IF job.force THEN dropped \cup job.ids ELSE dropped
  /\ job' = [op |-> "rename", n |-> job.n, d |-> job.d, form |-> job.form,
             ids |-> {x.id : x \in ToRename(job.n, job.d, disk \ gone)}]
  /\ UNCHANGED <<roadmap, later, cut, archive, state, executed, raced, drift, made, left>>

MutRenumbered(x) == IF job.d > 0 THEN [x EXCEPT !.d = job.d] ELSE [x EXCEPT !.n = job.n]
Renumbered(x) == IF job.d > 0 THEN [x EXCEPT !.d = @ - 1] ELSE [x EXCEPT !.n = @ - 1]

\* renameIntegerPhases, renameDecimalPhases: highest number first; a rename
\* onto an existing directory throws (no directory is empty, each has its
\* .gitkeep), which ends the renaming without a word.
PhaseRemoveRename ==
  /\ job.op = "rename" /\ job.ids # {}
  /\ \E x \in {y \in disk : y.id \in job.ids} :
       /\ \A z \in disk : z.id \in job.ids => ~comparePhaseNum(x, z)
       /\ IF \E y \in disk : SameName(y, Renumbered(x))
          THEN job' = [job EXCEPT !.ids = {}] /\ UNCHANGED disk
          ELSE /\ disk' = (disk \ {x}) \cup {Renumbered(x)}
               /\ job' = [job EXCEPT !.ids = @ \ {x.id}]
  /\ UNCHANGED <<roadmap, later, cut, archive, state, executed, dropped, raced, drift, made, left>>

\* The first matching section goes, and every matching line of the checklist.
DropSection(hs, n, d, form) ==
  LET found  == {i \in DOMAIN hs : Matches(hs[i], n, d, form)}
      unlist == [i \in DOMAIN hs |-> IF i \in found THEN [hs[i] EXCEPT !.box = "none"] ELSE hs[i]]
  IN  IF found = {} THEN hs ELSE RemoveAt(unlist, Min(found))

\* The loop runs from 99 down and each round renames every "Phase k" to
\* "Phase k-1", so a header renamed in one round is renamed again in the
\* next: every later integer ends at the removed number.
RenumberHeaders(hs, n) ==
  [i \in DOMAIN hs |-> IF hs[i].d = 0 /\ hs[i].n > n THEN [hs[i] EXCEPT !.n = n] ELSE hs[i]]

\* updateRoadmapAfterPhaseRemoval: a section ends at the next header of a
\* phase or with the text, so the last one of the milestone takes the heading
\* of the later milestone with it.  Then the counter in STATE.md.
PhaseRemoveRoadmap ==
  LET found == Sections(job.n, job.d, job.form) IN
  /\ job.op = "rename" /\ job.ids = {}
  /\ LET rest == DropSection(roadmap, job.n, job.d, job.form)
     IN  roadmap' = IF job.d = 0 THEN RenumberHeaders(rest, job.n) ELSE rest
  /\ later' = (later /\ ~Severs(job.n, job.d, job.form))
  /\ cut' = IF ~later' THEN 0 ELSE IF found # {} /\ Min(found) < cut THEN cut - 1 ELSE cut
  /\ job' = [op |-> "count"]
  /\ UNCHANGED <<disk, archive, state, executed, dropped, raced, drift, made, left>>

PhaseRemoveState ==
  /\ job.op = "count"
  /\ state' = [state EXCEPT !.total = @ - 1]
  /\ job' = Idle
  /\ UNCHANGED <<roadmap, later, cut, disk, archive, executed, dropped, raced, drift, made, left>>

\* phase complete: the phase must be found; tick its first open box ...
PhaseComplete(n, d, form) ==
  LET open == {i \in DOMAIN roadmap : roadmap[i].box = "open" /\ Matches(roadmap[i], n, d, form)}
  IN
  /\ Start
  /\ findPhaseInternal(n, d) # {}
  /\ roadmap' = [i \in DOMAIN roadmap |->
                   IF open # {} /\ i = Min(open) THEN [roadmap[i] EXCEPT !.box = "done"]
                   ELSE roadmap[i]]
  /\ job' = [op |-> "advance", n |-> n, d |-> d]
  /\ UNCHANGED <<later, cut, disk, archive, state, executed, dropped, raced, drift, made>>

\* ... then move STATE.md to the next phase: the first later directory or,
\* only when there is none, the first later header of the milestone.
PhaseCompleteState ==
  LET after  == {x \in InMilestone : comparePhaseNum(job, x)}
      listed == {i \in Current : comparePhaseNum(job, roadmap[i])}
  IN
  /\ job.op = "advance"
  /\ \E next \in IF after # {} THEN FirstOf(after)
                 ELSE IF listed # {} THEN {roadmap[Min(listed)]}
                 ELSE {job} :
       state' = [state EXCEPT !.n = next.n, !.d = next.d, !.completed = @ + 1]
  /\ job' = Idle
  /\ UNCHANGED <<roadmap, later, cut, disk, archive, executed, dropped, raced, drift, made, left>>

\* milestone complete --archive-phases, after the copies of ROADMAP.md and
\* REQUIREMENTS.md and the entry in MILESTONES.md.
MilestoneComplete(v) ==
  /\ Start
  /\ job' = [op |-> "archive", to |-> v, ids |-> {x.id : x \in InMilestone}]
  /\ drift' = TRUE
  /\ UNCHANGED <<roadmap, later, cut, disk, archive, state, executed, dropped, raced, made>>

\* One directory after the other is moved; a name the archive of this version
\* has already throws, which ends the archiving without a word.
ArchivePhase ==
  /\ job.op = "archive"
  /\ IF job.ids = {} THEN job' = Idle /\ UNCHANGED <<disk, archive>>
     ELSE \E x \in {y \in disk : y.id \in job.ids} :
       IF \E y \in archive[job.to] : SameName(x, y)
       THEN job' = Idle /\ UNCHANGED <<disk, archive>>
       ELSE /\ archive' = [archive EXCEPT ![job.to] = @ \cup {x}]
            /\ disk' = disk \ {x}
            /\ job' = [job EXCEPT !.ids = @ \ {x.id}]
  /\ UNCHANGED <<roadmap, later, cut, state, executed, dropped, raced, drift, made, left>>

\* An executor writes the SUMMARY of a plan, at any time.
WriteSummary(x) ==
  /\ ~x.run
  /\ disk' = (disk \ {x}) \cup {[x EXCEPT !.run = TRUE]}
  /\ executed' = executed \cup {x.id}
  /\ raced' = IF job.op = "delete" /\ x.id \in job.ids THEN raced \cup {x.id} ELSE raced
  /\ UNCHANGED <<roadmap, later, cut, archive, state, job, dropped, drift, made, left>>

\* The command is killed between two file system calls.
Kill ==
  /\ job # Idle
  /\ job' = Idle
  /\ drift' = TRUE
  /\ UNCHANGED <<roadmap, later, cut, disk, archive, state, executed, dropped, raced, made, left>>

\* The commands that take a phase number, for a phase somebody can see.
NumberedCommand ==
  \E x \in Range(roadmap) \cup disk, form \in Forms :
    \/ PhaseComplete(x.n, x.d, form)
    \/ \E force \in BOOLEAN : PhaseRemove(x.n, x.d, force, form)

Next ==
  \/ \E slug \in Slugs : \/ PhaseAdd(slug)
                         \/ \E i \in Current : PhaseInsert(i, slug)
  \/ PhaseAddRoadmap \/ PhaseInsertRoadmap
  \/ NumberedCommand
  \/ PhaseRemoveDelete \/ PhaseRemoveRename \/ PhaseRemoveRoadmap \/ PhaseRemoveState
  \/ PhaseCompleteState
  \/ \E v \in Versions : MilestoneComplete(v)
  \/ ArchivePhase
  \/ \E x \in disk : WriteSummary(x)
  \/ Kill

Spec == Init /\ [][Next]_vars

-----------------------------------------------------------------------------
\* Executed work survives: a directory that ever held a SUMMARY is still on
\* disk or archived, whatever renaming or archiving collided, whatever
\* command was killed and however far numbers drifted apart.  The exceptions
\* are `phase remove --force` and a SUMMARY written after the guard of
\* `phase remove` had looked and before the directory was deleted.
ExecutedWorkKept ==
  executed \subseteq {x.id : x \in disk \cup UNION Range(archive)} \cup dropped \cup raced

\* Every lookup of a phase of the current milestone finds the directory of that
\* phase, not the one of another milestone or of a phase inserted after it.
LookupsAgree ==
  \A h \in extractCurrentMilestone :
    LET found == {PhasesList(h.n, h.d), findPhaseInternal(h.n, h.d)}
                 \cup {InitPhaseOp(h.n, h.d, form) : form \in Forms}
    IN  /\ RoadmapGetPhase(h.n, h.d, "header") = {h}
        /\ \A S \in found : S # {} /\ \A x \in S : SameName(h, x)

\* ROADMAP.md and the disk part, as `validate consistency` sees them, and a
\* phase is looked up wrongly, only through a killed command, the archiving of
\* a milestone, a removal that was given the number in another form or left
\* later or inserted phases, or, in a ROADMAP.md with the section of a later
\* milestone, a phase that was added, inserted behind the last phase of the
\* current one, or was that last phase and was removed.
DriftExplained == job = Idle /\ ~drift => ValidateConsistency /\ LookupsAgree

\* Renumbering on disk never swaps two integer phases, at no step of it.
IntegerOrderKept ==
  [][\A x, y \in disk : \A x1, y1 \in disk' :
       (x.id = x1.id /\ y.id = y1.id /\ x.d = 0 /\ y.d = 0 /\ x.n < y.n) => x1.n <= y1.n]_vars

\* The integer headers of the milestone are numbered apart ("renumber all
\* subsequent phases to maintain a clean linear sequence", remove-phase.md).
RoadmapSequential ==
  \A i, j \in Current :
    roadmap[i].d = 0 /\ roadmap[j].d = 0 /\ roadmap[i].n = roadmap[j].n => i = j
=============================================================================
