--------------------------- MODULE PhaseManager ---------------------------
(***************************************************************************)
(* The manager's dashboard and the agents it starts (`init manager` and    *)
(* `init progress` in bin/lib/init.cjs, `roadmap analyze` and `roadmap     *)
(* update-plan-progress` in roadmap.cjs, phase-plan-index in phase.cjs).   *)
(*                                                                         *)
(* There is no table of running agents: the manager infers what goes on    *)
(* from the files of a phase's directory, their age and the boxes ticked   *)
(* in ROADMAP.md, and the user starts the planners and executors it        *)
(* recommends; an agent is invisible to it until it writes a file.  The    *)
(* agents are external; they are modelled by the files they write and the  *)
(* commands they run.                                                      *)
(***************************************************************************)
EXTENDS Naturals, FiniteSets, Functions

CONSTANTS
  N,          \* phases in ROADMAP.md, numbered 1..N
  MaxPlans,   \* bound: plans of a phase
  Slots,      \* background agents at a time
  MaxDeaths,  \* bound: agents that die
  Projects    \* what is there when the milestone starts

Phases == 1..N

(* deps: the numbers on each phase's Depends on line; a number outside Phases
   is a phase of another milestone.  bare: phases whose planner calls its first
   plan PLAN.md.  deep: the milestone's phases have #### headings.  other: ##
   and ### phase headings of other milestones.  left: directories of phases
   that other milestones have completed and not archived.                    *)
ASSUME PhaseManagerAssumption ==
  /\ N \in Nat \ {0} /\ MaxPlans \in Nat \ {0} /\ MaxDeaths \in Nat
  /\ Projects \subseteq [deps: [Phases -> SUBSET Nat], bare: SUBSET Phases,
                         deep: BOOLEAN, other: Nat, left: Nat]

VARIABLES
  project, \* ROADMAP.md and the old directories
  files,   \* what each phase's directory holds
  tick,    \* phases whose box is ticked in ROADMAP.md
  active,  \* phases with a file younger than five minutes
  agent,   \* what runs in each slot
  deaths

vars == <<project, files, tick, active, agent, deaths>>

Free == [kind |-> "none"]
Busy(kind, p) == \E s \in Slots : agent[s].kind \in kind /\ agent[s].p = p
Executing == {"exec", "report", "write", "last", "lastwrite"}

-----------------------------------------------------------------------------
(* What the commands infer. *)

\* disk_status: a ticked box counts as much as the files.
DiskStatus(p) ==
  LET f == files[p]
      n == Cardinality(f.sums)
  IN
  IF p \in tick                    THEN "complete"
  ELSE IF ~f.dir                   THEN "no_directory"
  ELSE IF n >= f.plans /\ f.plans > 0 THEN "complete"
  ELSE IF n > 0                    THEN "partial"
  ELSE IF f.plans > 0              THEN "planned"
  ELSE IF f.research               THEN "researched"
  ELSE IF f.context                THEN "discussed"
  ELSE "empty"

Undiscussed == {p \in Phases : DiskStatus(p) \in {"empty", "no_directory"}}
AllComplete == \A p \in Phases : DiskStatus(p) = "complete"

\* Only the phases of this milestone are looked up.
deps_satisfied(p) ==
  \A q \in project.deps[p] : q \in Phases /\ DiskStatus(q) = "complete"

\* Sliding window: only the first undiscussed phase may be discussed.
is_next_to_discuss(p) == p \in Undiscussed /\ \A q \in Undiscussed : p <= q

MutRecommendedActions ==
  ({"execute"} \X {p \in Phases : DiskStatus(p) = "planned" /\ deps_satisfied(p)})
  \cup ({"plan"} \X {p \in Phases : DiskStatus(p) = "discussed"})
  \cup ({"discuss"} \X {p \in Phases : is_next_to_discuss(p)})
recommendedActions ==
  ({"execute"} \X {p \in Phases : DiskStatus(p) = "planned" /\ deps_satisfied(p)})
  \cup ({"plan"} \X {p \in Phases : DiskStatus(p) \in {"discussed", "researched"}})
  \cup ({"discuss"} \X {p \in Phases : is_next_to_discuss(p)})

\* reaches: what a phase depends on, directly or not.
reaches ==
  LET more(f) == [p \in Phases |-> f[p] \cup UNION {f[q] : q \in f[p] \cap Phases}]
      within[n \in 0..N] == IF n = 0 THEN project.deps ELSE more(within[n - 1])
  IN  within[N]

hasDepRelationship(p, q) == q \in reaches[p] \/ p \in reaches[q]

MutActiveExecuting == {p \in Phases : DiskStatus(p) \in {"partial", "planned"}}
activeExecuting ==
  {p \in Phases : DiskStatus(p) = "partial" \/ (DiskStatus(p) = "planned" /\ p \in active)}
activePlanning == {p \in active : DiskStatus(p) \in {"discussed", "researched"}}

\* recommended_actions: nothing that depends on, or is needed by, work that
\* seems to be going on.
filteredActions ==
  {a \in recommendedActions :
     /\ a[1] = "execute" => \A q \in activeExecuting : ~hasDepRelationship(a[2], q)
     /\ a[1] = "plan"    => \A q \in activePlanning : ~hasDepRelationship(a[2], q)}

MutPlanIndex(p) == (1..MaxPlans) \ files[p].sums
\* phase-plan-index: the plans without a SUMMARY.
PlanIndex(p) == (1..files[p].plans) \ files[p].sums

(* The other reports: they count files and do not look at the boxes. *)

MutProgressRender(p) ==
  LET f == files[p] IN
  IF ~f.dir \/ f.plans = 0 THEN "Pending"
  ELSE IF Cardinality(f.sums) > f.plans THEN "Complete"
  ELSE IF f.sums # {} THEN "In Progress" ELSE "Planned"
\* The status of a phase in `progress`.
ProgressRender(p) ==
  LET f == files[p] IN
  IF ~f.dir \/ f.plans = 0 THEN "Pending"
  ELSE IF Cardinality(f.sums) >= f.plans THEN "Complete"
  ELSE IF f.sums # {} THEN "In Progress" ELSE "Planned"

\* ... in `stats`, which also lists the phases that have only a header.
Stats(p) == IF ProgressRender(p) = "Pending" THEN "Not Started" ELSE ProgressRender(p)

\* ... in `init progress`.
InitProgress(p) ==
  LET f == files[p] IN
  IF ~f.dir THEN "not_started"
  ELSE IF f.plans > 0
  THEN IF Cardinality(f.sums) >= f.plans THEN "complete" ELSE "in_progress"
  ELSE IF f.research THEN "researched" ELSE "pending"

\* ... in `workstream status`.
WorkstreamStatus(p) ==
  LET f == files[p] IN
  IF f.plans = 0 THEN "pending"
  ELSE IF Cardinality(f.sums) >= f.plans THEN "complete" ELSE "in_progress"

\* The plans whose file is called something-PLAN.md, not PLAN.md.
Named(p, plans) == IF p \in project.bare THEN plans \ {1} ELSE plans

\* `verify phase-completeness` compares such names only; no plan is no error.
VerifyPhaseCompleteness(p) == files[p].dir /\ Named(p, PlanIndex(p)) = {}

Directories == {p \in Phases : files[p].dir}

\* completed_phases of `workstream list`, from all the directories.
WorkstreamList ==
  project.left + Cardinality({p \in Phases : WorkstreamStatus(p) = "complete"})

\* all_phases_complete of `init milestone-op` looks at the directories there
\* are, and takes any SUMMARY for the phase.
InitMilestoneOp ==
  /\ project.left > 0 \/ Directories # {}
  /\ \A p \in Directories : files[p].sums # {}

\* Math.round(part / whole * 100), 0 of nothing, and where it is capped.
Round(part, whole) == IF whole = 0 THEN 0 ELSE (200 * part + whole) \div (2 * whole)
Percent(part, whole) == IF Round(part, whole) > 100 THEN 100 ELSE Round(part, whole)

\* `state update-progress` passes over a bare PLAN.md too.
TotalPlans == SumFunction([p \in Phases |-> Cardinality(Named(p, 1..files[p].plans))])
TotalSummaries == SumFunction([p \in Phases |-> Cardinality(Named(p, files[p].sums))])

PlanPercent == Percent(TotalSummaries, TotalPlans)
StatsPercent == Percent(Cardinality({p \in Phases : Stats(p) = "Complete"}), N)

\* `workstream progress` counts the ## and ### headings of all of ROADMAP.md,
\* or the directories if it has none, and does not cap the figure.
Headings ==
  LET n == project.other + IF project.deep THEN 0 ELSE N
  IN  IF n = 0 THEN project.left + Cardinality(Directories) ELSE n
WorkstreamProgress == Round(WorkstreamList, Headings)

\* current_phase of `roadmap analyze`, and of `init progress`, which takes a
\* researched phase for current too.
AnalyzeCurrent ==
  {p \in Phases : DiskStatus(p) \in {"planned", "partial"}
     /\ \A q \in 1..(p - 1) : DiskStatus(q) \notin {"planned", "partial"}}
ProgressCurrent ==
  LET current == {p \in Phases : InitProgress(p) \in {"in_progress", "researched"}}
  IN  {p \in current : \A q \in current : p <= q}

-----------------------------------------------------------------------------
\* A new milestone: some phases scaffolded, and some ticked that were done
\* before the tool kept track.
Init ==
  /\ project \in Projects
  /\ files \in [Phases -> [dir: BOOLEAN, context: {FALSE}, research: {FALSE},
                           plans: {0}, sums: {{}}]]
  /\ tick \in SUBSET Phases
  /\ active = {}
  /\ agent = [s \in Slots |-> Free]
  /\ deaths = 0

Touch(p, f) ==
  /\ files' = [files EXCEPT ![p] = f]
  /\ active' = active \cup {p}

\* discuss-phase runs in the manager's own session and leaves CONTEXT.md.
Discuss(p) ==
  /\ <<"discuss", p>> \in filteredActions
  /\ Touch(p, [files[p] EXCEPT !.dir = TRUE, !.context = TRUE])
  /\ UNCHANGED <<project, tick, agent, deaths>>

\* plan-phase in the background.
StartPlanner(s, p) ==
  /\ agent[s] = Free /\ <<"plan", p>> \in filteredActions
  /\ agent' = [agent EXCEPT ![s] = [kind |-> "plan", p |-> p]]
  /\ UNCHANGED <<project, files, tick, active, deaths>>

\* execute-phase starts from the index of the plans it finds now.
Executor(p) ==
  IF PlanIndex(p) = {} THEN [kind |-> "last", p |-> p]
  ELSE [kind |-> "exec", p |-> p, todo |-> PlanIndex(p)]

StartExecutor(s, p) ==
  /\ agent[s] = Free /\ <<"execute", p>> \in filteredActions
  /\ agent' = [agent EXCEPT ![s] = Executor(p)]
  /\ UNCHANGED <<project, files, tick, active, deaths>>

\* The user executes the phase that progress calls the current one.
Resume(s, p) ==
  /\ agent[s] = Free /\ p \in AnalyzeCurrent \cup ProgressCurrent
  /\ PlanIndex(p) # {}
  /\ agent' = [agent EXCEPT ![s] = Executor(p)]
  /\ UNCHANGED <<project, files, tick, active, deaths>>

Research(s) ==
  /\ agent[s].kind = "plan" /\ ~files[agent[s].p].research
  /\ Touch(agent[s].p, [files[agent[s].p] EXCEPT !.research = TRUE])
  /\ UNCHANGED <<project, tick, agent, deaths>>

\* A planner writes its next plan.
WritePlan(s) ==
  LET p == agent[s].p IN
  /\ agent[s].kind = "plan" /\ files[p].plans < MaxPlans
  /\ Touch(p, [files[p] EXCEPT !.plans = @ + 1])
  /\ UNCHANGED <<project, tick, agent, deaths>>

PlannerEnds(s) ==
  /\ agent[s].kind = "plan" /\ files[agent[s].p].plans > 0
  /\ agent' = [agent EXCEPT ![s] = Free]
  /\ UNCHANGED <<project, files, tick, active, deaths>>

\* An executor finishes a plan of its list ...
WriteSummary(s) ==
  /\ agent[s].kind = "exec"
  /\ \E i \in agent[s].todo :
       /\ Touch(agent[s].p, [files[agent[s].p] EXCEPT !.sums = @ \cup {i}])
       /\ agent' = [agent EXCEPT ![s] = [kind |-> "report", p |-> @.p, todo |-> @.todo \ {i}]]
  /\ UNCHANGED <<project, tick, deaths>>

MutReadRoadmap(s) ==
  LET p == agent[s].p IN
  /\ agent[s].kind = "report"
  /\ agent' = [agent EXCEPT ![s] = [kind |-> "write", p |-> p, todo |-> @.todo,
                 text |-> {q \in Phases : files[q].plans > 0
                             /\ Cardinality(files[q].sums) >= files[q].plans}]]
  /\ UNCHANGED <<project, files, tick, active, deaths>>
\* ... and runs update-plan-progress, which counts the files, reads
\* ROADMAP.md and ticks the box when no plan is left ...
ReadRoadmap(s) ==
  LET p == agent[s].p IN
  /\ agent[s].kind = "report"
  /\ agent' = [agent EXCEPT ![s] = [kind |-> "write", p |-> p, todo |-> @.todo,
                 text |-> IF Cardinality(files[p].sums) >= files[p].plans
                          THEN tick \cup {p} ELSE tick]]
  /\ UNCHANGED <<project, files, tick, active, deaths>>

\* ... and writes the whole text back, with no lock.
WriteRoadmap(s) ==
  /\ agent[s].kind = "write"
  /\ tick' = agent[s].text
  /\ agent' = [agent EXCEPT ![s] =
                 IF @.todo = {} THEN [kind |-> "last", p |-> @.p]
                 ELSE [kind |-> "exec", p |-> @.p, todo |-> @.todo]]
  /\ UNCHANGED <<project, files, active, deaths>>

\* After the last plan `phase complete` ticks the box whatever is on disk.
CompleteRead(s) ==
  /\ agent[s].kind = "last"
  /\ agent' = [agent EXCEPT ![s] = [kind |-> "lastwrite", p |-> @.p, text |-> tick \cup {@.p}]]
  /\ UNCHANGED <<project, files, tick, active, deaths>>

CompleteWrite(s) ==
  /\ agent[s].kind = "lastwrite"
  /\ tick' = agent[s].text
  /\ agent' = [agent EXCEPT ![s] = Free]
  /\ UNCHANGED <<project, files, active, deaths>>

\* An agent dies, or ends before its work is done.
Die(s) ==
  /\ agent[s] # Free /\ deaths < MaxDeaths
  /\ agent' = [agent EXCEPT ![s] = Free]
  /\ deaths' = deaths + 1
  /\ UNCHANGED <<project, files, tick, active>>

\* Five minutes pass without a write to a phase's directory.
Quiet(p) ==
  /\ p \in active
  /\ active' = active \ {p}
  /\ UNCHANGED <<project, files, tick, agent, deaths>>

\* "Continue": the recommended actions are carried out.
Dispatch ==
  \E p \in Phases : Discuss(p) \/ \E s \in Slots : StartPlanner(s, p) \/ StartExecutor(s, p)

Work(s) ==
  \/ WritePlan(s) \/ PlannerEnds(s)
  \/ WriteSummary(s) \/ ReadRoadmap(s) \/ WriteRoadmap(s)
  \/ CompleteRead(s) \/ CompleteWrite(s)

Next ==
  \/ Dispatch
  \/ \E s \in Slots : Research(s) \/ Work(s) \/ Die(s) \/ \E p \in Phases : Resume(s, p)
  \/ \E p \in Phases : Quiet(p)

Spec == Init /\ [][Next]_vars

\* The manager loops over dashboard and action, an agent that lives goes on
\* working, and time passes.
FairSpec ==
  /\ Spec
  /\ WF_vars(Dispatch)
  /\ \A s \in Slots : WF_vars(Work(s))
  /\ \A p \in Phases : WF_vars(Quiet(p))

-----------------------------------------------------------------------------
Text == SUBSET Phases
Job == {Free}
  \cup [kind: {"plan", "last"}, p: Phases]
  \cup [kind: {"exec", "report"}, p: Phases, todo: SUBSET (1..MaxPlans)]
  \cup [kind: {"write"}, p: Phases, todo: SUBSET (1..MaxPlans), text: Text]
  \cup [kind: {"lastwrite"}, p: Phases, text: Text]

\* The type invariant: in particular there is a SUMMARY only of a plan, and
\* anything at all only in a directory.
TypeOK ==
  /\ project \in Projects
  /\ files \in [Phases -> [dir: BOOLEAN, context: BOOLEAN, research: BOOLEAN,
                           plans: 0..MaxPlans, sums: SUBSET (1..MaxPlans)]]
  /\ \A p \in Phases : files[p].sums \subseteq 1..files[p].plans
  /\ \A p \in Phases : files[p].plans > 0 => files[p].dir
  /\ tick \in Text /\ active \in Text
  /\ agent \in [Slots -> Job]
  /\ deaths \in 0..MaxDeaths

\* The percentages are rounded: 100% of the named plans leaves at most one of
\* 200 open, and 100% in `stats` leaves the manager at most one phase in 200 to
\* work on.  `workstream progress` shows the figure of `stats` when all of
\* ROADMAP.md, and of the phases directory, is one milestone.
PercentagesAgree ==
  /\ PlanPercent = 100 =>
       200 * SumFunction([p \in Phases |-> Cardinality(Named(p, PlanIndex(p)))]) <= TotalPlans
  /\ StatsPercent = 100 =>
       200 * Cardinality({p \in Phases : DiskStatus(p) # "complete"}) <= N
  /\ project.other = 0 /\ project.left = 0 /\ ~project.deep =>
       WorkstreamProgress = StatsPercent

\* The reports agree on a phase that has plans, those that count files with
\* the index that compares names; the dashboard differs from them only for a
\* phase ticked in ROADMAP.md, and `verify phase-completeness` only for a phase
\* whose one open plan is a bare PLAN.md.  What `init milestone-op` calls
\* complete has no directory whose execution has not begun.  The percentages
\* agree with the verdicts they are made of.
VerdictsAgree ==
  /\ \A p \in Phases : files[p].plans > 0 =>
       /\ (ProgressRender(p) = "Complete") = (PlanIndex(p) = {})
       /\ (InitProgress(p) = "complete") = (PlanIndex(p) = {})
       /\ (WorkstreamStatus(p) = "complete") = (PlanIndex(p) = {})
       /\ (DiskStatus(p) = "complete") = (PlanIndex(p) = {} \/ p \in tick)
       /\ VerifyPhaseCompleteness(p) =
            (PlanIndex(p) = {} \/ (PlanIndex(p) = {1} /\ p \in project.bare))
  /\ InitMilestoneOp =>
       \A p \in Phases : files[p].dir => DiskStatus(p) \in {"complete", "partial"}
  /\ PercentagesAgree

Partial == {p \in Phases : DiskStatus(p) = "partial"}

\* Planned, but for an unfinished phase that is not an earlier one of this
\* milestone: it is looked up among this milestone's phases and never found,
\* even if another milestone has shipped it, or ROADMAP.md lists it later.
Waiting ==
  {p \in Phases : /\ DiskStatus(p) = "planned"
                  /\ \E q \in project.deps[p] :
                       /\ q \notin 1..(p - 1)
                       /\ ~(q \in Phases /\ DiskStatus(q) = "complete")}

\* The manager never runs out of recommendations early: when no agent runs
\* and all is quiet, an unfinished milestone has a recommended action, unless
\* a phase is partly executed (`partial` is in none of the branches) or waits
\* for one outside the milestone or after it.
NotStuck ==
  (\A s \in Slots : agent[s] = Free) /\ active = {} =>
    AllComplete \/ filteredActions # {} \/ Partial # {} \/ Waiting # {}

\* Work once complete is never recommended again from the start: whatever
\* executors overwrite in ROADMAP.md, and however late a planner writes, a
\* complete phase stays complete or becomes a partly executed one.
CompletionKept ==
  [][\A p \in Phases : DiskStatus(p) = "complete" =>
       DiskStatus(p)' \in {"complete", "partial"}]_vars

\* The milestone gets done, or a partly executed phase is left without an
\* executor, or nothing can be done any more because a phase waits for one
\* that is not an earlier phase of the milestone: agents that die, are started
\* twice or overwrite each other's ticks hold it up in no other way.
EventuallyDone ==
  <>[]( \/ AllComplete
        \/ \E p \in Partial : ~Busy(Executing, p)
        \/ Waiting # {} /\ recommendedActions = {} )
=============================================================================
