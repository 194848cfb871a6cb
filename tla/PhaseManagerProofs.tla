------------------------ MODULE PhaseManagerProofs ------------------------
(***************************************************************************)
(* Proofs about the manager's dashboard, for any number of phases, plans,  *)
(* agents and deaths: the reports agree, the manager does not run out of   *)
(* recommendations, and completed work is not done again.                  *)
(***************************************************************************)
EXTENDS PhaseManager, NaturalLemmas, FiniteSetTheorems, TLAPS

USE PhaseManagerAssumption DEF Phases

-----------------------------------------------------------------------------
(* Counting. *)

\* Counting the SUMMARY files and comparing their names with those of the
\* plans comes to the same.
LEMMA CountSums ==
  ASSUME NEW n \in Nat, NEW S, S \subseteq 1..n
  PROVE  /\ Cardinality(S) \in Nat
         /\ Cardinality(S) > 0 <=> S # {}
         /\ Cardinality(S) >= n <=> (1..n) \ S = {}
<1>1. IsFiniteSet(1..n) /\ Cardinality(1..n) = n
  BY FS_Interval
<1>2. IsFiniteSet(S) /\ Cardinality(S) <= n /\ (n = Cardinality(S) => 1..n = S)
  BY <1>1, FS_Subset
<1>3. Cardinality(S) \in Nat
  BY <1>2, FS_CardinalityType
<1>4. Cardinality(S) = 0 <=> S = {}
  BY <1>2, FS_EmptySet
<1>5. Cardinality(S) >= n <=> S = 1..n
  BY <1>1, <1>2, <1>3
<1>6. Cardinality(S) > 0 <=> S # {}
  <2>1. Cardinality(S) > 0 <=> Cardinality(S) # 0
    BY <1>3
  <2> QED
    BY <1>4, <2>1, Zenon
<1>7. ASSUME Cardinality(S) >= n PROVE (1..n) \ S = {}
  BY <1>5, <1>7
<1>8. ASSUME (1..n) \ S = {} PROVE Cardinality(S) >= n
  <2>1. S = 1..n
    BY <1>8
  <2> QED
    BY <1>5, <2>1
<1> QED
  BY <1>3, <1>6, <1>7, <1>8

-----------------------------------------------------------------------------
(* The invariant. *)

\* What an agent works on: a planner has a directory, an executor's list is
\* of plans there are, and who reports has written a SUMMARY.
AtWork(j, fs) ==
  /\ j.kind = "plan" => fs[j.p].dir
  /\ j.kind \in {"exec", "report", "write"} => j.todo \subseteq 1..fs[j.p].plans
  /\ j.kind \in {"report", "write", "last", "lastwrite"} => fs[j.p].sums # {}

\* The phases done before the tool kept track: ticked without a SUMMARY.
Unexecuted(text, fs) == {q \in text : fs[q].sums = {}}
Shipped == Unexecuted(tick, files)

\* Nobody plans or executes them, and no text in an agent's memory has lost
\* their ticks, or ticks another phase that has no SUMMARY.
Apart(j, fs, shipped) ==
  /\ j.p \notin shipped
  /\ j.kind \in {"write", "lastwrite"} => Unexecuted(j.text, fs) = shipped

Agents == \A s \in Slots : agent[s].kind # "none" =>
            AtWork(agent[s], files) /\ Apart(agent[s], files, Shipped)

ManagerInv ==
  /\ TypeOK
  /\ \A p \in Shipped : files[p].plans = 0
  /\ Agents

FileRec == [dir: BOOLEAN, context: BOOLEAN, research: BOOLEAN,
            plans: 0..MaxPlans, sums: SUBSET (1..MaxPlans)]

-----------------------------------------------------------------------------
(* The agents' records. *)

\* The fields an agent's record has.
LEMMA JobFields ==
  ASSUME NEW j \in Job
  PROVE  /\ j.kind = "none" <=> j = Free
         /\ j.kind # "none" => j.p \in Phases
         /\ j.kind \in {"exec", "report", "write"} => j.todo \in SUBSET (1..MaxPlans)
         /\ j.kind \in {"write", "lastwrite"} => j.text \in Text
         /\ j.kind \in {"none", "plan", "exec", "report", "write", "last", "lastwrite"}
<1>1. CASE j = Free
  BY <1>1 DEF Free
<1>2. CASE j \in [kind: {"plan", "last"}, p: Phases]
  BY <1>2 DEF Free
<1>3. CASE j \in [kind: {"exec", "report"}, p: Phases, todo: SUBSET (1..MaxPlans)]
  BY <1>3 DEF Free
<1>4. CASE j \in [kind: {"write"}, p: Phases, todo: SUBSET (1..MaxPlans), text: Text]
  BY <1>4 DEF Free
<1>5. CASE j \in [kind: {"lastwrite"}, p: Phases, text: Text]
  BY <1>5 DEF Free
<1> QED
  BY <1>1, <1>2, <1>3, <1>4, <1>5 DEF Job

\* The type invariant, by its parts.
LEMMA TypeFacts ==
  ASSUME TypeOK
  PROVE  /\ files \in [Phases -> FileRec] /\ agent \in [Slots -> Job]
         /\ project \in Projects
         /\ tick \in SUBSET Phases /\ active \in SUBSET Phases /\ deaths \in 0..MaxDeaths
         /\ \A p \in Phases : /\ files[p].sums \subseteq 1..files[p].plans
                              /\ files[p].plans > 0 => files[p].dir
                              /\ files[p].plans \in Nat
BY DEF TypeOK, FileRec, Text

-----------------------------------------------------------------------------
(* What any step keeps. *)

\* Files are only added.
Grows ==
  \A p \in Phases : /\ files[p].plans <= files'[p].plans
                    /\ files[p].sums \subseteq files'[p].sums
                    /\ files[p].dir => files'[p].dir

\* Every step adds files only, and leaves the shipped phases as they are.
Kept == Grows /\ Shipped' = Shipped

\* The agents that a step does not touch, or stops, keep their invariant when
\* files are only added and the shipped phases stay as they are.
LEMMA StepKeeps ==
  ASSUME ManagerInv, TypeOK', project' = project, Grows, Shipped' = Shipped,
         \A p \in Shipped : files'[p].plans = 0,
         \A s \in Slots : \/ agent'[s] = agent[s] \/ agent'[s].kind = "none"
                          \/ AtWork(agent'[s], files') /\ Apart(agent'[s], files', Shipped)
  PROVE  ManagerInv' /\ Kept
<1>2. ASSUME NEW s \in Slots, agent'[s] = agent[s], agent[s].kind # "none"
      PROVE  AtWork(agent[s], files') /\ Apart(agent[s], files', Shipped)
  <2> DEFINE j == agent[s]
  <2>1. /\ AtWork(j, files) /\ Apart(j, files, Shipped)
        /\ j.p \in Phases
        /\ j.kind \in {"write", "lastwrite"} => j.text \in SUBSET Phases
    BY <1>2, TypeFacts, JobFields DEF ManagerInv, Agents, Text
  <2>2. files[j.p].plans \in Nat /\ files'[j.p].plans \in Nat
        /\ files[j.p].plans <= files'[j.p].plans
        /\ files[j.p].sums \subseteq files'[j.p].sums /\ (files[j.p].dir => files'[j.p].dir)
    BY <2>1, <1>2, TypeFacts, JobFields DEF Grows, ManagerInv, TypeOK, FileRec
  <2>3. AtWork(j, files')
    <3>1. 1..files[j.p].plans \subseteq 1..files'[j.p].plans
      BY <2>2
    <3> HIDE DEF j
    <3> QED
      BY <2>1, <2>2, <3>1 DEF AtWork
  <2>4. ASSUME j.kind \in {"write", "lastwrite"} PROVE Unexecuted(j.text, files') = Shipped
    <3>1. Unexecuted(j.text, files) = Shipped /\ j.text \in SUBSET Phases
      BY <2>1, <2>4 DEF Apart
    <3> DEFINE text == j.text
    <3> HIDE DEF text
    <3>2. \A q \in text : files'[q].sums = {} <=> files[q].sums = {}
      <4>1. \A q \in Phases : files[q].sums \subseteq files'[q].sums
        BY DEF Grows
      <4>2. \A q \in text : files[q].sums = {} => q \in Shipped
        BY <3>1 DEF Unexecuted, text
      <4>3. \A q \in text : files[q].sums = {} => files'[q].sums \subseteq 1..0
        BY <4>2, <3>1 DEF TypeOK, text
      <4>4. 1..0 = {}
        OBVIOUS
      <4>5. text \subseteq Phases
        BY <3>1 DEF text
      <4>6. \A q \in text : files[q].sums = {} => files'[q].sums = {}
        BY <4>3, <4>4, Zenon
      <4>7. \A q \in text : files'[q].sums = {} => files[q].sums = {}
        BY <4>1, <4>5
      <4> QED
        BY <4>6, <4>7, Zenon
    <3> QED
      BY <3>1, <3>2 DEF Unexecuted, text
  <2> QED
    BY <2>1, <2>3, <2>4 DEF Apart
<1>3. Agents'
  BY <1>2 DEF Agents
<1>4. (\A p \in Shipped : files[p].plans = 0)'
  OBVIOUS
<1> QED
  BY <1>3, <1>4 DEF ManagerInv, Kept

\* A step that only changes what one agent does, and perhaps ROADMAP.md.
LEMMA AgentStep ==
  ASSUME ManagerInv, NEW s \in Slots, NEW j \in Job,
         agent' = [agent EXCEPT ![s] = j], UNCHANGED <<project, files, active>>,
         tick' \in Text, deaths' \in 0..MaxDeaths, Shipped' = Shipped,
         j.kind # "none" => AtWork(j, files) /\ Apart(j, files, Shipped)
  PROVE  ManagerInv' /\ Kept
<1>1. agent \in [Slots -> Job]
  BY TypeFacts DEF ManagerInv
<1>2. TypeOK'
  BY <1>1 DEF ManagerInv, TypeOK
<1>3. Grows
  BY TypeFacts DEF ManagerInv, Grows
<1>4. \A t \in Slots : agent'[t] = IF t = s THEN j ELSE agent[t]
  BY <1>1
<1>5. \A p \in Shipped : files'[p].plans = 0
  BY DEF ManagerInv
<1>6. \A t \in Slots : \/ agent'[t] = agent[t] \/ agent'[t].kind = "none"
                       \/ AtWork(agent'[t], files') /\ Apart(agent'[t], files', Shipped)
  BY <1>4
<1> QED
  BY <1>2, <1>3, <1>5, <1>6, StepKeeps

\* A step that adds files to a phase that is not one of the shipped ones.
LEMMA FileStep ==
  ASSUME ManagerInv, NEW p \in Phases, NEW f \in FileRec, Touch(p, f),
         UNCHANGED <<project, tick, deaths>>,
         p \notin Shipped, f.sums \subseteq 1..f.plans, f.plans > 0 => f.dir,
         files[p].plans <= f.plans, files[p].sums \subseteq f.sums, files[p].dir => f.dir,
         agent' \in [Slots -> Job],
         \A s \in Slots :
           \/ agent'[s] = agent[s]
           \/ AtWork(agent'[s], files') /\ Apart(agent'[s], files', Shipped)
  PROVE  ManagerInv' /\ Kept
<1>1. files \in [Phases -> FileRec] /\ files' = [files EXCEPT ![p] = f]
      /\ active' = active \cup {p}
  BY TypeFacts DEF ManagerInv, Touch
<1>2. /\ files' \in [Phases -> FileRec]
      /\ \A q \in Phases : files'[q] = IF q = p THEN f ELSE files[q]
  BY <1>1
<1>3. TypeOK'
  <2>1. (project \in Projects /\ tick \in Text /\ active \in Text
           /\ deaths \in 0..MaxDeaths)'
    BY <1>1 DEF ManagerInv, TypeOK, Text
  <2>2. \A q \in Phases : files'[q].sums \subseteq 1..files'[q].plans
                            /\ (files'[q].plans > 0 => files'[q].dir)
    BY <1>2, TypeFacts DEF ManagerInv
  <2> QED
    BY <1>2, <2>1, <2>2 DEF TypeOK, FileRec
<1>4. Grows
  BY <1>2, TypeFacts DEF ManagerInv, Grows
<1>5. \A q \in Shipped : q \in Phases /\ q # p
  BY TypeFacts DEF Shipped, Unexecuted, ManagerInv
<1>6. \A q \in Shipped : files'[q].plans = 0
  BY <1>2, <1>5 DEF ManagerInv
<1>7. Shipped' = Shipped
  <2>1. tick' = tick /\ tick \in SUBSET Phases
    BY TypeFacts DEF ManagerInv
  <2>2. ASSUME NEW q \in tick PROVE files'[q].sums = {} <=> files[q].sums = {}
    <3>1. CASE q = p
      <4>1. files[p].sums # {}
        BY <2>2, <3>1 DEF Shipped, Unexecuted
      <4>2. files'[p].sums # {}
        BY <4>1, <1>2
      <4> QED
        BY <4>1, <4>2, <3>1, Zenon
    <3>2. CASE q # p
      <4>1. files'[q] = files[q]
        BY <1>2, <2>1, <3>2
      <4> QED
        BY <4>1, Zenon
    <3> QED
      BY <3>1, <3>2
  <2>3. {q \in tick : files'[q].sums = {}} = {q \in tick : files[q].sums = {}}
    BY <2>2, Zenon
  <2> QED
    BY <2>1, <2>3 DEF Shipped, Unexecuted
<1> QED
  BY <1>3, <1>4, <1>6, <1>7, StepKeeps

-----------------------------------------------------------------------------
(* What the dashboard infers. *)

Verdicts == {"complete", "no_directory", "partial", "planned", "researched",
             "discussed", "empty"}

\* What a status says about the files and the box.
LEMMA StatusFacts ==
  ASSUME TypeOK, NEW p \in Phases
  PROVE  /\ DiskStatus(p) \in Verdicts
         /\ DiskStatus(p) = "complete" <=>
              p \in tick \/ (files[p].plans > 0 /\ PlanIndex(p) = {})
         /\ DiskStatus(p) = "partial" <=>
              p \notin tick /\ PlanIndex(p) # {} /\ files[p].sums # {}
         /\ DiskStatus(p) = "planned" <=>
              p \notin tick /\ files[p].plans > 0 /\ files[p].sums = {}
         /\ DiskStatus(p) \in {"researched", "discussed"} =>
              p \notin tick /\ files[p].dir /\ files[p].plans = 0
<1> DEFINE f == files[p]
           n == Cardinality(f.sums)
           left == (1..f.plans) \ f.sums
<1>1. f.plans \in Nat /\ f.sums \subseteq 1..f.plans /\ (f.plans > 0 => f.dir)
  BY TypeFacts
<1>2. n \in Nat /\ (n > 0 <=> f.sums # {}) /\ (n >= f.plans <=> left = {})
  BY <1>1, CountSums
<1>3. f.plans = 0 => f.sums = {} /\ left = {}
  BY <1>1
<1>4. DiskStatus(p) =
        IF p \in tick THEN "complete"
        ELSE IF ~f.dir THEN "no_directory"
        ELSE IF n >= f.plans /\ f.plans > 0 THEN "complete"
        ELSE IF n > 0 THEN "partial"
        ELSE IF f.plans > 0 THEN "planned"
        ELSE IF f.research THEN "researched"
        ELSE IF f.context THEN "discussed"
        ELSE "empty"
  BY DEF DiskStatus
<1>5. PlanIndex(p) = left
  BY DEF PlanIndex
<1>6. /\ DiskStatus(p) \in Verdicts
      /\ DiskStatus(p) = "complete" <=> p \in tick \/ (f.dir /\ n >= f.plans /\ f.plans > 0)
      /\ DiskStatus(p) = "partial" <=> p \notin tick /\ f.dir /\ ~(n >= f.plans /\ f.plans > 0) /\ n > 0
      /\ DiskStatus(p) = "planned" <=> p \notin tick /\ f.dir /\ ~(n >= f.plans /\ f.plans > 0)
                                         /\ ~(n > 0) /\ f.plans > 0
      /\ DiskStatus(p) \in {"researched", "discussed"} => p \notin tick /\ f.dir /\ ~(f.plans > 0)
  <2> HIDE DEF n, f
  <2> QED
    BY <1>4 DEF Verdicts
<1>7. n > 0 => f.plans > 0
  BY <1>1, <1>2, <1>3
<1>8. f.plans > 0 /\ n >= f.plans => n > 0
  BY <1>1, <1>2
<1>9. ~(f.plans > 0) => f.plans = 0
  BY <1>1
<1> HIDE DEF n, f, left
<1>10. DiskStatus(p) = "complete" <=> p \in tick \/ (f.plans > 0 /\ left = {})
  BY <1>1, <1>2, <1>6
<1>11. DiskStatus(p) = "partial" <=> p \notin tick /\ left # {} /\ f.sums # {}
  <2>1. ASSUME left # {} PROVE ~(n >= f.plans)
    BY <2>1, <1>2, Zenon
  <2>2. ASSUME f.plans > 0, ~(n >= f.plans /\ f.plans > 0) PROVE left # {}
    BY <2>2, <1>2, Zenon
  <2> QED
    BY <2>1, <2>2, <1>1, <1>2, <1>6, <1>7, Zenon
<1>12. DiskStatus(p) = "planned" <=> p \notin tick /\ f.plans > 0 /\ f.sums = {}
  BY <1>1, <1>2, <1>6, <1>8, Zenon
<1> QED
  BY <1>5, <1>6, <1>9, <1>10, <1>11, <1>12, Zenon DEF f

\* What is recommended says about the phase.
LEMMA RecommendedFacts ==
  ASSUME TypeOK, NEW p
  PROVE  /\ <<"discuss", p>> \in filteredActions =>
              p \in Phases /\ DiskStatus(p) \in {"empty", "no_directory"}
         /\ <<"plan", p>> \in filteredActions =>
              p \in Phases /\ DiskStatus(p) \in {"discussed", "researched"}
         /\ <<"execute", p>> \in filteredActions =>
              p \in Phases /\ DiskStatus(p) = "planned"
BY DEF filteredActions, recommendedActions, is_next_to_discuss, Undiscussed

\* A phase whose box is not ticked, or that has plans, is not a shipped one.
LEMMA NotShipped ==
  ASSUME ManagerInv, NEW p \in Phases, p \notin tick \/ files[p].plans # 0
  PROVE  p \notin Shipped
BY DEF ManagerInv, Shipped, Unexecuted

-----------------------------------------------------------------------------
(* The actions. *)

LEMMA DiscussKeeps ==
  ASSUME ManagerInv, NEW p \in Phases, Discuss(p)
  PROVE  ManagerInv' /\ Kept
<1> DEFINE f == [files[p] EXCEPT !.dir = TRUE, !.context = TRUE]
<1>0. TypeOK
  BY DEF ManagerInv
<1>1. files[p] \in FileRec /\ files[p].plans \in Nat /\ files[p].sums \subseteq 1..files[p].plans
      /\ agent \in [Slots -> Job]
  BY <1>0, TypeFacts
<1>2. f \in FileRec /\ f.plans = files[p].plans /\ f.sums = files[p].sums /\ f.dir
  BY <1>1 DEF FileRec
<1>3. p \notin Shipped
  <2>1. DiskStatus(p) \in {"empty", "no_directory"}
    BY <1>0, RecommendedFacts DEF Discuss
  <2>2. p \notin tick
    BY <2>1, <1>0, StatusFacts
  <2> QED
    BY <2>2, NotShipped
<1>4. Touch(p, f) /\ UNCHANGED <<project, tick, deaths>> /\ agent' = agent
  BY DEF Discuss
<1> HIDE DEF f
<1> QED
  BY <1>1, <1>2, <1>3, <1>4, FileStep

LEMMA StartPlannerKeeps ==
  ASSUME ManagerInv, NEW s \in Slots, NEW p \in Phases, StartPlanner(s, p)
  PROVE  ManagerInv' /\ Kept
<1> DEFINE j == [kind |-> "plan", p |-> p]
<1>0. TypeOK
  BY DEF ManagerInv
<1>1. DiskStatus(p) \in {"discussed", "researched"}
  BY <1>0, RecommendedFacts DEF StartPlanner
<1>2. p \notin tick /\ files[p].dir
  BY <1>0, <1>1, StatusFacts
<1>3. p \notin Shipped
  BY <1>2, NotShipped
<1>4. j \in Job
  BY DEF Job
<1>5. AtWork(j, files) /\ Apart(j, files, Shipped)
  BY <1>2, <1>3 DEF AtWork, Apart
<1>6. agent' = [agent EXCEPT ![s] = j] /\ UNCHANGED <<project, files, tick, active, deaths>>
  BY DEF StartPlanner
<1>7. Shipped' = Shipped /\ tick' \in Text /\ deaths' \in 0..MaxDeaths
  BY <1>0, <1>6 DEF Shipped, Unexecuted, TypeOK
<1> HIDE DEF j
<1> QED
  BY <1>4, <1>5, <1>6, <1>7, AgentStep

\* An executor starts on a phase with a plan left to do.
LEMMA ExecutorKeeps ==
  ASSUME ManagerInv, NEW s \in Slots, NEW p \in Phases, PlanIndex(p) # {},
         agent' = [agent EXCEPT ![s] = Executor(p)],
         UNCHANGED <<project, files, tick, active, deaths>>
  PROVE  ManagerInv' /\ Kept
<1> DEFINE j == [kind |-> "exec", p |-> p, todo |-> PlanIndex(p)]
<1>0. TypeOK
  BY DEF ManagerInv
<1>1. files[p].plans \in 0..MaxPlans
  BY <1>0, TypeFacts DEF FileRec
<1>2. files[p].plans # 0
  <2>1. files[p].plans = 0 => (1..files[p].plans) \ files[p].sums = {}
    BY <1>1
  <2> QED
    BY <2>1 DEF PlanIndex
<1>3. p \notin Shipped
  BY <1>2, NotShipped
<1>4. PlanIndex(p) \subseteq 1..files[p].plans /\ PlanIndex(p) \in SUBSET (1..MaxPlans)
  BY <1>1 DEF PlanIndex
<1>5. Executor(p) = j /\ j \in Job
  BY <1>4 DEF Executor, Job
<1>6. AtWork(j, files) /\ Apart(j, files, Shipped)
  BY <1>3, <1>4 DEF AtWork, Apart
<1>7. Shipped' = Shipped /\ tick' \in Text /\ deaths' \in 0..MaxDeaths
  BY <1>0 DEF Shipped, Unexecuted, TypeOK
<1> HIDE DEF j
<1> QED
  BY <1>5, <1>6, <1>7, AgentStep

LEMMA StartExecutorKeeps ==
  ASSUME ManagerInv, NEW s \in Slots, NEW p \in Phases, StartExecutor(s, p)
  PROVE  ManagerInv' /\ Kept
<1>0. TypeOK
  BY DEF ManagerInv
<1>1. DiskStatus(p) = "planned"
  BY <1>0, RecommendedFacts DEF StartExecutor
<1>2. files[p].plans > 0 /\ files[p].sums = {} /\ files[p].plans \in Nat
  BY <1>0, <1>1, StatusFacts, TypeFacts
<1>3. 1 \in PlanIndex(p)
  BY <1>2 DEF PlanIndex
<1>4. PlanIndex(p) # {}
  BY <1>3
<1> QED
  BY <1>4, ExecutorKeeps DEF StartExecutor

LEMMA ResumeKeeps ==
  ASSUME ManagerInv, NEW s \in Slots, NEW p \in Phases, Resume(s, p)
  PROVE  ManagerInv' /\ Kept
BY ExecutorKeeps DEF Resume

\* What is known of an agent at work.
LEMMA AgentFacts ==
  ASSUME ManagerInv, NEW s \in Slots, agent[s].kind # "none"
  PROVE  LET j == agent[s] IN
         /\ TypeOK /\ j.p \in Phases /\ j.p \notin Shipped
         /\ AtWork(j, files)
         /\ files[j.p] \in FileRec /\ files[j.p].plans \in Nat
         /\ files[j.p].sums \subseteq 1..files[j.p].plans
         /\ files[j.p].plans > 0 => files[j.p].dir
         /\ j.kind \in {"exec", "report", "write"} => j.todo \in SUBSET (1..MaxPlans)
         /\ j.kind \in {"write", "lastwrite"} =>
              j.text \in Text /\ Unexecuted(j.text, files) = Shipped
<1>1. TypeOK /\ agent[s] \in Job /\ AtWork(agent[s], files) /\ Apart(agent[s], files, Shipped)
  BY TypeFacts DEF ManagerInv, Agents
<1>2. agent[s].p \in Phases
  BY <1>1, JobFields
<1> QED
  BY <1>1, <1>2, JobFields, TypeFacts DEF Apart

LEMMA ResearchKeeps ==
  ASSUME ManagerInv, NEW s \in Slots, Research(s)
  PROVE  ManagerInv' /\ Kept
<1> DEFINE p == agent[s].p
           f == [files[p] EXCEPT !.research = TRUE]
<1>1. /\ p \in Phases /\ p \notin Shipped /\ files[p] \in FileRec /\ files[p].plans \in Nat
      /\ files[p].sums \subseteq 1..files[p].plans /\ (files[p].plans > 0 => files[p].dir)
      /\ agent \in [Slots -> Job]
  BY AgentFacts, TypeFacts DEF Research, ManagerInv
<1>2. f \in FileRec /\ f.plans = files[p].plans /\ f.sums = files[p].sums /\ f.dir = files[p].dir
  BY <1>1 DEF FileRec
<1>3. Touch(p, f) /\ UNCHANGED <<project, tick, deaths>> /\ agent' = agent
  BY DEF Research
<1> HIDE DEF f, p
<1> QED
  BY <1>1, <1>2, <1>3, FileStep

LEMMA WritePlanKeeps ==
  ASSUME ManagerInv, NEW s \in Slots, WritePlan(s)
  PROVE  ManagerInv' /\ Kept
<1> DEFINE p == agent[s].p
           f == [files[p] EXCEPT !.plans = @ + 1]
<1>1. /\ p \in Phases /\ p \notin Shipped /\ files[p] \in FileRec /\ files[p].plans \in Nat
      /\ files[p].sums \subseteq 1..files[p].plans /\ (files[p].plans > 0 => files[p].dir)
      /\ agent \in [Slots -> Job] /\ files[p].dir
  BY AgentFacts, TypeFacts DEF WritePlan, ManagerInv, AtWork
<1>2. /\ f \in FileRec /\ f.plans = files[p].plans + 1 /\ f.sums = files[p].sums
      /\ f.dir = files[p].dir
  <2>1. files[p].plans + 1 \in 0..MaxPlans
    BY <1>1 DEF WritePlan
  <2> QED
    BY <1>1, <2>1 DEF FileRec
<1>3. Touch(p, f) /\ UNCHANGED <<project, tick, deaths>> /\ agent' = agent
  BY DEF WritePlan
<1>4. f.sums \subseteq 1..f.plans /\ files[p].plans <= f.plans
  BY <1>1, <1>2
<1> HIDE DEF f, p
<1> QED
  BY <1>1, <1>2, <1>3, <1>4, FileStep

LEMMA WriteSummaryKeeps ==
  ASSUME ManagerInv, NEW s \in Slots, WriteSummary(s)
  PROVE  ManagerInv' /\ Kept
<1>1. PICK i \in agent[s].todo :
        /\ Touch(agent[s].p, [files[agent[s].p] EXCEPT !.sums = @ \cup {i}])
        /\ agent' = [agent EXCEPT ![s] =
                       [kind |-> "report", p |-> agent[s].p, todo |-> agent[s].todo \ {i}]]
  BY DEF WriteSummary
<1> DEFINE p == agent[s].p
           f == [files[p] EXCEPT !.sums = @ \cup {i}]
           j == [kind |-> "report", p |-> p, todo |-> agent[s].todo \ {i}]
<1>2. /\ p \in Phases /\ p \notin Shipped /\ files[p] \in FileRec /\ files[p].plans \in 0..MaxPlans
      /\ files[p].sums \subseteq 1..files[p].plans /\ (files[p].plans > 0 => files[p].dir)
      /\ agent \in [Slots -> Job]
      /\ agent[s].todo \in SUBSET (1..files[p].plans)
  BY AgentFacts, TypeFacts DEF WriteSummary, ManagerInv, AtWork, FileRec
<1>3. i \in 1..files[p].plans /\ i \in 1..MaxPlans
  BY <1>1, <1>2
<1>4. /\ f \in FileRec /\ f.plans = files[p].plans /\ f.sums = files[p].sums \cup {i}
      /\ f.dir = files[p].dir
  BY <1>2, <1>3 DEF FileRec
<1>5. Touch(p, f) /\ UNCHANGED <<project, tick, deaths>> /\ agent' = [agent EXCEPT ![s] = j]
  BY <1>1 DEF WriteSummary
<1>6. files \in [Phases -> FileRec] /\ files' = [files EXCEPT ![p] = f]
  BY <1>5, TypeFacts DEF Touch, ManagerInv
<1>7. files'[p] = f
  BY <1>2, <1>6
<1>8. j \in Job
  BY <1>2 DEF Job
<1>9. AtWork(j, files') /\ Apart(j, files', Shipped)
  <2>1. agent[s].todo \ {i} \subseteq 1..f.plans /\ i \in f.sums
    BY <1>2, <1>4
  <2> HIDE DEF f, p
  <2> QED
    BY <1>2, <1>7, <2>1 DEF AtWork, Apart
<1>10. agent' \in [Slots -> Job] /\ \A t \in Slots : t # s => agent'[t] = agent[t]
  BY <1>2, <1>5, <1>8
<1>11. agent'[s] = j
  BY <1>2, <1>5
<1> HIDE DEF f, p, j
<1>12. files[p].plans <= f.plans
  BY <1>2, <1>4
<1> QED
  BY <1>2, <1>3, <1>4, <1>5, <1>9, <1>10, <1>11, <1>12, FileStep

\* An agent stops: it ends, or dies.
LEMMA StopKeeps ==
  ASSUME ManagerInv, NEW s \in Slots, agent' = [agent EXCEPT ![s] = Free],
         UNCHANGED <<project, files, active>>, tick' \in Text, Shipped' = Shipped,
         deaths' \in 0..MaxDeaths
  PROVE  ManagerInv' /\ Kept
<1>1. Free \in Job /\ Free.kind = "none"
  BY DEF Free, Job
<1> QED
  BY <1>1, AgentStep

LEMMA PlannerEndsKeeps ==
  ASSUME ManagerInv, NEW s \in Slots, PlannerEnds(s)
  PROVE  ManagerInv' /\ Kept
<1>1. agent' = [agent EXCEPT ![s] = Free] /\ UNCHANGED <<project, files, tick, active, deaths>>
  BY DEF PlannerEnds
<1>2. Shipped' = Shipped /\ tick' \in Text /\ deaths' \in 0..MaxDeaths
  BY <1>1 DEF Shipped, Unexecuted, ManagerInv, TypeOK
<1> QED
  BY <1>1, <1>2, StopKeeps

LEMMA DieKeeps ==
  ASSUME ManagerInv, NEW s \in Slots, Die(s)
  PROVE  ManagerInv' /\ Kept
<1>1. agent' = [agent EXCEPT ![s] = Free] /\ UNCHANGED <<project, files, tick, active>>
      /\ deaths' = deaths + 1 /\ deaths < MaxDeaths
  BY DEF Die
<1>2. Shipped' = Shipped /\ tick' \in Text /\ deaths' \in 0..MaxDeaths
  BY <1>1 DEF Shipped, Unexecuted, ManagerInv, TypeOK
<1> QED
  BY <1>1, <1>2, StopKeeps

LEMMA CompleteWriteKeeps ==
  ASSUME ManagerInv, NEW s \in Slots, CompleteWrite(s)
  PROVE  ManagerInv' /\ Kept
<1>1. agent' = [agent EXCEPT ![s] = Free] /\ UNCHANGED <<project, files, active, deaths>>
      /\ tick' = agent[s].text /\ agent[s].kind = "lastwrite"
  BY DEF CompleteWrite
<1>2. agent[s].text \in Text /\ Unexecuted(agent[s].text, files) = Shipped
  BY <1>1, AgentFacts
<1>3. Shipped' = Shipped /\ tick' \in Text /\ deaths' \in 0..MaxDeaths
  BY <1>1, <1>2 DEF Shipped, Unexecuted, ManagerInv, TypeOK
<1> QED
  BY <1>1, <1>3, StopKeeps

LEMMA ReadRoadmapKeeps ==
  ASSUME ManagerInv, NEW s \in Slots, ReadRoadmap(s)
  PROVE  ManagerInv' /\ Kept
<1> DEFINE p == agent[s].p
           text == IF Cardinality(files[p].sums) >= files[p].plans THEN tick \cup {p} ELSE tick
           j == [kind |-> "write", p |-> p, todo |-> agent[s].todo, text |-> text]
<1>1. agent' = [agent EXCEPT ![s] = j] /\ UNCHANGED <<project, files, tick, active, deaths>>
  BY DEF ReadRoadmap
<1>2. /\ p \in Phases /\ p \notin Shipped /\ AtWork(agent[s], files)
      /\ agent[s].kind = "report" /\ agent[s].todo \in SUBSET (1..MaxPlans)
  BY AgentFacts DEF ReadRoadmap
<1>3. tick \in SUBSET Phases /\ deaths \in 0..MaxDeaths
  BY TypeFacts DEF ManagerInv
<1>4. files[p].sums # {} /\ agent[s].todo \subseteq 1..files[p].plans
  BY <1>2 DEF AtWork
<1>5. text \in Text /\ (text = tick \/ text = tick \cup {p})
  BY <1>2, <1>3 DEF Text
<1> HIDE DEF text
<1>6. Unexecuted(text, files) = Shipped
  BY <1>4, <1>5 DEF Unexecuted, Shipped
<1>7. j \in Job
  BY <1>2, <1>5 DEF Job
<1>8. AtWork(j, files) /\ Apart(j, files, Shipped)
  <2> HIDE DEF p
  <2> QED
    BY <1>2, <1>4, <1>6 DEF AtWork, Apart
<1>9. Shipped' = Shipped /\ tick' \in Text
  BY <1>1, <1>3 DEF Shipped, Unexecuted, Text
<1> HIDE DEF j
<1> QED
  BY <1>1, <1>3, <1>7, <1>8, <1>9, AgentStep

LEMMA WriteRoadmapKeeps ==
  ASSUME ManagerInv, NEW s \in Slots, WriteRoadmap(s)
  PROVE  ManagerInv' /\ Kept
<1> DEFINE p == agent[s].p
           todo == agent[s].todo
           j == IF todo = {} THEN [kind |-> "last", p |-> p]
                ELSE [kind |-> "exec", p |-> p, todo |-> todo]
<1>1. agent' = [agent EXCEPT ![s] = j] /\ UNCHANGED <<project, files, active, deaths>>
      /\ tick' = agent[s].text /\ agent[s].kind = "write"
  BY DEF WriteRoadmap
<1>2. /\ p \in Phases /\ p \notin Shipped /\ AtWork(agent[s], files)
      /\ todo \in SUBSET (1..MaxPlans)
      /\ agent[s].text \in Text /\ Unexecuted(agent[s].text, files) = Shipped
  BY <1>1, AgentFacts
<1>3. files[p].sums # {} /\ todo \subseteq 1..files[p].plans
  BY <1>1, <1>2 DEF AtWork
<1> HIDE DEF p, todo
<1>4. j \in Job /\ AtWork(j, files) /\ Apart(j, files, Shipped)
  <2>1. CASE todo = {}
    <3>1. j = [kind |-> "last", p |-> p]
      BY <2>1
    <3> HIDE DEF j
    <3> QED
      BY <1>2, <1>3, <3>1 DEF Job, AtWork, Apart
  <2>2. CASE todo # {}
    <3>1. j = [kind |-> "exec", p |-> p, todo |-> todo]
      BY <2>2
    <3> HIDE DEF j
    <3> QED
      BY <1>2, <1>3, <3>1 DEF Job, AtWork, Apart
  <2> QED
    BY <2>1, <2>2
<1>5. Shipped' = Shipped /\ tick' \in Text /\ deaths' \in 0..MaxDeaths
  BY <1>1, <1>2 DEF Shipped, Unexecuted, ManagerInv, TypeOK
<1> HIDE DEF j
<1> QED
  BY <1>1, <1>4, <1>5, AgentStep

LEMMA CompleteReadKeeps ==
  ASSUME ManagerInv, NEW s \in Slots, CompleteRead(s)
  PROVE  ManagerInv' /\ Kept
<1> DEFINE p == agent[s].p
           text == tick \cup {p}
           j == [kind |-> "lastwrite", p |-> p, text |-> text]
<1>1. agent' = [agent EXCEPT ![s] = j] /\ UNCHANGED <<project, files, tick, active, deaths>>
      /\ agent[s].kind = "last"
  BY DEF CompleteRead
<1>2. /\ p \in Phases /\ p \notin Shipped /\ AtWork(agent[s], files)
  BY <1>1, AgentFacts
<1>3. tick \in SUBSET Phases /\ deaths \in 0..MaxDeaths
  BY TypeFacts DEF ManagerInv
<1>4. files[p].sums # {}
  BY <1>1, <1>2 DEF AtWork
<1>5. text \in Text /\ Unexecuted(text, files) = Shipped
  BY <1>2, <1>3, <1>4 DEF Unexecuted, Shipped, Text
<1>6. j \in Job
  BY <1>2, <1>5 DEF Job
<1>7. AtWork(j, files) /\ Apart(j, files, Shipped)
  <2> HIDE DEF p, text
  <2> QED
    BY <1>2, <1>4, <1>5 DEF AtWork, Apart
<1>8. Shipped' = Shipped /\ tick' \in Text
  BY <1>1, <1>3 DEF Shipped, Unexecuted, Text
<1> HIDE DEF j
<1> QED
  BY <1>1, <1>3, <1>6, <1>7, <1>8, AgentStep

\* The age of the files is no part of the invariant.
LEMMA AgeKeeps ==
  ASSUME ManagerInv, active' \in Text, UNCHANGED <<project, files, tick, agent, deaths>>
  PROVE  ManagerInv' /\ Kept
<1>1. TypeOK'
  BY DEF ManagerInv, TypeOK
<1>2. Grows
  BY TypeFacts DEF ManagerInv, Grows
<1>3. Shipped' = Shipped
  BY DEF Shipped, Unexecuted
<1> QED
  BY <1>1, <1>2, <1>3, StepKeeps DEF ManagerInv

LEMMA QuietKeeps ==
  ASSUME ManagerInv, NEW p \in Phases, Quiet(p)
  PROVE  ManagerInv' /\ Kept
BY AgeKeeps, TypeFacts DEF Quiet, ManagerInv, Text

LEMMA InitEstablishes ==
  ASSUME Init
  PROVE  ManagerInv
<1>1. TypeOK
  <2>1. Free \in Job
    BY DEF Job
  <2>2. files \in [Phases -> FileRec] /\ \A p \in Phases : files[p].plans = 0 /\ files[p].sums = {}
    <3>1. 0 \in 0..MaxPlans /\ {} \in SUBSET (1..MaxPlans)
      OBVIOUS
    <3>2. files \in [Phases -> [dir: BOOLEAN, context: {FALSE}, research: {FALSE},
                                plans: {0}, sums: {{}}]]
      BY DEF Init
    <3>3. [dir: BOOLEAN, context: {FALSE}, research: {FALSE}, plans: {0}, sums: {{}}]
            \subseteq FileRec
      BY <3>1 DEF FileRec
    <3> QED
      BY <3>2, <3>3
  <2>3. agent \in [Slots -> Job] /\ deaths \in 0..MaxDeaths
    BY <2>1 DEF Init
  <2>4. project \in Projects /\ tick \in Text /\ active \in Text
    BY DEF Init, Text
  <2>5. \A p \in Phases : files[p].sums \subseteq 1..files[p].plans
                            /\ (files[p].plans > 0 => files[p].dir)
    BY <2>2
  <2> QED
    BY <2>2, <2>3, <2>4, <2>5 DEF TypeOK, FileRec
<1>2. \A s \in Slots : agent[s].kind = "none"
  BY DEF Init, Free
<1> QED
  BY <1>1, <1>2 DEF Init, ManagerInv, Agents, Shipped, Unexecuted, Text

LEMMA NextKeeps ==
  ASSUME ManagerInv, [Next]_vars
  PROVE  ManagerInv' /\ Kept
<1>1. CASE Dispatch
  BY <1>1, DiscussKeeps, StartPlannerKeeps, StartExecutorKeeps DEF Dispatch
<1>2. ASSUME NEW s \in Slots, Work(s) PROVE ManagerInv' /\ Kept
  BY <1>2, WritePlanKeeps, PlannerEndsKeeps, WriteSummaryKeeps, ReadRoadmapKeeps,
     WriteRoadmapKeeps, CompleteReadKeeps, CompleteWriteKeeps DEF Work
<1>3. ASSUME NEW s \in Slots, Research(s) \/ Die(s) \/ \E p \in Phases : Resume(s, p)
      PROVE  ManagerInv' /\ Kept
  BY <1>3, ResearchKeeps, DieKeeps, ResumeKeeps
<1>4. CASE \E p \in Phases : Quiet(p)
  BY <1>4, QuietKeeps
<1>5. CASE UNCHANGED vars
  BY <1>5, AgeKeeps, TypeFacts DEF vars, ManagerInv, Text
<1> QED
  BY <1>1, <1>2, <1>3, <1>4, <1>5 DEF Next

\* The inductive invariant.
THEOREM ManagerInvariant == Spec => []ManagerInv
<1>1. Init => ManagerInv
  BY InitEstablishes
<1>2. ManagerInv /\ [Next]_vars => ManagerInv'
  BY NextKeeps
<1> QED
  BY <1>1, <1>2, PTL DEF Spec

\* A SUMMARY is only ever of a plan there is, and files are only in a
\* directory, whatever agents run, die or are started twice.
THEOREM TypeCorrect == Spec => []TypeOK
<1>1. ManagerInv => TypeOK
  BY DEF ManagerInv
<1> QED
  BY <1>1, ManagerInvariant, PTL

-----------------------------------------------------------------------------
(* The reports. *)

\* What the percentages say.
LEMMA RoundFacts ==
  ASSUME NEW whole \in Nat, NEW part \in Nat, part <= whole
  PROVE  /\ Round(part, whole) <= 100 /\ Percent(part, whole) = Round(part, whole)
         /\ Percent(part, whole) = 100 => 200 * (whole - part) <= whole
<1>1. CASE whole = 0
  BY <1>1 DEF Round, Percent
<1>2. CASE whole # 0
  <2> DEFINE a == 200 * part + whole
             b == 2 * whole
             q == a \div b
  <2>1. a \in Nat /\ b \in Nat /\ b > 0 /\ a < 101 * b
    BY <1>2
  <2> HIDE DEF a, b
  <2>2. q \in Nat /\ q * b <= a
    BY <2>1
  <2>3. q <= 100
    <3> HIDE DEF q
    <3> SUFFICES ASSUME q >= 101 PROVE FALSE
      BY <2>2
    <3>1. q * b >= 101 * b
      BY <2>1, <2>2
    <3> QED
      BY <2>1, <2>2, <3>1
  <2>4. q = 100 => 100 * b <= a
    <3> HIDE DEF q
    <3> QED
      BY <2>2
  <2>5. Round(part, whole) = q
    BY <1>2 DEF Round, a, b
  <2> HIDE DEF q
  <2>6. Percent(part, whole) = q
    BY <2>2, <2>3, <2>5 DEF Percent
  <2>7. 100 * b <= a => 200 * (whole - part) <= whole
    BY DEF a, b
  <2> QED
    BY <2>3, <2>4, <2>5, <2>6, <2>7
<1> QED
  BY <1>1, <1>2

\* The open plans of a phase are those that are not counted.
LEMMA CountOpen ==
  ASSUME NEW T, IsFiniteSet(T), NEW S, S \subseteq T
  PROVE  /\ Cardinality(T) \in Nat /\ Cardinality(S) \in Nat /\ Cardinality(T \ S) \in Nat
         /\ Cardinality(T) = Cardinality(S) + Cardinality(T \ S)
<1>1. IsFiniteSet(S) /\ T \cap S = S
  BY FS_Subset
<1>2. IsFiniteSet(T \ S)
      /\ Cardinality(T \ S) = Cardinality(T) - Cardinality(T \cap S)
  BY FS_Difference
<1>3. Cardinality(T) \in Nat /\ Cardinality(S) \in Nat /\ Cardinality(T \ S) \in Nat
  BY <1>1, <1>2, FS_CardinalityType
<1>4. Cardinality(T \ S) = Cardinality(T) - Cardinality(S)
  BY <1>1, <1>2, Zenon
<1> QED
  BY <1>3, <1>4

LEMMA PlansAgree ==
  ASSUME TypeOK, PlanPercent = 100
  PROVE  200 * SumFunction([p \in Phases |-> Cardinality(Named(p, PlanIndex(p)))])
           <= TotalPlans
<1> DEFINE all  == [p \in Phases |-> Cardinality(Named(p, 1..files[p].plans))]
           done == [p \in Phases |-> Cardinality(Named(p, files[p].sums))]
           open == [p \in Phases |-> Cardinality(Named(p, PlanIndex(p)))]
<1>1. ASSUME NEW p \in Phases
      PROVE  done[p] \in Nat /\ open[p] \in Nat /\ all[p] = done[p] + open[p]
  <2> DEFINE T == Named(p, 1..files[p].plans)
             S == Named(p, files[p].sums)
             U == Named(p, PlanIndex(p))
  <2>1. files[p].plans \in Nat /\ files[p].sums \subseteq 1..files[p].plans
    BY TypeFacts
  <2>2. S \subseteq T /\ U = T \ S /\ T \subseteq 1..files[p].plans
    BY <2>1 DEF Named, PlanIndex
  <2>3. IsFiniteSet(T)
    <3>0. \A n \in Nat : IsFiniteSet(1..n)
      BY FS_Interval
    <3>1. IsFiniteSet(1..files[p].plans)
      BY <2>1, <3>0, Zenon
    <3> HIDE DEF T
    <3> QED
      BY <2>2, <3>1, FS_Subset, Zenon
  <2>4. all[p] = Cardinality(T) /\ done[p] = Cardinality(S) /\ open[p] = Cardinality(U)
    <3> HIDE DEF T, S, U
    <3>1. all[p] = Cardinality(Named(p, 1..files[p].plans))
      OBVIOUS
    <3>2. done[p] = Cardinality(Named(p, files[p].sums))
      OBVIOUS
    <3>3. open[p] = Cardinality(Named(p, PlanIndex(p)))
      OBVIOUS
    <3> QED
      BY <3>1, <3>2, <3>3 DEF T, S, U
  <2> HIDE DEF T, S, U, all, done, open
  <2> QED
    BY <2>2, <2>3, <2>4, CountOpen
<1>2. IsFiniteSet(Phases)
  BY FS_Interval
<1>3. done \in [Phases -> Nat] /\ open \in [Phases -> Nat]
      /\ all = [p \in Phases |-> done[p] + open[p]]
  <2>1. done = [p \in Phases |-> done[p]] /\ open = [p \in Phases |-> open[p]]
        /\ all = [p \in Phases |-> all[p]]
    OBVIOUS
  <2> HIDE DEF all, done, open
  <2>2. done \in [Phases -> Nat] /\ open \in [Phases -> Nat]
    BY <1>1, <2>1
  <2>3. \A p \in Phases : all[p] = done[p] + open[p]
    BY <1>1
  <2> QED
    BY <2>1, <2>2, <2>3
<1>4. TotalPlans = SumFunction(all) /\ TotalSummaries = SumFunction(done)
  BY DEF TotalPlans, TotalSummaries
<1> HIDE DEF all, done, open
<1>5. /\ SumFunction(done) \in Nat /\ SumFunction(open) \in Nat
      /\ SumFunction(all) = SumFunction(done) + SumFunction(open)
  BY <1>2, <1>3, SumAdd
<1>6. TotalPlans \in Nat /\ TotalSummaries \in Nat /\ TotalSummaries <= TotalPlans
      /\ TotalPlans - TotalSummaries = SumFunction(open)
  BY <1>4, <1>5
<1>7. 200 * (TotalPlans - TotalSummaries) <= TotalPlans
  BY <1>6, RoundFacts DEF PlanPercent
<1> QED
  BY <1>6, <1>7 DEF open

LEMMA PercentsAgree ==
  ASSUME TypeOK
  PROVE  PercentagesAgree
<1> DEFINE C == {p \in Phases : Stats(p) = "Complete"}
           U == {p \in Phases : DiskStatus(p) # "complete"}
<1>1. IsFiniteSet(Phases) /\ Cardinality(Phases) = N
  BY FS_Interval
<1>2. /\ Cardinality(C) \in Nat /\ Cardinality(C) <= N
      /\ IsFiniteSet(Phases \ C) /\ Cardinality(Phases \ C) = N - Cardinality(C)
  <2>1. C \subseteq Phases /\ Phases \cap C = C
    OBVIOUS
  <2> HIDE DEF C
  <2>2. IsFiniteSet(C) /\ Cardinality(C) <= Cardinality(Phases)
    BY <1>1, <2>1, FS_Subset
  <2>3. Cardinality(C) \in Nat
    BY <2>2, FS_CardinalityType
  <2>4. IsFiniteSet(Phases \ C)
        /\ Cardinality(Phases \ C) = Cardinality(Phases) - Cardinality(Phases \cap C)
    BY <1>1, FS_Difference
  <2>5. Cardinality(Phases \ C) = N - Cardinality(C)
    BY <1>1, <2>1, <2>4, Zenon
  <2> HIDE DEF Phases
  <2> QED
    BY <1>1, <2>2, <2>3, <2>4, <2>5
<1>3. ASSUME NEW p \in Phases
      PROVE  /\ Stats(p) = "Complete" => DiskStatus(p) = "complete"
             /\ Stats(p) = "Complete" <=> WorkstreamStatus(p) = "complete"
  <2> DEFINE f == files[p]
             n == Cardinality(f.sums)
  <2>1. f.plans \in Nat /\ f.sums \subseteq 1..f.plans /\ (f.plans > 0 => f.dir)
    BY TypeFacts
  <2>2. n \in Nat /\ (n >= f.plans <=> PlanIndex(p) = {})
    BY <2>1, CountSums DEF PlanIndex
  <2>3. CASE f.plans = 0
    BY <2>3 DEF Stats, ProgressRender, WorkstreamStatus
  <2>4. CASE f.plans > 0
    <3>1. DiskStatus(p) = "complete" <=> p \in tick \/ PlanIndex(p) = {}
      BY <2>4, StatusFacts
    <3>0. f.plans # 0 /\ f.dir
      BY <2>1, <2>4
    <3>2. ProgressRender(p) = IF n >= f.plans THEN "Complete"
                              ELSE IF f.sums # {} THEN "In Progress" ELSE "Planned"
      BY <3>0 DEF ProgressRender
    <3>3. WorkstreamStatus(p) = IF n >= f.plans THEN "complete" ELSE "in_progress"
      BY <3>0 DEF WorkstreamStatus
    <3> HIDE DEF n, f
    <3>4. Stats(p) = "Complete" <=> n >= f.plans
      BY <3>2 DEF Stats
    <3>5. WorkstreamStatus(p) = "complete" <=> n >= f.plans
      BY <3>3
    <3> QED
      BY <2>2, <3>1, <3>4, <3>5, Zenon
  <2> QED
    BY <2>1, <2>3, <2>4
<1>4. project.left = 0 => WorkstreamList = Cardinality(C)
  <2>1. {p \in Phases : WorkstreamStatus(p) = "complete"} = C
    BY <1>3
  <2> HIDE DEF C
  <2>2. WorkstreamList = project.left + Cardinality(C)
    BY <2>1, Zenon DEF WorkstreamList
  <2> QED
    BY <1>2, <2>2
<1>5. Cardinality(U) \in Nat /\ Cardinality(U) <= N - Cardinality(C)
  <2>1. U \subseteq Phases \ C
    BY <1>3
  <2> HIDE DEF C, U
  <2> QED
    BY <1>2, <2>1, FS_Subset, FS_CardinalityType
<1>6. StatsPercent = Percent(Cardinality(C), N)
  BY DEF StatsPercent
<1> HIDE DEF C
<1>7. /\ Percent(Cardinality(C), N) = Round(Cardinality(C), N)
      /\ Percent(Cardinality(C), N) = 100 => 200 * (N - Cardinality(C)) <= N
  BY <1>2, RoundFacts
<1>8. project.other = 0 /\ project.left = 0 /\ ~project.deep =>
        WorkstreamProgress = StatsPercent
  <2> SUFFICES ASSUME project.other = 0, project.left = 0, ~project.deep
               PROVE  WorkstreamProgress = StatsPercent
    OBVIOUS
  <2>1. (project.other + IF project.deep THEN 0 ELSE N) = N
    <3>1. (IF project.deep THEN 0 ELSE N) = N
      OBVIOUS
    <3> QED
      BY <3>1
  <2>2. Headings = N
    BY <2>1 DEF Headings
  <2> QED
    BY <1>4, <1>6, <1>7, <2>2 DEF WorkstreamProgress
<1>9. StatsPercent = 100 => 200 * Cardinality(U) <= N
  <2> HIDE DEF U
  <2> QED
    BY <1>2, <1>5, <1>6, <1>7
<1> QED
  BY <1>8, <1>9, PlansAgree DEF PercentagesAgree

LEMMA ReportsAgree ==
  ASSUME TypeOK
  PROVE  VerdictsAgree
<1>1. ASSUME NEW p \in Phases, files[p].plans > 0
      PROVE  /\ (ProgressRender(p) = "Complete") = (PlanIndex(p) = {})
             /\ (InitProgress(p) = "complete") = (PlanIndex(p) = {})
             /\ (WorkstreamStatus(p) = "complete") = (PlanIndex(p) = {})
             /\ (DiskStatus(p) = "complete") = (PlanIndex(p) = {} \/ p \in tick)
             /\ VerifyPhaseCompleteness(p) =
                  (PlanIndex(p) = {} \/ (PlanIndex(p) = {1} /\ p \in project.bare))
  <2> DEFINE f == files[p]
             n == Cardinality(f.sums)
             none == PlanIndex(p) = {}
  <2>1. f.plans \in Nat /\ f.sums \subseteq 1..f.plans /\ f.dir /\ f.plans # 0 /\ f.plans > 0
    BY <1>1, TypeFacts
  <2>2. n >= f.plans <=> none
    BY <2>1, CountSums DEF PlanIndex
  <2>3. VerifyPhaseCompleteness(p) = (none \/ (PlanIndex(p) = {1} /\ p \in project.bare))
    <3>1. VerifyPhaseCompleteness(p) <=> Named(p, PlanIndex(p)) = {}
      BY <2>1 DEF VerifyPhaseCompleteness
    <3>2. Named(p, PlanIndex(p)) = {} <=>
            none \/ (PlanIndex(p) = {1} /\ p \in project.bare)
      BY DEF Named
    <3>3. VerifyPhaseCompleteness(p) \in BOOLEAN
      BY DEF VerifyPhaseCompleteness
    <3> QED
      BY <3>1, <3>2, <3>3
  <2>4. DiskStatus(p) = "complete" <=> p \in tick \/ none
    BY <2>1, StatusFacts
  <2>5. ProgressRender(p) = IF n >= f.plans THEN "Complete"
                            ELSE IF f.sums # {} THEN "In Progress" ELSE "Planned"
    BY <2>1 DEF ProgressRender
  <2>6. InitProgress(p) = IF n >= f.plans THEN "complete" ELSE "in_progress"
    BY <2>1 DEF InitProgress
  <2>7. WorkstreamStatus(p) = IF n >= f.plans THEN "complete" ELSE "in_progress"
    BY <2>1 DEF WorkstreamStatus
  <2> HIDE DEF n, f, none
  <2>8. ProgressRender(p) = "Complete" <=> n >= f.plans
    BY <2>5
  <2>9. InitProgress(p) = "complete" <=> n >= f.plans
    BY <2>6
  <2>10. WorkstreamStatus(p) = "complete" <=> n >= f.plans
    BY <2>7
  <2>11. /\ (ProgressRender(p) = "Complete") = none
         /\ (InitProgress(p) = "complete") = none
         /\ (WorkstreamStatus(p) = "complete") = none
    BY <2>2, <2>8, <2>9, <2>10, Zenon DEF none
  <2>12. (DiskStatus(p) = "complete") = (none \/ p \in tick)
    BY <2>4, Zenon
  <2> QED
    BY <2>3, <2>11, <2>12, Zenon DEF none
<1>2. ASSUME InitMilestoneOp, NEW p \in Phases, files[p].dir
      PROVE  DiskStatus(p) \in {"complete", "partial"}
  <2>1. files[p].sums # {}
    BY <1>2 DEF InitMilestoneOp, Directories
  <2>2. files[p].plans > 0
    <3>1. files[p].plans \in Nat /\ files[p].sums \subseteq 1..files[p].plans
      BY TypeFacts
    <3>2. files[p].plans = 0 => files[p].sums = {}
      BY <3>1
    <3> QED
      BY <3>1, <3>2, <2>1
  <2>3. /\ DiskStatus(p) = "complete" <=>
              p \in tick \/ (files[p].plans > 0 /\ PlanIndex(p) = {})
        /\ DiskStatus(p) = "partial" <=>
              p \notin tick /\ PlanIndex(p) # {} /\ files[p].sums # {}
    BY StatusFacts
  <2> QED
    BY <2>1, <2>2, <2>3, Zenon
<1> QED
  BY <1>1, <1>2, PercentsAgree DEF VerdictsAgree

\* The reports that count files and those that compare names agree on every
\* phase that has plans, but for a bare PLAN.md that `verify` passes over;
\* `init milestone-op` calls no milestone complete with a directory whose
\* execution has not begun; and 100% hides one open plan or phase in 200 at
\* most, for any number of them and any layout of ROADMAP.md.
THEOREM ReportsConsistent == Spec => []VerdictsAgree
<1>1. TypeOK => VerdictsAgree
  BY ReportsAgree
<1> QED
  BY <1>1, TypeCorrect, PTL

-----------------------------------------------------------------------------
(* The recommendations. *)

LEMMA SomethingRecommended ==
  ASSUME ManagerInv, active = {}, ~AllComplete, Partial = {}, Waiting = {}
  PROVE  filteredActions # {}
<1>0. TypeOK
  BY DEF ManagerInv
<1>1. activeExecuting = {} /\ activePlanning = {}
  BY DEF activeExecuting, activePlanning, Partial
<1>2. filteredActions = recommendedActions
  BY <1>1 DEF filteredActions
<1> DEFINE Incomplete == {p \in Phases : DiskStatus(p) # "complete"}
<1>3. PICK m \in Incomplete : \A q \in Incomplete : m <= q
  <2>1. Incomplete \subseteq Nat /\ Incomplete # {}
    BY DEF AllComplete
  <2> HIDE DEF Incomplete
  <2> QED
    BY <2>1, LeastNatural
<1>4. DiskStatus(m) = "planned" => deps_satisfied(m)
  <2> SUFFICES ASSUME DiskStatus(m) = "planned", NEW q \in project.deps[m]
               PROVE  q \in Phases /\ DiskStatus(q) = "complete"
    BY DEF deps_satisfied
  <2>1. CASE q \in 1..(m - 1)
    <3>1. q \in Phases /\ ~(m <= q)
      BY <1>3, <2>1
    <3>2. q \notin Incomplete
      BY <1>3, <3>1
    <3> QED
      BY <3>1, <3>2
  <2>2. CASE q \notin 1..(m - 1)
    BY <1>3, <2>2 DEF Waiting
  <2> QED
    BY <2>1, <2>2
<1>5. DiskStatus(m) \in Verdicts \ {"complete", "partial"}
  BY <1>0, <1>3, StatusFacts DEF Partial
<1>6. CASE DiskStatus(m) = "planned"
  <2>1. <<"execute", m>> \in recommendedActions
    BY <1>4, <1>6 DEF recommendedActions
  <2> QED
    BY <1>2, <2>1
<1>7. CASE DiskStatus(m) \in {"discussed", "researched"}
  <2>1. <<"plan", m>> \in recommendedActions
    BY <1>7 DEF recommendedActions
  <2> QED
    BY <1>2, <2>1
<1>8. CASE DiskStatus(m) \in {"empty", "no_directory"}
  <2>1. Undiscussed # {} /\ Undiscussed \subseteq Nat
    BY <1>8 DEF Undiscussed
  <2>2. PICK u \in Undiscussed : \A q \in Undiscussed : u <= q
    BY <2>1, LeastNatural
  <2>3. <<"discuss", u>> \in recommendedActions
    BY <2>2 DEF recommendedActions, is_next_to_discuss, Undiscussed
  <2> QED
    BY <1>2, <2>3
<1> QED
  BY <1>5, <1>6, <1>7, <1>8 DEF Verdicts

\* The manager does not run out of recommendations before the milestone is
\* done, whatever the Depends on lines say, whichever agents died and ticks
\* were overwritten, except when it waits for a partly executed phase or for
\* one that is not an earlier phase of the milestone.
THEOREM ManagerNotStuck == Spec => []NotStuck
<1>1. ManagerInv => NotStuck
  BY SomethingRecommended DEF NotStuck
<1> QED
  BY <1>1, ManagerInvariant, PTL

\* What `complete` and `partial` say, before and after a step.
StatusSays(p) ==
  /\ DiskStatus(p) = "complete" <=> p \in tick \/ (files[p].plans > 0 /\ PlanIndex(p) = {})
  /\ DiskStatus(p) = "partial" <=> p \notin tick /\ PlanIndex(p) # {} /\ files[p].sums # {}

LEMMA StatusAfter ==
  ASSUME NEW p \in Phases
  PROVE  TypeOK' => StatusSays(p)'
<1>1. TypeOK => StatusSays(p)
  BY StatusFacts DEF StatusSays
<1> QED
  BY <1>1, PTL

LEMMA CompleteStays ==
  ASSUME ManagerInv, ManagerInv', Kept, NEW p \in Phases, DiskStatus(p) = "complete"
  PROVE  DiskStatus(p)' \in {"complete", "partial"}
<1>0. TypeOK /\ TypeOK'
  BY DEF ManagerInv
<1>1. /\ DiskStatus(p)' = "complete" <=>
           p \in tick' \/ (files'[p].plans > 0 /\ PlanIndex(p)' = {})
      /\ DiskStatus(p)' = "partial" <=>
           p \notin tick' /\ PlanIndex(p)' # {} /\ files'[p].sums # {}
  BY <1>0, StatusAfter DEF StatusSays
<1>2. CASE p \in Shipped
  <2>1. p \in tick'
    BY <1>2 DEF Kept, Shipped, Unexecuted
  <2> QED
    BY <1>1, <2>1
<1>3. CASE p \notin Shipped
  <2>1. files[p].plans \in Nat /\ files[p].sums \subseteq 1..files[p].plans
    BY <1>0, TypeFacts
  <2>2. files[p].sums # {}
    <3>1. CASE p \in tick
      BY <1>3, <3>1 DEF Shipped, Unexecuted
    <3>2. CASE files[p].plans > 0 /\ PlanIndex(p) = {}
      <4>1. 1 \in 1..files[p].plans
        BY <3>2, <2>1
      <4>2. 1 \in files[p].sums
        BY <4>1, <3>2 DEF PlanIndex
      <4> QED
        BY <4>2
    <3> QED
      BY <3>1, <3>2, <1>0, StatusFacts
  <2>3. files'[p].sums # {}
    BY <2>2 DEF Kept, Grows
  <2>4. files'[p].plans > 0
    <3>1. files'[p].plans \in Nat /\ files'[p].sums \subseteq 1..files'[p].plans
      BY <1>0 DEF TypeOK
    <3>2. files'[p].plans = 0 => files'[p].sums = {}
      BY <3>1
    <3> QED
      BY <3>1, <3>2, <2>3
  <2> QED
    BY <1>1, <2>3, <2>4, Zenon
<1> QED
  BY <1>2, <1>3

\* A complete phase stays complete or becomes a partly executed one, however
\* many executors overwrite each other's text of ROADMAP.md: the ticks that
\* can be lost are of phases whose SUMMARY files tell the same.
THEOREM CompletedWorkKept == Spec => CompletionKept
<1>1. ManagerInv /\ ManagerInv' /\ [Next]_vars =>
        [\A p \in Phases : DiskStatus(p) = "complete" =>
           DiskStatus(p)' \in {"complete", "partial"}]_vars
  BY NextKeeps, CompleteStays
<1> QED
  BY <1>1, ManagerInvariant, PTL DEF Spec, CompletionKept
=============================================================================
