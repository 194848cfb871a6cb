------------------------------ MODULE Planning ------------------------------
(***************************************************************************)
(* The shared part of .planning/: the workstreams and config.json, which   *)
(* stays at the root whatever workstream is active.  The components touch  *)
(* different files; `validate health --repair` works on both, on the       *)
(* STATE.md of the directory the active workstream resolves to and on the  *)
(* shared configuration.                                                   *)
(***************************************************************************)
EXTENDS Naturals

CONSTANTS Names, Items, MaxFiles, NoDir, None, Procs, Repos, Missing, Torn,
          MaxCommands  \* bound: commands started, of both kinds

ASSUME PlanningAssumption ==
  /\ MaxFiles \in Nat /\ MaxCommands \in Nat
  /\ Items \subseteq {"ROADMAP", "STATE", "REQUIREMENTS", "phases"}
  /\ None \notin Names

VARIABLES root, ws, wsRoot, pointer, archive, job, made, lost, killed, unrolled,
          config, repos, cpc, cbuf, first, asked, blank, left

Files == INSTANCE Workstreams
           WITH Names <- Names, Items <- Items, MaxFiles <- MaxFiles, NoDir <- NoDir, None <- None,
                root <- root, ws <- ws, wsRoot <- wsRoot, pointer <- pointer, archive <- archive,
                job <- job, made <- made, lost <- lost, killed <- killed, unrolled <- unrolled,
                left <- left
Config == INSTANCE ConfigFile
           WITH Procs <- Procs, Repos <- Repos, Missing <- Missing, Torn <- Torn, None <- None,
                config <- config, repos <- repos, cpc <- cpc, cbuf <- cbuf, first <- first,
                asked <- asked, blank <- blank, left <- left

\* The marks are no settings and no values of one.
ASSUME MarksAssumption ==
  /\ Missing \notin Config!Settings /\ Torn \notin Config!Settings /\ Missing # Torn
  /\ None \notin {"quick", "standard", "comprehensive", "coarse", "fine"}

filesVars  == <<root, ws, wsRoot, pointer, archive, job, made, lost, killed, unrolled>>
configVars == <<config, repos, cpc, cbuf, first, asked, blank>>
vars == <<filesVars, configVars, left>>

Init == Files!Init /\ Config!Init /\ left = MaxCommands

\* validate health --repair: STATE.md first, then config.json.
HealthRepair(p) == Config!RepairConfig(p) /\ Files!RegenerateState

Next ==
  \/ Files!Next /\ UNCHANGED configVars
  \/ Config!Next /\ UNCHANGED filesVars
  \/ \E p \in Procs : HealthRepair(p)

Spec == Init /\ [][Next]_vars

-----------------------------------------------------------------------------
\* Files are deleted only by a rollback that could not put them back
\* (migrateToWorkstreams and cmdWorkstreamComplete).
FilesKept == Files!FilesKept

\* A migration or an archiving that fails half way leaves the project's
\* files together (migrateToWorkstreams and cmdWorkstreamComplete).
NotSplit == Files!NotSplit

\* No interleaving of unlocked rewrites invents or drops a setting
\* (loadConfig, setConfigValue and the repairs of cmdValidateHealth).
SettingGenuine == Config!SettingGenuine
=============================================================================
