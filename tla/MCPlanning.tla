---- MODULE MCPlanning ----
(* The shared planning directory for TLC. *)
EXTENDS Planning, TLC

PlanningSymmetry == Permutations(Names) \cup Permutations(Procs)
====
