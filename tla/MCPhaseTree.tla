---- MODULE MCPhaseTree ----
(* The phases of a project for TLC: three planned phases, two names. *)
EXTENDS PhaseTree, TLC

SlugSymmetry == Permutations(Slugs)
====
