---- MODULE MCStateFile ----
(* STATE.md for TLC: two agents, one or two decisions. *)
EXTENDS StateFile
====
