---- MODULE MCPhaseManager ----
(* The manager for TLC: a ROADMAP.md of one milestone, one grouped by
   milestones like the template's, whose first phase depends on a shipped one,
   and one in which two phases depend on each other.                        *)
EXTENDS PhaseManager

MCProjects ==
  { [deps |-> <<{}, {1}>>, bare |-> {2}, deep |-> FALSE, other |-> 0, left |-> 0],
    [deps |-> <<{0}, {1}>>, bare |-> {}, deep |-> TRUE, other |-> 1, left |-> 1],
    [deps |-> <<{2}, {1}>>, bare |-> {1}, deep |-> TRUE, other |-> 0, left |-> 0] }
====
