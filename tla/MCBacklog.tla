------------------------------- MODULE MCBacklog -------------------------------
(* Backlog for TLC: two sessions, two ideas.                               *)
EXTENDS Backlog, TLC

CONSTANTS s1, s2, i1, i2

TwoSessions == {s1, s2}
TwoIdeas == {i1, i2}
Symmetric == Permutations(TwoSessions) \cup Permutations(TwoIdeas)
================================================================================
