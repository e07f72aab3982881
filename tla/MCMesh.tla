-------------------------------- MODULE MCMesh --------------------------------
(* Mesh for TLC: two agents, two commands at a time.                        *)
EXTENDS Mesh, TLC

CONSTANTS a1, a2, r1, t1, c1, c2

TwoAgents == {a1, a2}
TwoCommands == {c1, c2}

\* Until when an agent has relied on a thing is of no consequence once it is over.
Looks == <<time, claims, tasks, calls, fences,
           [a \in Agent |-> [x \in Thing |-> IF Works(a, x) THEN relies[a][x] ELSE 0]]>>

Swaps == Permutations(Agent) \cup Permutations(Process)
================================================================================
