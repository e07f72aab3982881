------------------------------ MODULE MCHandoff ------------------------------
(* Handoff for TLC: every configuration, two tasks.                        *)
EXTENDS Handoff, TLC

CONSTANTS t1, t2

TwoTasks == {t1, t2}
SomeLevels == {2, 3}
================================================================================
