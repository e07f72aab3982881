------------------------------ MODULE MCEpicGate ------------------------------
(* EpicGate for TLC: an epic of two slices and an epic of one.             *)
EXTENDS EpicGate, TLC

CONSTANTS e1, e2, a, b, c, v1, pr

AllEpics == {e1, e2}
AllFeatures == {a, b, c}
TwoEpics == (a :> e1) @@ (b :> e1) @@ (c :> e2)
OneVerifier == {v1}

\* A new release: its first epic has a slice in work and one nobody thought of
\* yet, or one that an earlier release delivered.
NewAndSplit == {(a :> x) @@ (b :> "claimed") @@ (c :> "claimed") : x \in {"none", "before"}}
================================================================================
