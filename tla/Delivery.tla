------------------------------- MODULE Delivery -------------------------------
(***************************************************************************)
(* What the release engine promises about one feature after another: a     *)
(* feature is out, is taken aboard a release by a ship, and arrives on     *)
(* main when the release does. One that was aboard a release that left     *)
(* without it is out again, where people find it. What arrived stays, and  *)
(* no feature is ever lost.                                                *)
(***************************************************************************)
CONSTANTS Feature

VARIABLE place  \* where a feature is: "out", "aboard" or "arrived"

Init == place = [f \in Feature |-> "out"]

Boards(f) == place[f] = "out" /\ place' = [place EXCEPT ![f] = "aboard"]

\* A train brings whole sets of features to main, also one that came aboard by
\* a ship that was never answered.
Arrives(F) ==
    /\ F # {}
    /\ \A f \in F : place[f] # "arrived"
    /\ place' = [f \in Feature |-> IF f \in F THEN "arrived" ELSE place[f]]

Reopens(F) ==
    /\ F # {}
    /\ \A f \in F : place[f] = "aboard"
    /\ place' = [f \in Feature |-> IF f \in F THEN "out" ELSE place[f]]

Next == (\E f \in Feature : Boards(f)) \/ (\E F \in SUBSET Feature : Arrives(F) \/ Reopens(F))

Spec == Init /\ [][Next]_place
================================================================================
