----------------------------- MODULE SharedLog -----------------------------
(***************************************************************************)
(* What vaultsync promises to those who save: one shared log of commits    *)
(* that only grows, and one verdict per save. "saved" is given only to a   *)
(* save the log has carried out; a save that got "refused" is not in the   *)
(* log and never enters it; "unsettled" promises nothing. A save enters    *)
(* the log at most once, and only while what it read is still the truth.   *)
(*                                                                         *)
(* Nothing here knows of places, pushes, crashes or retries.               *)
(***************************************************************************)
EXTENDS History

VARIABLES log, verdict

vars == <<log, verdict>>

Init == log = <<>> /\ verdict = [s \in Save |-> "open"]

\* A save enters the log, whether or not anyone still waits for it.
SaveEnters(c) ==
    /\ IsOp(c)
    /\ verdict[c.save] # "refused"
    /\ Own(log, c.save) = {}
    /\ c.saw = Basis(log, c.save)
    /\ log' = Append(log, c)
    /\ UNCHANGED verdict

\* Inbox files enter as they come.
FilesEnter(c) ==
    /\ c.save = Daemon /\ c.drops # {}
    /\ log' = Append(log, c)
    /\ UNCHANGED verdict

CarriedOut(s) == IF KindOf(s) = "commit" THEN Own(log, s) # {} ELSE SameRequest(log, s) # {}

Judged(s, v) ==
    /\ verdict[s] = "open"
    /\ \/ v = "saved" /\ CarriedOut(s)
       \/ v = "refused" /\ Own(log, s) = {}
       \/ v = "unsettled"
    /\ verdict' = [verdict EXCEPT ![s] = v]
    /\ UNCHANGED log

Next ==
    \/ log' # <<>> /\ (SaveEnters(Last(log')) \/ FilesEnter(Last(log')))
    \/ \E s \in Save, v \in {"saved", "refused", "unsettled"} : Judged(s, v)

Spec == Init /\ [][Next]_vars
=============================================================================
