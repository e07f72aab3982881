---------------------------- MODULE Handoff_proofs ----------------------------
(***************************************************************************)
(* The hooks of Handoff, proved for any set of tasks, levels, thresholds   *)
(* and bounds, and for every configuration.                                *)
(***************************************************************************)
EXTENDS Handoff, TLAPS

(***************************************************************************)
(* The parts of the inductive invariant                                    *)
(***************************************************************************)
\* A session that was told to end its turn has a record, no drain notice that was
\* sent and no handoff, and is by its own records over the threshold: whatever it
\* does before it stops, it stays so.
EndInv ==
    order = "end" =>
        /\ ~cfg.full /\ cfg.midNotices
        /\ usage \/ cfg.agy
        /\ flag = 0 /\ ~(drain /\ cfg.notices)
        /\ latest >= Threshold

\* The mid-turn hook measures nothing without a record.
SeenInv == latest > 0 => usage \/ cfg.agy

\* A flag tells of a handoff, also where no flag can be written.
FlagInv == flag # 0 => fires > 0

IInv == TypeOK /\ HandoffOnce /\ EndInv /\ SeenInv /\ FlagInv

LEMMA InitHolds == Init => IInv
<1> SUFFICES ASSUME Init PROVE IInv
    OBVIOUS
<1>1. TypeOK
  <2>1. {latest, context} \subseteq 0..MaxContext /\ 0 \in 0..MaxCompacts
    BY HandoffAssumption DEF Init, Unmeasured
  <2>2. {dirty, usage, claims, banner, active, draining, drain, guard} \subseteq BOOLEAN
    BY DEF Init
  <2>3. /\ running \subseteq Task /\ shown \subseteq running /\ log \subseteq {"notice", "handoff"}
        /\ turn \in {"work", "stopped"} /\ order \in Orders /\ cfg \in Configs
    BY DEF Init, Orders
  <2>4. flag = 0 /\ refire = 0 /\ midturn = 0 /\ fires \in 0..2
    BY DEF Init
  <2> QED BY <2>1, <2>2, <2>3, <2>4 DEF Init, TypeOK
<1>2. HandoffOnce /\ EndInv /\ SeenInv /\ FlagInv
    BY DEF Init, Unmeasured, HandoffOnce, EndInv, SeenInv, FlagInv
<1> QED BY <1>1, <1>2 DEF IInv

\* The session itself: nothing it does touches the markers.
LEMMA SessionKeeps ==
    ASSUME IInv,
           \/ Works \/ OthersWork \/ Compacts \/ RunsScript \/ OwnerPrompts \/ OtherHookBlocks
           \/ \E t \in Task : Launches(t) \/ Reports(t)
    PROVE  IInv'
<1> USE HandoffAssumption
<1> USE DEF IInv
<1>1. CASE Works
  <2>1. {latest', context'} \subseteq 0..MaxContext
    BY <1>1 DEF TypeOK, Works
  <2>2. TypeOK'
    BY <1>1, <2>1 DEF TypeOK, Works, Record, markVars, Orders
  <2> QED BY <1>1, <2>2 DEF TypeOK, Works, Record, markVars, HandoffOnce, EndInv, SeenInv, FlagInv
<1>2. CASE Compacts
  <2>1. {latest', context'} \subseteq 0..MaxContext /\ compacts' \in 0..MaxCompacts
    BY <1>2 DEF TypeOK, Compacts, Unmeasured
  <2>2. TypeOK'
    BY <1>2, <2>1 DEF TypeOK, Compacts, markVars, Orders
  <2> QED BY <1>2, <2>2 DEF Compacts, Unmeasured, markVars, HandoffOnce, EndInv, SeenInv, FlagInv
<1>3. CASE RunsScript
  <2>1. TypeOK'
    BY <1>3 DEF TypeOK, RunsScript, markVars, Orders
  <2> QED BY <1>3, <2>1 DEF RunsScript, markVars, HandoffOnce, EndInv, SeenInv, FlagInv
<1>4. CASE OwnerPrompts
  <2>1. TypeOK'
    BY <1>4 DEF TypeOK, OwnerPrompts, markVars, worldVars, Orders
  <2> QED BY <1>4, <2>1 DEF OwnerPrompts, markVars, worldVars, HandoffOnce, EndInv, SeenInv, FlagInv
<1>5. CASE OtherHookBlocks
  <2>1. TypeOK'
    BY <1>5 DEF TypeOK, OtherHookBlocks, markVars, worldVars, Orders
  <2> QED BY <1>5, <2>1 DEF OtherHookBlocks, markVars, worldVars, HandoffOnce, EndInv, SeenInv, FlagInv
<1>6. ASSUME NEW t \in Task, Launches(t) PROVE IInv'
  <2>1. TypeOK'
    BY <1>6 DEF TypeOK, Launches, markVars, Orders
  <2> QED BY <1>6, <2>1 DEF Launches, markVars, HandoffOnce, EndInv, SeenInv, FlagInv
<1>7. ASSUME NEW t \in Task, Reports(t) PROVE IInv'
  <2>1. TypeOK'
    BY <1>7 DEF TypeOK, Reports, markVars, Orders
  <2> QED BY <1>7, <2>1 DEF Reports, markVars, HandoffOnce, EndInv, SeenInv, FlagInv
<1>8. CASE OthersWork
  <2>1. {latest', context'} \subseteq 0..MaxContext
    BY <1>8 DEF TypeOK, OthersWork
  <2>2. TypeOK'
    BY <1>8, <2>1 DEF TypeOK, OthersWork, Record, markVars, Orders
  <2> QED BY <1>8, <2>2 DEF OthersWork, Record, markVars, HandoffOnce, EndInv, SeenInv, FlagInv
<1> QED BY <1>1, <1>2, <1>3, <1>4, <1>5, <1>6, <1>7, <1>8

\* The mid-turn hook: what it foretells is what EndInv says.
LEMMA MidturnKeeps == ASSUME IInv, Midturn PROVE IInv'
<1> USE HandoffAssumption
<1> USE DEF IInv
<1>1. TypeOK'
  <2>1. midturn' \in {0} \cup Levels
    BY DEF Midturn, Passed
  <2>2. log' \subseteq {"notice", "handoff"} /\ order' \in Orders
    BY DEF Midturn, TypeOK, Orders
  <2> QED BY <2>1, <2>2 DEF TypeOK, Midturn, worldVars
<1>2. EndInv'
  <2>1. latest \in Nat /\ Threshold \in Nat /\ Threshold > 1
    BY DEF TypeOK
  <2>2. CASE next_stop_hands_off /\ cfg.midNotices
    <3>1. latest >= Threshold /\ flag = 0 /\ ~(drain /\ cfg.notices)
      BY <2>2 DEF next_stop_hands_off, stop_would_hand_off
    <3>2. usage \/ cfg.agy
      BY <2>1, <3>1 DEF SeenInv
    <3> QED BY <2>2, <3>1, <3>2 DEF Midturn, EndInv, worldVars
  <2>3. CASE ~(next_stop_hands_off /\ cfg.midNotices)
    BY <2>3 DEF Midturn, EndInv, worldVars
  <2> QED BY <2>2, <2>3
<1>4. SeenInv'
    BY DEF Midturn, SeenInv, worldVars
<1>3. (HandoffOnce /\ FlagInv)'
    BY DEF Midturn, HandoffOnce, FlagInv
<1> QED BY <1>1, <1>2, <1>3, <1>4

\* The Stop hook, case by case.
LEMMA StopKeeps == ASSUME IInv, Stop PROVE IInv'
<1> USE HandoffAssumption
<1> USE DEF IInv
<1> USE DEF Silent, Notice, Says, Marks, Logs, Orders
<1>1. CASE StopsUnheard
  <2>1. TypeOK'
    BY <1>1 DEF TypeOK, StopsUnheard, markVars, worldVars
  <2> QED BY <1>1, <2>1 DEF StopsUnheard, markVars, worldVars, HandoffOnce, EndInv, SeenInv, FlagInv
<1>2. CASE StopGuarded
  <2>1. TypeOK'
    BY <1>2 DEF TypeOK, StopGuarded, worldVars
  <2> QED BY <1>2, <2>1 DEF StopGuarded, worldVars, HandoffOnce, EndInv, SeenInv, FlagInv
<1>3. CASE StopBelow
  <2>1. flag' \in {0} \cup Threshold..MaxContext /\ refire' \in {0} \cup Threshold..MaxContext
    BY <1>3 DEF TypeOK, StopBelow
  <2>2. fires' \in 0..2 /\ log' \subseteq {"notice", "handoff"}
    BY <1>3 DEF TypeOK, StopBelow
  <2>3. draining' \in BOOLEAN /\ drain' \in BOOLEAN /\ guard' \in BOOLEAN
    BY <1>3 DEF TypeOK, StopBelow
  <2>4. TypeOK'
    BY <1>3, <2>1, <2>2, <2>3 DEF TypeOK, StopBelow, worldVars
  <2> QED BY <1>3, <2>4 DEF StopBelow, worldVars, HandoffOnce, EndInv, SeenInv, FlagInv
<1>4. CASE StopRelays
  <2>1. TypeOK'
    BY <1>4 DEF TypeOK, StopRelays, worldVars
  <2> QED BY <1>4, <2>1 DEF StopRelays, worldVars, HandoffOnce, EndInv, SeenInv, FlagInv
<1>5. CASE StopRetired
  <2>1. flag' \in {0} \cup Threshold..MaxContext /\ refire' \in {0} \cup Threshold..MaxContext
    BY <1>5 DEF TypeOK, StopRetired, Retired, Judged
  <2>2. fires' \in 0..2 /\ log' \subseteq {"notice", "handoff"}
    BY <1>5 DEF TypeOK, StopRetired
  <2>3. draining' \in BOOLEAN /\ drain' \in BOOLEAN /\ guard' \in BOOLEAN
    BY <1>5 DEF TypeOK, StopRetired
  <2>4. TypeOK'
    BY <1>5, <2>1, <2>2, <2>3 DEF TypeOK, StopRetired, worldVars
  <2> QED BY <1>5, <2>4 DEF StopRetired, worldVars, HandoffOnce, EndInv, SeenInv, FlagInv
<1>6. CASE StopDrains
  <2>1. TypeOK'
    BY <1>6 DEF TypeOK, StopDrains, worldVars
  <2> QED BY <1>6, <2>1 DEF StopDrains, worldVars, HandoffOnce, EndInv, SeenInv, FlagInv
<1>7. CASE StopFires
  <2>1. flag' \in {0} \cup Threshold..MaxContext /\ refire' \in {0} \cup Threshold..MaxContext
    BY <1>7 DEF TypeOK, StopFires, Judged
  <2>2. fires' \in 0..2 /\ log' \subseteq {"notice", "handoff"}
    BY <1>7 DEF TypeOK, StopFires
  <2>3. draining' \in BOOLEAN /\ drain' \in BOOLEAN /\ guard' \in BOOLEAN
    BY <1>7 DEF TypeOK, StopFires
  <2>4. TypeOK'
    BY <1>7, <2>1, <2>2, <2>3 DEF TypeOK, StopFires, worldVars
  <2> QED BY <1>7, <2>4 DEF StopFires, Judged, worldVars, HandoffOnce, EndInv, SeenInv, FlagInv, TypeOK
<1> QED BY <1>1, <1>2, <1>3, <1>4, <1>5, <1>6, <1>7 DEF Stop

LEMMA StepKeeps == IInv /\ [Next]_vars => IInv'
<1> SUFFICES ASSUME IInv, [Next]_vars PROVE IInv'
    OBVIOUS
<1>1. CASE UNCHANGED vars
    BY <1>1 DEF IInv, vars, worldVars, markVars, TypeOK, HandoffOnce, EndInv, SeenInv, FlagInv
<1>2. CASE Next
    BY <1>2, SessionKeeps, MidturnKeeps, StopKeeps DEF Next
<1> QED BY <1>1, <1>2

LEMMA Invariance == Spec => []IInv
BY InitHolds, StepKeeps, PTL DEF Spec

\* The hooks' markers, orders and counters keep their types under every
\* configuration; in particular a marker holds 0 or a context over the threshold.
THEOREM TypeCorrect == Spec => []TypeOK
BY Invariance, PTL DEF IInv

\* A session hands off at most once until it is armed again, and its flag is
\* there exactly then (the one-shot flag of auto-handoff-stop.py).
THEOREM OneHandoff == Spec => []HandoffOnce
BY Invariance, PTL DEF IInv

\* Only the Stop hook lets a session stop in silence.
LEMMA SilenceIsStop == ASSUME GoesSilent, [Next]_vars PROVE Stop
BY DEF GoesSilent, vars, Next, Works, OthersWork, Record, Compacts, RunsScript, OwnerPrompts,
       OtherHookBlocks, Midturn, Launches, Reports

\* A session that was told to end its turn is met at its next stop by a handoff, a
\* drain notice or a correction, unless the Stop hook measures another record than
\* the mid-turn hook, under the threshold, or sends no notices where the mid-turn
\* hook does (next_stop_hands_off against the cases of the Stop hook).
THEOREM TheEndIsHeard == Spec => EndIsHeard
<1> DEFINE Disagree == \/ context < Threshold /\ context # latest
                       \/ cfg.midNotices # cfg.notices
<1>1. ASSUME IInv, [Next]_vars, GoesSilent, order = "end" PROVE Disagree
  <2>1. /\ ~cfg.full /\ cfg.midNotices /\ flag = 0 /\ latest >= Threshold
        /\ usage \/ cfg.agy
        /\ ~(drain /\ cfg.notices)
    BY <1>1 DEF IInv, EndInv
  <2>2. context \in Nat /\ latest \in Nat /\ Threshold \in Nat /\ Threshold > 1
    BY <1>1, HandoffAssumption DEF IInv, TypeOK
  <2>3. context < Threshold => context # latest
    BY <2>1, <2>2
  <2>4. ~cfg.notices => cfg.midNotices # cfg.notices
    BY <2>1
  <2>5. SUFFICES ASSUME context >= Threshold, cfg.notices PROVE FALSE
    BY <2>2, <2>3, <2>4
  <2>6. ~Unheard
    BY <2>1, <2>2, <2>5 DEF Unheard
  <2>7. Stop
    BY <1>1, SilenceIsStop
  <2> QED
    BY <1>1, <2>1, <2>2, <2>5, <2>6, <2>7 DEF GoesSilent, Stop, StopsUnheard, StopGuarded,
       StopBelow, StopRelays, StopRetired, Retired, StopDrains, StopFires, Notice, Says
<1>2. IInv /\ [Next]_vars => [GoesSilent /\ order = "end" => Disagree]_vars
  BY <1>1
<1> QED BY <1>2, Invariance, PTL DEF Spec, EndIsHeard

\* A session over the threshold, as the Stop hook measures it, stops in silence only
\* when it has handed off, or waits for a safe point, or cannot be judged.
THEOREM NobodyIsStranded == Spec => NobodyStranded
<1> DEFINE Excused == \/ fires > 0
                      \/ safe_point_blocked(context, shown, dirty, NotIdle)
                      \/ Unheard
                      \/ Claimed /\ ~cfg.notices
<1>1. ASSUME IInv, [Next]_vars, GoesSilent, context >= Threshold PROVE Excused
  <2>1. Stop
    BY <1>1, SilenceIsStop
  <2>2. flag # 0 => fires > 0
    BY <1>1 DEF IInv, FlagInv
  <2>3. context \in Nat /\ Threshold \in Nat
    BY <1>1, HandoffAssumption DEF IInv, TypeOK
  <2>4. CASE StopsUnheard
    BY <2>4 DEF StopsUnheard
  <2>5. CASE StopGuarded
    BY <1>1, <2>5 DEF StopGuarded, GoesSilent, Notice, Says
  <2>6. CASE StopBelow
    BY <1>1, <2>3, <2>6 DEF StopBelow
  <2>7. CASE StopRelays \/ StopRetired
    BY <2>2, <2>7 DEF StopRelays, StopRetired, Retired
  <2>8. CASE StopDrains
    BY <2>8 DEF StopDrains, Unsafe
  <2>9. CASE StopFires
    BY <1>1, <2>9 DEF StopFires, GoesSilent, Says
  <2> QED BY <2>1, <2>4, <2>5, <2>6, <2>7, <2>8, <2>9 DEF Stop
<1>2. IInv /\ [Next]_vars => [GoesSilent /\ context >= Threshold => Excused]_vars
  BY <1>1
<1> QED BY <1>2, Invariance, PTL DEF Spec, NobodyStranded
================================================================================
