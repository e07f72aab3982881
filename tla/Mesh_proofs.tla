----------------------------- MODULE Mesh_proofs -----------------------------
(***************************************************************************)
(* The leases of Mesh, proved for any set of agents, resources, tasks and  *)
(* commands, any lease and any bound, in the intended use: no liberties.   *)
(***************************************************************************)
EXTENDS Mesh, TLAPS

(***************************************************************************)
(* The inductive invariant                                                 *)
(***************************************************************************)
\* A command carries a time that has been.
CallsOK ==
    \A p \in Process : calls[p] # NoCall =>
        /\ calls[p] \in Call
        /\ calls[p].on \in Names(calls[p].op)
        /\ calls[p].ttl \in Lengths(calls[p].op)
        /\ calls[p].now <= time

\* An agent has one command under way, and works no longer on what it gives back.
OneCall ==
    \A p, q \in Process :
        /\ calls[p] # NoCall /\ calls[p].op \notin Upkeep
        /\ calls[q] # NoCall /\ calls[q].op \notin Upkeep
        /\ calls[p].agent = calls[q].agent
        => p = q

GivenBack ==
    \A p \in Process :
        calls[p].op \in {"release", "task_done"} => relies[calls[p].agent][calls[p].on] = 0

\* Who works has the row, and for as long as it relies on it.
ClaimsBacked ==
    \A a \in Agent, r \in Resource : Works(a, r) =>
        /\ claims[r].held /\ claims[r].owner = a
        /\ relies[a][r] <= claims[r].expires
        /\ fences[a][r] = claims[r].fence

TasksBacked ==
    \A a \in Agent, t \in Task : Works(a, t) =>
        /\ tasks[t].st = "in_progress" /\ tasks[t].owner = a
        /\ relies[a][t] <= tasks[t].expires

\* Whoever has lost a resource was told a smaller fence than the row has.
FencesBehind ==
    \A a \in Agent, r \in Resource :
        claims[r].owner \notin {a, NoAgent} => fences[a][r] < claims[r].fence

NeverClaimed ==
    \A r \in Resource : claims[r].owner = NoAgent =>
        claims[r].fence = 0 /\ \A a \in Agent : fences[a][r] = 0

FencesKnown ==
    \A a \in Agent, r \in Resource : fences[a][r] <= claims[r].fence

ResultByOwner == \A t \in Task : tasks[t].st = "done" => tasks[t].result = tasks[t].owner

IInv ==
    /\ TypeOK /\ time > 0
    /\ CallsOK /\ OneCall /\ GivenBack
    /\ ClaimsBacked /\ TasksBacked
    /\ FencesBehind /\ NeverClaimed /\ FencesKnown
    /\ ResultByOwner

Orderly == Liberties = {}

(***************************************************************************)
(* Lemmas                                                                  *)
(***************************************************************************)
\* A command under way is a record of one.
LEMMA CallIsTyped ==
    ASSUME IInv, NEW p \in Process, calls[p] # NoCall
    PROVE  /\ calls[p].op \in Op /\ calls[p].agent \in Agent
           /\ calls[p].now \in Nat /\ calls[p].now <= time
           /\ calls[p].ttl \in Lengths(calls[p].op) /\ calls[p].on \in Names(calls[p].op)
           /\ calls[p].op \in OfClaims => calls[p].on \in Resource
           /\ calls[p].op \in OfTasks => calls[p].on \in Task
           /\ calls[p].op \in Leasing => calls[p].ttl \in Nat
BY MeshAssumption
   DEF IInv, CallsOK, Call, Names, Lengths, OfClaims, OfTasks, Leasing

LEMMA RunsIsCall ==
    ASSUME IInv, NEW p \in Process, NEW op \in Op, Runs(p, op)
    PROVE  /\ calls[p] # NoCall /\ calls[p].op = op
           /\ calls' = [calls EXCEPT ![p] = NoCall]
BY DEF Runs, NoCall, Op, OfClaims, OfTasks, Upkeep

\* When a command has run, what is said of the commands under way stays true.
LEMMA CallEnds ==
    ASSUME IInv, NEW p \in Process, calls' = [calls EXCEPT ![p] = NoCall], time' = time
    PROVE  /\ calls' \in [Process -> Call \cup {NoCall}]
           /\ CallsOK' /\ OneCall'
           /\ \A q \in Process : calls'[q] # NoCall => q # p /\ calls'[q] = calls[q]
<1>1. calls \in [Process -> Call \cup {NoCall}]
    BY DEF IInv, TypeOK
<1>2. calls' \in [Process -> Call \cup {NoCall}]
    BY <1>1
<1>3. \A q \in Process : calls'[q] # NoCall => q # p /\ calls'[q] = calls[q]
    BY <1>1
<1>4. CallsOK'
    BY <1>3 DEF IInv, CallsOK
<1>5. OneCall'
    BY <1>3 DEF IInv, OneCall
<1> QED BY <1>2, <1>3, <1>4, <1>5

\* ... and also GivenBack, when the command gives nothing to an agent.
LEMMA NothingGiven ==
    ASSUME IInv, NEW p \in Process, calls' = [calls EXCEPT ![p] = NoCall], relies' = relies, time' = time
    PROVE  GivenBack'
<1>1. \A q \in Process : calls'[q] # NoCall => q # p /\ calls'[q] = calls[q]
    BY CallEnds
<1>2. ASSUME NEW q \in Process, calls'[q].op \in {"release", "task_done"} PROVE calls'[q] # NoCall
    BY <1>2 DEF NoCall
<1> QED BY <1>1, <1>2 DEF IInv, GivenBack

\* ... or gives something to an agent, which then has no other command under way.
LEMMA OnlyLeasing ==
    ASSUME IInv, NEW p \in Process, calls[p] # NoCall, calls[p].op \in Leasing,
           calls' = [calls EXCEPT ![p] = NoCall], time' = time,
           NEW x \in Thing, NEW n \in Nat,
           relies' = [relies EXCEPT ![calls[p].agent][x] = n]
    PROVE  GivenBack'
<1> SUFFICES ASSUME NEW q \in Process, calls'[q].op \in {"release", "task_done"}
             PROVE  relies'[calls'[q].agent][calls'[q].on] = 0
    BY DEF GivenBack
<1>1. calls'[q] # NoCall
    BY DEF NoCall
<1>2. q # p /\ calls'[q] = calls[q]
    BY <1>1, CallEnds
<1>3. calls[q].op \notin Upkeep /\ calls[p].op \notin Upkeep
    BY <1>2 DEF Upkeep, Leasing
<1>4. calls[q].agent # calls[p].agent
    BY <1>1, <1>2, <1>3 DEF IInv, OneCall
<1>5. calls[q].agent \in Agent /\ calls[p].agent \in Agent
    BY <1>1, <1>2, CallIsTyped
<1>6. relies \in [Agent -> [Thing -> Nat]]
    BY DEF IInv, TypeOK
<1>7. relies[calls[q].agent][calls[q].on] = 0
    BY <1>2 DEF IInv, GivenBack
<1> QED BY <1>2, <1>4, <1>5, <1>6, <1>7

(***************************************************************************)
(* Every step keeps the invariant                                          *)
(***************************************************************************)
LEMMA InitHolds == Init => IInv
<1> SUFFICES ASSUME Init PROVE IInv
    OBVIOUS
<1>1. TypeOK
    BY DEF Init, TypeOK, ClaimRow, TaskRow, NoClaim, NoTask, NewTask
<1>2. CallsOK /\ OneCall /\ GivenBack
    BY DEF Init, CallsOK, OneCall, GivenBack, NoCall
<1>3. \A a \in Agent, x \in Thing : ~Works(a, x)
    BY DEF Init, Works
<1>4. ClaimsBacked /\ TasksBacked
    BY <1>3 DEF ClaimsBacked, TasksBacked, Thing
<1>5. FencesBehind /\ NeverClaimed /\ FencesKnown /\ ResultByOwner
    BY DEF Init, FencesBehind, NeverClaimed, FencesKnown, ResultByOwner, NoClaim, NoTask, NewTask
<1> QED BY <1>1, <1>2, <1>4, <1>5 DEF IInv, Init

LEMMA TickKeeps == ASSUME IInv, Tick PROVE IInv'
<1>1. \A a \in Agent, x \in Thing : Works(a, x)' => Works(a, x)
    BY DEF Tick, Works, IInv, TypeOK
<1>2. TypeOK' /\ time' > 0
    BY DEF Tick, IInv, TypeOK
<1>3. CallsOK'
    BY CallIsTyped DEF Tick, IInv, CallsOK, TypeOK
<1>4. OneCall' /\ GivenBack'
    BY DEF Tick, IInv, OneCall, GivenBack
<1>5. ClaimsBacked' /\ TasksBacked'
    BY <1>1 DEF Tick, IInv, ClaimsBacked, TasksBacked, Thing
<1>6. (FencesBehind /\ NeverClaimed /\ FencesKnown /\ ResultByOwner)'
    BY DEF Tick, IInv, FencesBehind, NeverClaimed, FencesKnown, ResultByOwner
<1> QED BY <1>2, <1>3, <1>4, <1>5, <1>6 DEF IInv

LEMMA AsksKeeps ==
    ASSUME IInv, Orderly, NEW p \in Process, NEW a \in Agent, NEW op \in Op,
           NEW x \in Names(op), NEW ttl \in Lengths(op), Asks(p, a, op, x, ttl)
    PROVE  IInv'
<1> DEFINE new == [op |-> op, agent |-> a, on |-> x, now |-> time, ttl |-> ttl]
<1>1. new \in Call
    BY DEF Call, Names, Lengths, Thing, IInv, TypeOK
<1>2. calls \in [Process -> Call \cup {NoCall}] /\ relies \in [Agent -> [Thing -> Nat]]
    BY DEF IInv, TypeOK
<1>3. calls' = [calls EXCEPT ![p] = new]
    BY DEF Asks
<1>4. calls'[p] = new /\ \A q \in Process \ {p} : calls'[q] = calls[q]
    BY <1>2, <1>3
<1>5. \A b \in Agent, y \in Thing : relies'[b][y] = relies[b][y] \/ relies'[b][y] = 0
    BY <1>2 DEF Asks
<1>6. relies' \in [Agent -> [Thing -> Nat]]
    BY <1>2 DEF Asks
<1>7. TypeOK' /\ time' > 0
  <2>1. calls' \in [Process -> Call \cup {NoCall}]
    BY <1>1, <1>2, <1>3
  <2> QED BY <1>6, <2>1 DEF Asks, IInv, TypeOK
<1>8. \A b \in Agent, y \in Thing : Works(b, y)' => Works(b, y) /\ relies'[b][y] = relies[b][y]
    BY <1>5 DEF Asks, Works, IInv, TypeOK
<1>9. CallsOK'
  <2>1. \A q \in Process \ {p} : calls'[q] = calls[q]
    BY <1>4
  <2>2. new \in Call /\ new.on \in Names(new.op) /\ new.ttl \in Lengths(new.op) /\ new.now <= time
    BY <1>1 DEF IInv, TypeOK
  <2> QED BY <1>4, <2>2 DEF Asks, IInv, CallsOK
<1>10. OneCall'
  <2>1. op \in Upkeep \/ ~UnderWay(a)
    BY DEF Asks, Orderly
  <2> QED BY <1>4, <2>1 DEF UnderWay, IInv, OneCall
<1>11. GivenBack'
  <2>1. ASSUME NEW q \in Process, calls'[q].op \in {"release", "task_done"}
        PROVE  relies'[calls'[q].agent][calls'[q].on] = 0
    <3>1. CASE q = p
      <4>1. x \in Thing
        BY <1>4, <2>1, <3>1 DEF Names, OfClaims, OfTasks, Thing
      <4> QED BY <1>2, <1>4, <2>1, <3>1, <4>1 DEF Asks
    <3>2. CASE q # p
      <4>1. calls'[q] = calls[q] /\ calls[q] # NoCall
        BY <1>4, <2>1, <3>2 DEF NoCall
      <4>2. calls[q].agent \in Agent /\ calls[q].on \in Thing
        BY <2>1, <4>1, CallIsTyped DEF OfClaims, OfTasks, Thing
      <4>3. relies[calls[q].agent][calls[q].on] = 0
        BY <2>1, <4>1 DEF IInv, GivenBack
      <4> QED BY <1>5, <4>1, <4>2, <4>3
    <3> QED BY <3>1, <3>2
  <2> QED BY <2>1 DEF GivenBack
<1>12. ClaimsBacked' /\ TasksBacked'
  <2>1. claims' = claims /\ tasks' = tasks /\ fences' = fences
    BY DEF Asks
  <2> QED BY <1>8, <2>1 DEF IInv, ClaimsBacked, TasksBacked, Thing
<1>13. (FencesBehind /\ NeverClaimed /\ FencesKnown /\ ResultByOwner)'
    BY DEF Asks, IInv, FencesBehind, NeverClaimed, FencesKnown, ResultByOwner
<1> QED BY <1>7, <1>9, <1>10, <1>11, <1>12, <1>13 DEF IInv

LEMMA FailsKeeps == ASSUME IInv, NEW p \in Process, Fails(p) PROVE IInv'
<1>1. calls' = [calls EXCEPT ![p] = NoCall] /\ UNCHANGED <<time, claims, tasks, relies, fences>>
    BY DEF Fails
<1>2. calls' \in [Process -> Call \cup {NoCall}] /\ CallsOK' /\ OneCall'
    BY <1>1, CallEnds
<1>3. GivenBack'
    BY <1>1, NothingGiven
<1> QED BY <1>1, <1>2, <1>3
        DEF IInv, TypeOK, ClaimsBacked, TasksBacked, Works, FencesBehind, NeverClaimed, FencesKnown, ResultByOwner

\* Giving up rows that nobody works on.
LEMMA ReleasesKeep ==
    ASSUME IInv, NEW p \in Process, calls' = [calls EXCEPT ![p] = NoCall],
           NEW gone \in SUBSET Resource, Releases(gone),
           \A r \in gone : \A a \in Agent : ~Works(a, r)
    PROVE  IInv'
<1>1. UNCHANGED <<time, tasks, relies, fences>>
    BY DEF Releases
<1>2. calls' \in [Process -> Call \cup {NoCall}] /\ CallsOK' /\ OneCall' /\ GivenBack'
    BY <1>1, CallEnds, NothingGiven
<1>3. claims \in [Resource -> ClaimRow]
    BY DEF IInv, TypeOK
<1>4. \A r \in Resource : /\ claims'[r] \in ClaimRow
                          /\ claims'[r].owner = claims[r].owner
                          /\ claims'[r].fence = claims[r].fence
                          /\ claims'[r].expires = claims[r].expires
                          /\ r \notin gone => claims'[r] = claims[r]
    BY <1>3 DEF Releases, ClaimRow
<1>5. TypeOK' /\ time' > 0
  <2>1. claims' \in [Resource -> ClaimRow]
    BY <1>4 DEF Releases
  <2> QED BY <1>1, <1>2, <2>1 DEF IInv, TypeOK
<1>6. ClaimsBacked'
    BY <1>1, <1>4 DEF IInv, ClaimsBacked, Works
<1>7. (TasksBacked /\ FencesBehind /\ NeverClaimed /\ FencesKnown /\ ResultByOwner)'
    BY <1>1, <1>4 DEF IInv, TasksBacked, Works, FencesBehind, NeverClaimed, FencesKnown, ResultByOwner
<1> QED BY <1>2, <1>5, <1>6, <1>7 DEF IInv

LEMMA ReleaseKeeps ==
    ASSUME IInv, NEW p \in Process, Release(p) \/ Beat(p) \/ Gc(p) PROVE IInv'
<1>1. CASE Release(p)
  <2>1. calls[p] # NoCall /\ calls[p].op = "release" /\ calls' = [calls EXCEPT ![p] = NoCall]
    BY <1>1, RunsIsCall DEF Release, Op, OfClaims
  <2>2. ASSUME NEW r \in Resource, r = calls[p].on, claims[r].owner = calls[p].agent, NEW a \in Agent
        PROVE  ~Works(a, r)
    <3>1. relies[calls[p].agent][r] = 0
      BY <2>1, <2>2 DEF IInv, GivenBack
    <3>2. time \in Nat /\ time > 0
      BY DEF IInv, TypeOK
    <3> QED BY <2>2, <3>1, <3>2 DEF IInv, ClaimsBacked, Works
  <2> QED BY <1>1, <2>1, <2>2, ReleasesKeep DEF Release
<1>2. ASSUME NEW r \in Resource, Expired(r, calls[p].now), calls[p] # NoCall, NEW a \in Agent
      PROVE  ~Works(a, r)
  <2>1. calls[p].now \in Nat /\ calls[p].now <= time
    BY <1>2, CallIsTyped
  <2>2. time \in Nat /\ claims[r].expires \in Nat /\ relies[a][r] \in Nat
    BY DEF IInv, TypeOK, ClaimRow, Thing
  <2> QED BY <1>2, <2>1, <2>2 DEF IInv, ClaimsBacked, Works, Expired
<1>3. CASE Beat(p)
  <2>1. calls[p] # NoCall /\ calls' = [calls EXCEPT ![p] = NoCall]
    BY <1>3, RunsIsCall DEF Beat, Op, Upkeep
  <2> QED BY <1>2, <1>3, <2>1, ReleasesKeep DEF Beat
<1>4. CASE Gc(p)
  <2>1. calls[p] # NoCall /\ calls' = [calls EXCEPT ![p] = NoCall]
    BY <1>4, RunsIsCall DEF Gc, Op, Upkeep
  <2> QED BY <1>2, <1>4, <2>1, ReleasesKeep DEF Gc
<1> QED BY <1>1, <1>3, <1>4

\* A claim: lost, and nothing is written, or won.
LEMMA ClaimKeeps == ASSUME IInv, Orderly, NEW p \in Process, Claim(p) PROVE IInv'
<1> DEFINE a == calls[p].agent
           r == calls[p].on
           now == calls[p].now
           until == calls[p].now + calls[p].ttl
           fence == NextFence(claims[r], a)
<1>1. calls[p] # NoCall /\ calls[p].op = "claim" /\ calls' = [calls EXCEPT ![p] = NoCall]
    BY RunsIsCall DEF Claim, Op, OfClaims
<1>2. a \in Agent /\ r \in Resource /\ now \in Nat /\ now <= time /\ calls[p].ttl \in Nat
    BY <1>1, CallIsTyped DEF OfClaims, Leasing
<1>3. time' = time /\ tasks' = tasks
    BY DEF Claim
<1>4. calls' \in [Process -> Call \cup {NoCall}] /\ CallsOK' /\ OneCall'
    BY <1>1, <1>3, CallEnds
<1>5. CASE UNCHANGED <<claims, relies, fences>>
  <2>1. GivenBack'
    BY <1>1, <1>3, <1>5, NothingGiven
  <2> QED BY <1>3, <1>4, <1>5, <2>1
          DEF IInv, TypeOK, ClaimsBacked, TasksBacked, Works, FencesBehind, NeverClaimed,
              FencesKnown, ResultByOwner
<1>6. CASE /\ Takeable(claims[r], a, now)
           /\ claims' = [claims EXCEPT ![r] = [owner |-> a, expires |-> until,
                                               fence |-> fence, held |-> TRUE]]
           /\ relies' = [relies EXCEPT ![a][r] = Until(now, calls[p].ttl)]
           /\ fences' = [fences EXCEPT ![a][r] = fence]
  <2>1. /\ claims \in [Resource -> ClaimRow] /\ relies \in [Agent -> [Thing -> Nat]]
        /\ fences \in [Agent -> [Resource -> Nat]] /\ time \in Nat /\ r \in Thing
        /\ Resource \subseteq Thing /\ Task \subseteq Thing
    BY <1>2 DEF IInv, TypeOK, Thing
  <2>2. until \in Nat /\ Until(now, calls[p].ttl) = until
    BY <1>2 DEF Until, Orderly
  <2>3. fence \in Nat /\ fence >= claims[r].fence /\ (claims[r].owner # a => fence = claims[r].fence + 1)
    BY <1>2, <2>1 DEF NextFence, ClaimRow
  <2>4. claims'[r] = [owner |-> a, expires |-> until, fence |-> fence, held |-> TRUE]
    BY <1>2, <1>6, <2>1
  <2>5. \A x \in Resource \ {r} : claims'[x] = claims[x]
    BY <1>6, <2>1
  <2>6. relies'[a][r] = until /\ fences'[a][r] = fence
    BY <1>2, <1>6, <2>1, <2>2
  <2>7. /\ \A b \in Agent, x \in Thing : <<b, x>> # <<a, r>> => relies'[b][x] = relies[b][x]
        /\ \A b \in Agent, x \in Resource : <<b, x>> # <<a, r>> => fences'[b][x] = fences[b][x]
    BY <1>2, <1>6, <2>1, <2>2
  <2>8. GivenBack'
    BY <1>1, <1>2, <1>3, <1>6, <2>1, <2>2, OnlyLeasing DEF Leasing
  <2>9. TypeOK' /\ time' > 0
    <3>1. claims' \in [Resource -> ClaimRow]
      BY <1>2, <1>6, <2>1, <2>2, <2>3 DEF ClaimRow
    <3>2. relies' \in [Agent -> [Thing -> Nat]] /\ fences' \in [Agent -> [Resource -> Nat]]
      BY <1>2, <1>6, <2>1, <2>2, <2>3
    <3> QED BY <1>3, <1>4, <3>1, <3>2 DEF IInv, TypeOK
  <2>10. \A b \in Agent : b # a => ~Works(b, r)
    <3> SUFFICES ASSUME NEW b \in Agent, b # a, Works(b, r) PROVE FALSE
      OBVIOUS
    <3>1. claims[r].held /\ claims[r].owner = b /\ relies[b][r] <= claims[r].expires
      BY <1>2 DEF IInv, ClaimsBacked
    <3>2. claims[r].expires < now
      BY <1>6, <3>1 DEF Takeable
    <3>3. relies[b][r] \in Nat /\ claims[r].expires \in Nat
      BY <1>2, <2>1 DEF ClaimRow
    <3> QED BY <1>2, <2>1, <3>1, <3>2, <3>3 DEF Works
  <2>11. ClaimsBacked'
    <3> SUFFICES ASSUME NEW b \in Agent, NEW x \in Resource, Works(b, x)'
                 PROVE  /\ claims'[x].held /\ claims'[x].owner = b
                        /\ relies'[b][x] <= claims'[x].expires
                        /\ fences'[b][x] = claims'[x].fence
      BY DEF ClaimsBacked
    <3>1. CASE x = r /\ b = a
      BY <2>2, <2>4, <2>6, <3>1
    <3>2. CASE x = r /\ b # a
      <4>1. relies'[b][r] = relies[b][r]
        BY <1>2, <2>1, <2>7, <3>2
      <4> QED BY <1>3, <2>10, <3>2, <4>1 DEF Works
    <3>3. CASE x # r
      <4>1. relies'[b][x] = relies[b][x] /\ fences'[b][x] = fences[b][x] /\ claims'[x] = claims[x]
        BY <2>1, <2>5, <2>7, <3>3
      <4> QED BY <1>3, <4>1 DEF IInv, ClaimsBacked, Works
    <3> QED BY <3>1, <3>2, <3>3
  <2>12. TasksBacked'
    <3>1. \A b \in Agent, t \in Task : relies'[b][t] = relies[b][t]
      BY <1>2, <2>1, <2>7, MeshAssumption
    <3> QED BY <1>3, <3>1 DEF IInv, TasksBacked, Works
  <2>13. FencesKnown'
    <3> SUFFICES ASSUME NEW b \in Agent, NEW x \in Resource
                 PROVE  fences'[b][x] <= claims'[x].fence
      BY DEF FencesKnown
    <3>1. fences[b][x] <= claims[x].fence /\ fences[b][x] \in Nat /\ claims[x].fence \in Nat
      BY <2>1 DEF IInv, FencesKnown, ClaimRow
    <3>2. CASE x = r
      BY <2>3, <2>4, <2>6, <2>7, <3>1, <3>2
    <3>3. CASE x # r
      BY <2>5, <2>7, <3>1, <3>3
    <3> QED BY <3>2, <3>3
  <2>14. FencesBehind'
    <3> SUFFICES ASSUME NEW b \in Agent, NEW x \in Resource, claims'[x].owner \notin {b, NoAgent}
                 PROVE  fences'[b][x] < claims'[x].fence
      BY DEF FencesBehind
    <3>1. fences[b][x] <= claims[x].fence /\ fences[b][x] \in Nat /\ claims[x].fence \in Nat
      BY <2>1 DEF IInv, FencesKnown, ClaimRow
    <3>2. CASE x = r
      <4>1. b # a /\ fences'[b][r] = fences[b][r]
        BY <2>4, <2>7, <3>2
      <4>2. claims[r].owner = a => fences[b][r] < claims[r].fence
        BY <1>2, <4>1, MeshAssumption DEF IInv, FencesBehind
      <4> QED BY <2>3, <2>4, <3>1, <3>2, <4>1, <4>2
    <3>3. CASE x # r
      <4>1. fences'[b][x] = fences[b][x] /\ claims'[x] = claims[x]
        BY <2>5, <2>7, <3>3
      <4> QED BY <4>1 DEF IInv, FencesBehind
    <3> QED BY <3>2, <3>3
  <2>15. NeverClaimed'
    <3> SUFFICES ASSUME NEW x \in Resource, claims'[x].owner = NoAgent
                 PROVE  claims'[x].fence = 0 /\ \A b \in Agent : fences'[b][x] = 0
      BY DEF NeverClaimed
    <3>1. x # r
      BY <1>2, <2>4, MeshAssumption
    <3>2. claims'[x] = claims[x] /\ \A b \in Agent : fences'[b][x] = fences[b][x]
      BY <2>5, <2>7, <3>1
    <3> QED BY <3>2 DEF IInv, NeverClaimed
  <2>16. ResultByOwner'
    BY <1>3 DEF IInv, ResultByOwner
  <2> QED BY <1>4, <2>8, <2>9, <2>11, <2>12, <2>13, <2>14, <2>15, <2>16 DEF IInv
<1> QED BY <1>5, <1>6 DEF Claim

\* A task that is open is worked on by nobody.
LEMMA OpenIsIdle ==
    ASSUME IInv, NEW t \in Task, NEW now \in Nat, now <= time, Open(t, now), NEW a \in Agent
    PROVE  ~Works(a, t)
<1>1. time \in Nat /\ tasks[t].expires \in Nat /\ relies[a][t] \in Nat
    BY DEF IInv, TypeOK, TaskRow, Thing
<1> QED BY <1>1 DEF IInv, TasksBacked, Works, Open

LEMMA TakesKeeps ==
    ASSUME IInv, Orderly, NEW p \in Process, calls[p] # NoCall, calls[p].op \in Leasing,
           calls' = [calls EXCEPT ![p] = NoCall], NEW t \in Task,
           \A b \in Agent : ~Works(b, t),
           Takes(p, t), UNCHANGED <<time, claims, fences>>
    PROVE  IInv'
<1> DEFINE a == calls[p].agent
           now == calls[p].now
           until == calls[p].now + calls[p].ttl
<1>1. a \in Agent /\ now \in Nat /\ calls[p].ttl \in Nat
    BY CallIsTyped
<1>2. /\ tasks \in [Task -> TaskRow] /\ relies \in [Agent -> [Thing -> Nat]]
      /\ t \in Thing /\ Resource \subseteq Thing /\ Task \subseteq Thing
    BY DEF IInv, TypeOK, Thing
<1>3. until \in Nat /\ Until(now, calls[p].ttl) = until
    BY <1>1 DEF Until, Orderly
<1>4. relies' = [relies EXCEPT ![a][t] = until]
    BY <1>3 DEF Takes
<1>5. relies'[a][t] = until /\ \A b \in Agent, x \in Thing : <<b, x>> # <<a, t>> => relies'[b][x] = relies[b][x]
    BY <1>1, <1>2, <1>3, <1>4
<1>6. /\ tasks'[t].st = "in_progress" /\ tasks'[t].owner = a /\ tasks'[t].expires = until
      /\ tasks'[t] \in TaskRow
      /\ \A u \in Task \ {t} : tasks'[u] = tasks[u]
    BY <1>1, <1>2, <1>3 DEF Takes, TaskRow
<1>7. calls' \in [Process -> Call \cup {NoCall}] /\ CallsOK' /\ OneCall'
    BY CallEnds
<1>8. GivenBack'
    BY <1>2, <1>3, <1>4, OnlyLeasing
<1>9. TypeOK' /\ time' > 0
  <2>1. tasks' \in [Task -> TaskRow]
    BY <1>2, <1>6 DEF Takes
  <2>2. relies' \in [Agent -> [Thing -> Nat]]
    BY <1>1, <1>2, <1>3, <1>4
  <2> QED BY <1>7, <2>1, <2>2 DEF IInv, TypeOK
<1>10. ClaimsBacked'
  <2>1. \A b \in Agent, r \in Resource : relies'[b][r] = relies[b][r]
    BY <1>2, <1>5, MeshAssumption
  <2> QED BY <2>1 DEF IInv, ClaimsBacked, Works
<1>11. TasksBacked'
  <2> SUFFICES ASSUME NEW b \in Agent, NEW u \in Task, Works(b, u)'
               PROVE  /\ tasks'[u].st = "in_progress" /\ tasks'[u].owner = b
                      /\ relies'[b][u] <= tasks'[u].expires
    BY DEF TasksBacked
  <2>1. CASE u = t /\ b = a
    BY <1>3, <1>5, <1>6, <2>1
  <2>2. CASE u = t /\ b # a
    <3>1. relies'[b][t] = relies[b][t]
      BY <1>2, <1>5, <2>2
    <3> QED BY <2>2, <3>1 DEF Works
  <2>3. CASE u # t
    <3>1. relies'[b][u] = relies[b][u] /\ tasks'[u] = tasks[u]
      BY <1>2, <1>5, <1>6, <2>3
    <3> QED BY <3>1 DEF IInv, TasksBacked, Works
  <2> QED BY <2>1, <2>2, <2>3
<1>12. ResultByOwner'
    BY <1>6 DEF IInv, ResultByOwner
<1>13. (FencesBehind /\ NeverClaimed /\ FencesKnown)'
    BY DEF IInv, FencesBehind, NeverClaimed, FencesKnown
<1> QED BY <1>7, <1>8, <1>9, <1>10, <1>11, <1>12, <1>13 DEF IInv

\* A command that changes nothing but the tasks nobody works on.
LEMMA TasksKeep ==
    ASSUME IInv, NEW p \in Process, calls' = [calls EXCEPT ![p] = NoCall],
           UNCHANGED <<time, claims, relies, fences>>,
           tasks' \in [Task -> TaskRow], ResultByOwner',
           \A t \in Task : tasks'[t] = tasks[t] \/ \A a \in Agent : ~Works(a, t)
    PROVE  IInv'
<1>1. calls' \in [Process -> Call \cup {NoCall}] /\ CallsOK' /\ OneCall' /\ GivenBack'
    BY CallEnds, NothingGiven
<1>2. TypeOK' /\ time' > 0
    BY <1>1 DEF IInv, TypeOK
<1>3. TasksBacked'
    BY DEF IInv, TasksBacked, Works
<1>4. (ClaimsBacked /\ FencesBehind /\ NeverClaimed /\ FencesKnown)'
    BY DEF IInv, ClaimsBacked, Works, FencesBehind, NeverClaimed, FencesKnown
<1> QED BY <1>1, <1>2, <1>3, <1>4 DEF IInv

LEMMA TaskKeeps ==
    ASSUME IInv, Orderly, NEW p \in Process,
           TaskCreate(p) \/ TaskClaim(p) \/ TaskNext(p) \/ TaskDone(p) \/ TaskNotDone(p)
    PROVE  IInv'
<1>1. /\ calls[p] # NoCall /\ calls[p].op \in {"task_create", "task_claim", "task_next", "task_done"}
      /\ calls' = [calls EXCEPT ![p] = NoCall]
    BY RunsIsCall DEF TaskCreate, TaskClaim, TaskNext, TaskDone, TaskNotDone, Op, OfTasks
<1>2. /\ calls[p].agent \in Agent /\ calls[p].now \in Nat /\ calls[p].now <= time
      /\ calls[p].op \in OfTasks => calls[p].on \in Task
    BY <1>1, CallIsTyped
<1>3. tasks \in [Task -> TaskRow] /\ ResultByOwner
    BY DEF IInv, TypeOK
<1>4. CASE UNCHANGED <<time, claims, tasks, relies, fences>>
  <2>1. ResultByOwner'
    BY <1>3, <1>4 DEF ResultByOwner
  <2> QED BY <1>1, <1>3, <1>4, <2>1, TasksKeep
<1>5. CASE TaskCreate(p)
  <2> DEFINE t == calls[p].on
  <2>1. calls[p].op = "task_create"
    BY <1>5 DEF TaskCreate, Runs
  <2>2. t \in Task /\ tasks[t].st = "none"
    BY <1>2, <1>5, <2>1 DEF TaskCreate, OfTasks, Orderly
  <2>3. NewTask \in TaskRow
    BY DEF NewTask, TaskRow
  <2>4. tasks' \in [Task -> TaskRow]
    BY <1>3, <1>5, <2>3 DEF TaskCreate
  <2>5. \A u \in Task : tasks'[u] = IF u = t THEN NewTask ELSE tasks[u]
    BY <1>3, <1>5 DEF TaskCreate
  <2>6. ResultByOwner'
    BY <1>3, <2>5 DEF ResultByOwner, NewTask
  <2>7. \A a \in Agent : ~Works(a, t)
    BY <2>2 DEF IInv, TasksBacked
  <2> QED BY ZenonT(20), <1>1, <1>5, <2>4, <2>5, <2>6, <2>7, TasksKeep DEF TaskCreate
<1>6. CASE TaskClaim(p)
  <2> DEFINE t == calls[p].on
  <2>1. calls[p].op = "task_claim"
    BY <1>6 DEF TaskClaim, Runs
  <2>2. t \in Task
    BY <1>2, <2>1 DEF OfTasks
  <2>3. CASE Open(t, calls[p].now) /\ Takes(p, t)
    <3>1. \A a \in Agent : ~Works(a, t)
      BY <1>2, <2>2, <2>3, OpenIsIdle
    <3> QED BY <1>1, <1>6, <2>1, <2>2, <2>3, <3>1, TakesKeeps DEF TaskClaim, Leasing
  <2> QED BY <1>4, <1>6, <2>3 DEF TaskClaim
<1>7. CASE TaskNext(p)
  <2>1. calls[p].op = "task_next"
    BY <1>7 DEF TaskNext, Runs
  <2>2. ASSUME NEW t \in Task, tasks[t].st = "pending", Takes(p, t) PROVE IInv'
    <3>1. \A a \in Agent : ~Works(a, t)
      BY <1>2, <2>2, OpenIsIdle DEF Open
    <3> QED BY <1>1, <1>7, <2>1, <2>2, <3>1, TakesKeeps DEF TaskNext, Leasing
  <2> QED BY <1>4, <1>7, <2>2 DEF TaskNext
<1>8. CASE TaskDone(p)
  <2> DEFINE t == calls[p].on
             a == calls[p].agent
  <2>1. calls[p].op = "task_done"
    BY <1>8 DEF TaskDone, Runs
  <2>2. t \in Task /\ tasks[t].owner = a
    BY <1>2, <1>8, <2>1 DEF TaskDone, OfTasks, Finishes
  <2>3. /\ tasks'[t].st = "done" /\ tasks'[t].result = a /\ tasks'[t].owner = a
        /\ tasks'[t] \in TaskRow
        /\ \A u \in Task \ {t} : tasks'[u] = tasks[u]
    BY <1>2, <1>3, <1>8, <2>2 DEF TaskDone, TaskRow
  <2>4. tasks' \in [Task -> TaskRow]
    BY <1>3, <1>8, <2>3 DEF TaskDone
  <2>5. ResultByOwner'
    BY <1>3, <2>3 DEF ResultByOwner
  <2>6. ASSUME NEW b \in Agent PROVE ~Works(b, t)
    <3>1. relies[a][t] = 0
      BY <2>1 DEF IInv, GivenBack
    <3>2. time \in Nat /\ time > 0
      BY DEF IInv, TypeOK
    <3> QED BY <2>2, <3>1, <3>2 DEF IInv, TasksBacked, Works
  <2>7. UNCHANGED <<time, claims, relies, fences>>
    BY <1>8 DEF TaskDone
  <2>8. \A u \in Task : tasks'[u] = tasks[u] \/ \A b \in Agent : ~Works(b, u)
    BY <2>3, <2>6
  <2> QED BY <1>1, <2>4, <2>5, <2>7, <2>8, TasksKeep
<1> QED BY <1>4, <1>5, <1>6, <1>7, <1>8 DEF TaskNotDone

LEMMA StepKeeps == ASSUME Orderly PROVE IInv /\ [Next]_vars => IInv'
<1> SUFFICES ASSUME IInv, [Next]_vars PROVE IInv'
    OBVIOUS
<1>1. CASE UNCHANGED vars
    BY <1>1 DEF vars, IInv, TypeOK, CallsOK, OneCall, GivenBack, ClaimsBacked, TasksBacked, Works,
                FencesBehind, NeverClaimed, FencesKnown, ResultByOwner
<1>2. CASE Next
    BY <1>2, TickKeeps, AsksKeeps, FailsKeeps, ClaimKeeps, ReleaseKeeps, TaskKeeps DEF Next
<1> QED BY <1>1, <1>2

LEMMA Invariance == ASSUME Orderly PROVE Spec => []IInv
BY InitHolds, StepKeeps, PTL DEF Spec

(***************************************************************************)
(* Theorems                                                                *)
(***************************************************************************)
\* The variables of the mesh keep their types.
THEOREM TypeCorrect == ASSUME Orderly PROVE Spec => []TypeOK
<1>1. IInv => TypeOK
    BY DEF IInv
<1> QED BY <1>1, Invariance, PTL

\* Two agents never work on one resource or one task: a lease that its owner counts from
\* before it asked is over, in the row, only when it is over for the owner, and a command
\* that reads the clock and then waits takes less for over than is, never more.
THEOREM OneWorker == ASSUME Orderly PROVE Spec => []OneWorks
<1>1. IInv => OneWorks
  <2> SUFFICES ASSUME IInv, NEW x \in Thing, NEW a \in Agent, NEW b \in Agent,
                      Works(a, x), Works(b, x)
               PROVE  a = b
    BY DEF OneWorks
  <2>1. CASE x \in Resource
    BY <2>1 DEF IInv, ClaimsBacked
  <2>2. CASE x \in Task
    BY <2>2 DEF IInv, TasksBacked
  <2> QED BY <2>1, <2>2 DEF Thing
<1> QED BY <1>1, Invariance, PTL

\* Who works on a resource has a larger fence than anybody else was ever told.
THEOREM LargestFence == ASSUME Orderly PROVE Spec => []ZombiesAreFenced
<1>1. IInv => ZombiesAreFenced
  <2> SUFFICES ASSUME IInv, NEW r \in Resource, NEW a \in Agent, NEW b \in Agent,
                      Works(a, r), a # b
               PROVE  fences[b][r] < fences[a][r]
    BY DEF ZombiesAreFenced
  <2>1. claims[r].owner = a /\ fences[a][r] = claims[r].fence
    BY DEF IInv, ClaimsBacked
  <2>2. fences[b][r] < claims[r].fence
    BY <2>1, MeshAssumption DEF IInv, FencesBehind
  <2> QED BY <2>1, <2>2
<1> QED BY <1>1, Invariance, PTL

\* A task that is done has the result of its last owner, and nobody works on it.
THEOREM LastOwnerFinishes == ASSUME Orderly PROVE Spec => []DoneByOwner
<1>1. IInv => DoneByOwner
    BY DEF IInv, ResultByOwner, TasksBacked, DoneByOwner
<1> QED BY <1>1, Invariance, PTL
================================================================================
