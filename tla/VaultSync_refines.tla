------------------------- MODULE VaultSync_refines -------------------------
(***************************************************************************)
(* What VaultSync promises those who save, for any number of places and    *)
(* saves. It implements SharedLog: a step of the hub is a save or inbox    *)
(* files that enter the log, a last line is a verdict, every other step is *)
(* a stutter. No request is carried out twice, and no inbox file is lost.  *)
(***************************************************************************)
EXTENDS VaultSync_proofs

(***************************************************************************)
(* What the refinement needs beside IInv: a commit of inbox files adds a   *)
(* file, and a request of a save asks for a version without that save.     *)
(***************************************************************************)
Loaded == {"commit"} \cup Sending

InboxSends(p) == run[p].pc = "commit" /\ run[p].load = "inbox" => ToSend(p) # {}

InboxCarries(p) ==
    run[p].pc \in Sending /\ run[p].load = "inbox" => Last(head[p]).drops # {}

RequestCarries(r) ==
    /\ Last(r.new).save = Daemon => Last(r.new).drops # {}
    /\ IsOp(Last(r.new)) => Own(r.old, Last(r.new).save) = {}

RefInv ==
    /\ \A p \in Place : InboxSends(p) /\ InboxCarries(p)
    /\ \A r \in net : RequestCarries(r)

\* A place where nothing was taken away keeps what it has.
LEMMA UntouchedPlace ==
    ASSUME RefInv, NEW q \in Place, head'[q] = head[q], disk[q] \subseteq disk'[q],
           run'[q].pc = run[q].pc, run'[q].load = run[q].load, run'[q].who = run[q].who
    PROVE  InboxSends(q)' /\ InboxCarries(q)'
<1>1. InboxSends(q) /\ InboxCarries(q)
  BY DEF RefInv
<1>2. Untracked(q) \subseteq Untracked(q)'
  BY DEF Untracked
<1>3. ToSend(q) \subseteq ToSend(q)'
  BY <1>2 DEF ToSend, IsSave
<1> QED  BY <1>1, <1>3 DEF InboxSends, InboxCarries

(***************************************************************************)
(* The steps of a lock holder                                              *)
(***************************************************************************)
DiskElsewhere(p) == \A q \in Place : q # p => disk'[q] = disk[q]

LEMMA DiskElsewhereOK ==
    ASSUME TypeOK, NEW p \in Place,
           HolderStep(p) \/ NoConnection(p) \/ GivesUp(p) \/ Stops(p)
    PROVE  DiskElsewhere(p)
<1>1. CASE UndoFolder(p) \/ FastForward(p) \/ SetAsideBad(p) \/ OpWrites(p)
  BY <1>1 DEF UndoFolder, FastForward, SetAsideBad, OpWrites, TypeOK, DiskElsewhere
<1>2. CASE \/ RecoverNothing(p) \/ RecoverUncommitted(p) \/ RecoverCommitted(p)
           \/ EndUndo(p) \/ UpdateStarts(p) \/ UpdateEnds(p) \/ AlreadySaved(p)
           \/ BeginInbox(p) \/ BeginOp(p) \/ MarkerInTheWay(p) \/ DaemonEnds(p)
  BY <1>2 DEF RecoverNothing, RecoverUncommitted, RecoverCommitted, EndUndo, UpdateStarts,
              UpdateEnds, AlreadySaved, BeginInbox, BeginOp, MarkerInTheWay, DaemonEnds,
              DiskElsewhere
<1>3. CASE \/ OpFails(p) \/ NothingChanged(p) \/ MakesCommit(p) \/ Pushes(p)
           \/ Hears(p) \/ AsksHub(p) \/ NoConnection(p) \/ GivesUp(p) \/ Stops(p)
  BY <1>3 DEF OpFails, NothingChanged, MakesCommit, Pushes, Hears, AsksHub, NoConnection,
              GivesUp, Stops, DiskElsewhere
<1> QED  BY <1>1, <1>2, <1>3 DEF HolderStep

\* Most steps leave a holder that carries no inbox commit.
Unloaded(p) == run'[p].pc \in Loaded => run'[p].load = "op"

LEMMA EndsUnloads ==
    ASSUME TypeOK, NEW p \in Place, NEW a, Ends(p, a)
    PROVE  Unloaded(p)
<1>1. run'[p].pc = "idle"
  BY DEF Ends, TypeOK, Idle
<1> QED  BY <1>1 DEF Unloaded, Loaded, Sending

LEMMA UndoUnloads ==
    ASSUME TypeOK, NEW p \in Place, NEW t, UndoThen(p, t)
    PROVE  Unloaded(p)
<1>1. run'[p].pc = "undo"
  BY DEF UndoThen, TypeOK, Holder
<1> QED  BY <1>1 DEF Unloaded, Loaded, Sending

LEMMA GoUnloads ==
    ASSUME TypeOK, NEW p \in Place, NEW pc \in Pcs \ Loaded, Go(p, pc)
    PROVE  Unloaded(p)
<1>1. run'[p].pc = pc
  BY GoEffect
<1> QED  BY <1>1 DEF Unloaded

LEMMA AgainUnloads ==
    ASSUME TypeOK, NEW p \in Place, NEW n, Again(p, n)
    PROVE  Unloaded(p)
<1>1. run'[p].pc = "update"
  BY DEF Again, TypeOK, Started, Idle
<1> QED  BY <1>1 DEF Unloaded, Loaded, Sending

LEMMA SendOKUnloads ==
    ASSUME TypeOK, NEW p \in Place, SendOK(p)
    PROVE  Unloaded(p)
<1>1. "op" \in Pcs \ Loaded
  BY DEF Pcs, Loaded, Sending
<1> QED  BY <1>1, EndsUnloads, GoUnloads DEF SendOK

LEMMA UnloadedSteps ==
    ASSUME IInv, NEW p \in Place,
           HolderStep(p) \/ NoConnection(p) \/ Stops(p),
           ~BeginInbox(p), ~MakesCommit(p), ~(Pushes(p) /\ IsPrefix(hub, head[p]))
    PROVE  Unloaded(p)
<1>1. TypeOK /\ HolderKnown(p)
  BY DEF IInv, PlaceOK
<1>2. {"update", "forward", "forwarded", "attempt", "undone", "op"} \subseteq Pcs \ Loaded
  BY DEF Pcs, Loaded, Sending
<1>3. CASE RecoverNothing(p) \/ RecoverUncommitted(p) \/ RecoverCommitted(p) \/ UndoFolder(p)
  BY <1>1, <1>2, <1>3, GoUnloads, UndoUnloads
  DEF RecoverNothing, RecoverUncommitted, RecoverCommitted, UndoFolder
<1>4. CASE EndUndo(p)
  <2>1. PICK n, a : Again(p, n) \/ Ends(p, a)
    BY <1>4 DEF EndUndo
  <2> QED  BY <1>1, <2>1, AgainUnloads, EndsUnloads
<1>5. CASE UpdateStarts(p) \/ FastForward(p) \/ UpdateEnds(p)
  BY <1>1, <1>2, <1>5, GoUnloads DEF UpdateStarts, FastForward, UpdateEnds
<1>6. CASE AlreadySaved(p) \/ MarkerInTheWay(p) \/ DaemonEnds(p) \/ NothingChanged(p)
           \/ NoConnection(p) \/ Stops(p)
  BY <1>1, <1>6, EndsUnloads
  DEF AlreadySaved, MarkerInTheWay, DaemonEnds, NothingChanged, NoConnection, Stops
<1>7. CASE SetAsideBad(p)
  <2>1. CASE UNCHANGED <<run, answer>>
    BY <1>7, <2>1 DEF SetAsideBad, ReadyToSend, At, Unloaded, Loaded, Sending
  <2> QED  BY <1>1, <1>7, <2>1, EndsUnloads DEF SetAsideBad
<1>8. CASE BeginOp(p)
  BY <1>1, <1>8 DEF BeginOp, TypeOK, Holder, Unloaded, Loaded, Sending
<1>9. CASE OpFails(p)
  BY <1>1, <1>9, UndoUnloads DEF OpFails
<1>10. CASE OpWrites(p)
  <2>1. CASE UndoThen(p, "too-large")
    BY <1>1, <2>1, UndoUnloads
  <2>2. CASE Go(p, "commit")
    BY <1>1, <1>10, <2>2, GoEffect DEF OpWrites, At, HolderKnown, Unloaded, Pcs
  <2> QED  BY <1>10, <2>1, <2>2 DEF OpWrites
<1>11. CASE Pushes(p) /\ ~IsPrefix(hub, head[p])
  BY <1>1, <1>11, UndoUnloads DEF Pushes
<1>12. CASE Hears(p) \/ AsksHub(p)
  BY <1>1, <1>12, UndoUnloads, EndsUnloads, SendOKUnloads DEF Hears, AsksHub
<1> QED  BY <1>3, <1>4, <1>5, <1>6, <1>7, <1>8, <1>9, <1>10, <1>11, <1>12 DEF HolderStep

\* ... and these three load, carry and send one.
LEMMA LoadedSteps ==
    ASSUME IInv, RefInv, NEW p \in Place,
           \/ BeginInbox(p) \/ MakesCommit(p) \/ GivesUp(p)
           \/ Pushes(p) /\ IsPrefix(hub, head[p])
    PROVE  InboxSends(p)' /\ InboxCarries(p)'
<1>1. /\ TypeOK /\ HolderKnown(p) /\ head[p] \in Seq(Commit)
      /\ InboxSends(p) /\ InboxCarries(p)
  BY PlaceTypes DEF IInv, PlaceOK, RefInv
<1>2. CASE BeginInbox(p)
  <2>1. run'[p].pc = "commit" /\ run'[p].who = run[p].who
    BY <1>1, <1>2 DEF BeginInbox, TypeOK, Holder
  <2>2. ToSend(p)' = ToSend(p) /\ ToSend(p) # {}
    BY <1>2, <2>1 DEF BeginInbox, ToSend, IsSave, Untracked
  <2> QED  BY <2>1, <2>2 DEF InboxSends, InboxCarries, Sending
<1>3. CASE MakesCommit(p)
  <2>1. run'[p].pc = "push" /\ run'[p].load = run[p].load /\ run[p].pc = "commit"
    BY <1>1, <1>3, GoEffect DEF MakesCommit, At, Pcs
  <2>2. CASE run[p].load = "inbox"
    <3>1. PICK n \in Stamp : head' = [head EXCEPT ![p] = Append(@, InboxCommit(p, n))]
      BY <1>3, <2>2 DEF MakesCommit, Fresh
    <3>2. InboxCommit(p, n) \in Commit /\ InboxCommit(p, n).drops = ToSend(p)
      BY <1>1, InboxCommitType DEF InboxCommit
    <3>3. Last(head'[p]) = InboxCommit(p, n)
      BY <1>1, <3>1, <3>2, AppendIsLonger DEF TypeOK
    <3> QED  BY <1>1, <2>1, <2>2, <3>2, <3>3 DEF InboxSends, InboxCarries
  <2> QED  BY <2>1, <2>2 DEF InboxSends, InboxCarries
<1>4. CASE GivesUp(p)
  <2>1. run'[p].pc = "ask" /\ run'[p].load = run[p].load /\ run[p].pc = "wait" /\ head' = head
    BY <1>1, <1>4, GoEffect DEF GivesUp, At, Pcs
  <2> QED  BY <1>1, <2>1 DEF InboxSends, InboxCarries, Sending
<1>5. CASE Pushes(p) /\ IsPrefix(hub, head[p])
  <2>1. Go(p, "wait") /\ head' = head /\ run[p].pc = "push"
    BY <1>5 DEF Pushes, Go, At
  <2>2. run'[p].pc = "wait" /\ run'[p].load = run[p].load
    BY <1>1, <2>1, GoEffect DEF Pcs
  <2> QED  BY <1>1, <2>1, <2>2 DEF InboxSends, InboxCarries, Sending
<1> QED  BY <1>2, <1>3, <1>4, <1>5

\* A holder changes its own place only, and the answer of its own save only.
LEMMA HolderElsewhere ==
    ASSUME IInv, NEW p \in Place,
           HolderStep(p) \/ NoConnection(p) \/ GivesUp(p) \/ Stops(p)
    PROVE  /\ hub' = hub
           /\ \A q \in Place : q # p => run'[q] = run[q] /\ head'[q] = head[q]
           /\ \A s \in Save : s # run[p].who => answer'[s] = answer[s]
           /\ \/ net' = net
              \/ Pushes(p) /\ IsPrefix(hub, head[p]) /\ net' = net \cup {[old |-> hub, new |-> head[p]]}
<1>1. CASE SetAsideBad(p)
  <2>1. CASE UNCHANGED <<run, answer>>
    BY <1>1, <2>1 DEF SetAsideBad, hubVars
  <2>2. CASE Ends(p, "too-large")
    <3>1. /\ \A q \in Place : q # p => run'[q] = run[q]
          /\ \A s \in Save : s # run[p].who => answer'[s] = answer[s]
      BY <2>2, EndsEffect DEF IInv, Answers, OthersStay
    <3> QED  BY <1>1, <3>1 DEF SetAsideBad, hubVars
  <2> QED  BY <1>1, <2>1, <2>2 DEF SetAsideBad
<1>2. CASE Pushes(p) /\ IsPrefix(hub, head[p])
  <2>1. Go(p, "wait") /\ "wait" \in Pcs
    BY <1>2 DEF Pushes, Go, Pcs
  <2>2. \A q \in Place : q # p => run'[q] = run[q]
    BY <2>1, GoEffect DEF IInv, OthersStay
  <2> QED  BY <1>2, <2>2 DEF Pushes
<1>3. CASE ~SetAsideBad(p) /\ ~(Pushes(p) /\ IsPrefix(hub, head[p]))
  BY <1>3, HolderLocal DEF StepOK, LocalStep
<1> QED  BY <1>1, <1>2, <1>3

LEMMA HolderKeepsRefInv ==
    ASSUME IInv, RefInv, NEW p \in Place,
           HolderStep(p) \/ NoConnection(p) \/ GivesUp(p) \/ Stops(p)
    PROVE  RefInv'
<1>1. ASSUME NEW q \in Place  PROVE InboxSends(q)' /\ InboxCarries(q)'
  <2>1. CASE q # p
    <3>1. disk'[q] = disk[q]
      BY <2>1, DiskElsewhereOK DEF IInv, DiskElsewhere
    <3> QED  BY <2>1, <3>1, HolderElsewhere, UntouchedPlace
  <2>2. CASE q = p
    <3>1. CASE \/ BeginInbox(p) \/ MakesCommit(p) \/ GivesUp(p)
               \/ Pushes(p) /\ IsPrefix(hub, head[p])
      BY <2>2, <3>1, LoadedSteps
    <3>2. CASE ~(\/ BeginInbox(p) \/ MakesCommit(p) \/ GivesUp(p)
                 \/ Pushes(p) /\ IsPrefix(hub, head[p]))
      BY <2>2, <3>2, UnloadedSteps DEF Unloaded, Loaded, InboxSends, InboxCarries
    <3> QED  BY <3>1, <3>2
  <2> QED  BY <2>1, <2>2
<1>2. ASSUME NEW r \in net'  PROVE RequestCarries(r)'
  <2>1. CASE r \in net
    BY <2>1 DEF RefInv, RequestCarries
  <2>2. CASE r \notin net
    <3>1. Pushes(p) /\ IsPrefix(hub, head[p]) /\ r.old = hub /\ r.new = head[p]
      BY <1>2, <2>2, HolderElsewhere
    <3>2. run[p].pc = "push" /\ run[p].pc \in Sending
      BY <3>1 DEF Pushes, At, Sending
    <3>3. /\ run[p].load \in {"inbox", "op"}
          /\ run[p].load = "op" => run[p].who \in Save /\ Last(head[p]).save = run[p].who
          /\ run[p].load = "inbox" => Last(head[p]).save = Daemon
      BY <3>2, WaitingFacts
    <3>4. Daemon \notin Save
      BY HistoryAssumption DEF HistoryAssumption
    <3>5. Last(head[p]).save = Daemon => Last(head[p]).drops # {}
      BY <3>2, <3>3, <3>4 DEF RefInv, InboxCarries
    <3>6. IsOp(Last(head[p])) => Own(hub, Last(head[p]).save) = {}
      BY <3>2, <3>3, <3>4, NotAwaiting DEF IsOp, IsSave, Awaits, Lost
    <3> QED  BY <3>1, <3>5, <3>6 DEF RequestCarries
  <2> QED  BY <2>1, <2>2
<1> QED  BY <1>1, <1>2 DEF RefInv

LEMMA RefInvStep == IInv /\ RefInv /\ [Next]_vars => RefInv'
<1> SUFFICES ASSUME IInv, RefInv, [Next]_vars  PROVE RefInv'
  OBVIOUS
<1> USE DEF hubVars, dropVars
<1>1. TypeOK
  BY DEF IInv
<1>2. ASSUME NEW p \in Place, HolderStep(p) \/ NoConnection(p) \/ GivesUp(p) \/ Stops(p)
      PROVE  RefInv'
  BY <1>2, HolderKeepsRefInv
<1>3. ASSUME net' \subseteq net, head' = head, \A q \in Place : disk[q] \subseteq disk'[q],
             \A q \in Place : \/ run'[q].pc = "recover"
                              \/ /\ run'[q].pc = run[q].pc /\ run'[q].who = run[q].who
                                 /\ run'[q].load = run[q].load
      PROVE  RefInv'
  <2>1. ASSUME NEW q \in Place  PROVE InboxSends(q)' /\ InboxCarries(q)'
    <3>1. CASE run'[q].pc = "recover"
      BY <3>1 DEF InboxSends, InboxCarries, Sending
    <3> QED  BY <1>3, <3>1, UntouchedPlace
  <2> QED  BY <1>3, <2>1 DEF RefInv, RequestCarries
<1>4. CASE UNCHANGED vars \/ NothingToDo \/ DayPasses
  BY <1>3, <1>4 DEF vars, NothingToDo, DayPasses
<1>5. ASSUME NEW d \in Drop, DropArrives(d)  PROVE RefInv'
  BY <1>1, <1>3, <1>5 DEF DropArrives, TypeOK
<1>6. ASSUME NEW s \in Save, ReadAndAsk(s) \/ LockTimesOut(s)  PROVE RefInv'
  BY <1>3, <1>6 DEF ReadAndAsk, LockTimesOut
<1>7. ASSUME NEW s \in Save, TakesLock(s)  PROVE RefInv'
  <2>1. run'[HomeOf[s]].pc = "recover" /\ OthersStay(HomeOf[s])
    BY <1>1, <1>7, StartedEffect, VaultAssumption DEF TakesLock, VaultAssumption
  <2> QED  BY <1>3, <1>7, <2>1 DEF TakesLock, OthersStay
<1>8. ASSUME NEW p \in Place, DaemonTakesLock(p)  PROVE RefInv'
  <2>1. run'[p].pc = "recover" /\ OthersStay(p)
    BY <1>1, <1>8, StartedEffect DEF DaemonTakesLock
  <2> QED  BY <1>3, <1>8, <2>1 DEF DaemonTakesLock, OthersStay
<1>9. ASSUME NEW r \in net, HubStep(r) \/ RequestLost(r)  PROVE RefInv'
  <2>1. net' \subseteq net /\ UNCHANGED <<head, disk>>
    BY <1>9 DEF HubStep, HubTakes, HubLosesRace, HubRefuses, RequestLost
  <2>2. run' = run \/ \E a \in {"ok", "race", "refused"} : Replies(r, a)
    BY <1>9 DEF HubStep, HubTakes, HubLosesRace, HubRefuses, RequestLost
  <2> QED  BY <1>1, <1>3, <2>1, <2>2, RepliesEffect
<1> QED  BY <1>2, <1>4, <1>5, <1>6, <1>7, <1>8, <1>9 DEF Next

(***************************************************************************)
(* Steps of the log                                                        *)
(***************************************************************************)
\* SharedLog reads a history as this specification does.
LEMMA SameReadings ==
    ASSUME NEW h, NEW s, NEW c
    PROVE  /\ Log!IsOp(c) <=> IsOp(c)
           /\ Log!KindOf(s) = KindOf(s)
           /\ Log!Own(h, s) = Own(h, s)
           /\ Log!SameRequest(h, s) = SameRequest(h, s)
           /\ Log!Basis(h, s) = Basis(h, s)
           /\ Log!Last(h) = Last(h)
BY DEF Log!Last, Last, Log!IsOp, IsOp, Log!KindOf, KindOf, Log!Own, Own, Log!SameRequest, SameRequest,
       Log!Basis, Basis, Log!Version, Version, Log!NextIdea, NextIdea, Log!Note, Note,
       Log!Original, Original

LEMMA Verdicts ==
    ASSUME NEW a
    PROVE  /\ a \in {"none", "asked"} => Verdict(a) = "open"
           /\ Verdict(a) = "saved" => a = "SAVED"
           /\ Verdict(a) = "refused" => a \in Definitive
           /\ Verdict(a) \in {"open", "saved", "refused", "unsettled"}
BY DEF Verdict, Definitive

\* A last line is a verdict on a save that had none; an answer that says nothing
\* yet is none.
LEMMA VerdictStep ==
    ASSUME IInv, IInv', hub' = hub,
           \/ answer' = answer
           \/ \E s \in Save : /\ answer[s] \in {"none", "asked"}
                              /\ \A t \in Save : t # s => answer'[t] = answer[t]
    PROVE  [Log!Next]_(Log!vars)
<1> DEFINE verdict == [s \in Save |-> Verdict(answer[s])]
<1>1. CASE answer' = answer
  BY <1>1 DEF Log!vars
<1>2. ASSUME NEW s \in Save, answer[s] \in {"none", "asked"},
             \A t \in Save : t # s => answer'[t] = answer[t]
      PROVE  [Log!Next]_(Log!vars)
  <2> DEFINE v == Verdict(answer'[s])
  <2>1. verdict[s] = "open"
    BY <1>2, Verdicts
  <2>2. verdict' = [verdict EXCEPT ![s] = v]
    BY <1>2
  <2>3. CASE v = "open"
    BY <2>1, <2>2, <2>3 DEF Log!vars
  <2>4. CASE v # "open"
    <3>1. v \in {"saved", "refused", "unsettled"}
      BY <2>4, Verdicts
    <3>2. v = "saved" => Log!CarriedOut(s)
      <4>1. ASSUME v = "saved"  PROVE answer'[s] = "SAVED"
        BY <4>1, Verdicts
      <4>2. ASSUME v = "saved"  PROVE OnHub(s)
        BY <1>2, <4>1, <4>2 DEF IInv, SaveOK, OnHub
      <4> QED  BY <4>2, SameReadings DEF OnHub, Log!CarriedOut
    <3>3. v = "refused" => Log!Own(hub, s) = {}
      <4>1. ASSUME v = "refused"  PROVE answer'[s] \in Definitive
        BY <4>1, Verdicts
      <4>2. (RefusedNeverLands)'
        BY RefusedLemma, PTL
      <4> QED  BY <1>2, <4>1, <4>2, SameReadings DEF RefusedNeverLands
    <3> QED  BY <1>2, <2>1, <2>2, <3>1, <3>2, <3>3 DEF Log!Next, Log!Judged
  <2> QED  BY <2>3, <2>4
<1> QED  BY <1>1, <1>2

\* What the hub takes enters the log.
LEMMA EntryStep ==
    ASSUME IInv, RefInv, NEW r \in net, HubTakes(r)
    PROVE  [Log!Next]_(Log!vars)
<1>1. hub = r.old /\ hub' = r.new /\ answer' = answer
  BY DEF HubTakes
<1>2. /\ TypeOK /\ RequestOK(r) /\ RequestCarries(r)
      /\ r.old \in Seq(Commit) /\ r.new \in Seq(Commit)
  BY RequestFacts DEF RefInv
<1>3. CASE hub' = hub
  BY <1>1, <1>3 DEF Log!vars
<1>4. CASE hub' # hub
  <2> DEFINE c == Last(r.new)
  <2>1. /\ hub = Front(r.new) /\ r.new # <<>> /\ c \in Commit
        /\ r.new = Append(hub, c)
    BY <1>1, <1>2, <1>4, FrontAndLast DEF RequestOK
  <2>2. CASE IsOp(c)
    <3>1. c.save \in Save /\ Own(r.new, c.save) # {}
      BY <1>2, <2>1, <2>2, LastIsIn DEF IsOp
    <3>2. answer[c.save] \notin Definitive
      <4>1. ASSUME answer[c.save] \in Definitive  PROVE FALSE
        <5>1. SaveOK(c.save) /\ PlaceOK(HomeOf[c.save]) /\ answer[c.save] # "asked"
          BY <3>1, <4>1, VaultAssumption DEF IInv, VaultAssumption, Definitive
        <5>2. Lost(c.save)
          BY <3>1, <4>1, <5>1 DEF SaveOK, LostOrOpen, PlaceOK, HolderKnown, IsSave
        <5> QED  BY <1>1, <3>1, <5>2 DEF Lost
      <4> QED  BY <4>1
    <3>3. Verdict(answer[c.save]) # "refused"
      BY <3>2, Verdicts
    <3>4. Own(hub, c.save) = {} /\ c.saw = Basis(hub, c.save)
      BY <1>1, <1>2, <2>1, <2>2 DEF RequestOK, RequestCarries
    <3>5. Log!SaveEnters(Last(hub'))
      BY <1>1, <2>1, <2>2, <3>1, <3>3, <3>4, SameReadings DEF Log!SaveEnters
    <3> QED  BY <1>1, <2>1, <3>5, SameReadings DEF Log!Next
  <2>3. CASE ~IsOp(c)
    <3>1. c.save = Daemon
      BY <2>1, <2>3 DEF IsOp, Commit
    <3>2. Log!FilesEnter(Last(hub'))
      BY <1>1, <1>2, <2>1, <3>1 DEF Log!FilesEnter, RequestCarries
    <3> QED  BY <1>1, <2>1, <3>2, SameReadings DEF Log!Next
  <2> QED  BY <2>2, <2>3
<1> QED  BY <1>3, <1>4

LEMMA StepImplements == IInv /\ IInv' /\ RefInv /\ [Next]_vars => [Log!Next]_(Log!vars)
<1> SUFFICES ASSUME IInv, IInv', RefInv, [Next]_vars  PROVE [Log!Next]_(Log!vars)
  OBVIOUS
<1> USE DEF hubVars, dropVars
<1>1. CASE UNCHANGED vars \/ NothingToDo \/ DayPasses \/ \E d \in Drop : DropArrives(d)
  BY <1>1, VerdictStep DEF vars, NothingToDo, DayPasses, DropArrives
<1>2. ASSUME NEW s \in Save, ReadAndAsk(s) \/ LockTimesOut(s) \/ TakesLock(s)
      PROVE  [Log!Next]_(Log!vars)
  <2>1. hub' = hub /\ answer[s] \in {"none", "asked"}
    BY <1>2 DEF ReadAndAsk, LockTimesOut, TakesLock
  <2>2. \A t \in Save : t # s => answer'[t] = answer[t]
    BY <1>2 DEF ReadAndAsk, LockTimesOut, TakesLock, IInv, TypeOK
  <2> QED  BY <2>1, <2>2, VerdictStep
<1>3. ASSUME NEW p \in Place, DaemonTakesLock(p)  PROVE [Log!Next]_(Log!vars)
  BY <1>3, VerdictStep DEF DaemonTakesLock
<1>4. ASSUME NEW p \in Place, HolderStep(p) \/ NoConnection(p) \/ GivesUp(p) \/ Stops(p)
      PROVE  [Log!Next]_(Log!vars)
  <2>1. hub' = hub /\ \A s \in Save : s # run[p].who => answer'[s] = answer[s]
    BY <1>4, HolderElsewhere
  <2>2. CASE IsSave(p)
    <3>1. run[p].who \in Save /\ answer[run[p].who] = "asked"
      BY <2>2 DEF IInv, PlaceOK, HolderKnown, IsSave
    <3> QED  BY <2>1, <3>1, VerdictStep
  <2>3. CASE ~IsSave(p)
    <3>1. \A s \in Save : answer'[s] = answer[s]
      BY <2>1, <2>3 DEF IsSave
    <3>2. answer \in [Save -> Answers] /\ answer' \in [Save -> Answers]
      BY DEF IInv, TypeOK
    <3>3. answer' = answer
      BY <3>1, <3>2
    <3> QED  BY <2>1, <3>3, VerdictStep
  <2> QED  BY <2>2, <2>3
<1>5. ASSUME NEW r \in net, HubStep(r) \/ RequestLost(r)  PROVE [Log!Next]_(Log!vars)
  <2>1. CASE HubTakes(r)
    BY <2>1, EntryStep
  <2>2. CASE HubLosesRace(r) \/ HubRefuses(r) \/ RequestLost(r)
    BY <2>2, VerdictStep DEF HubLosesRace, HubRefuses, RequestLost
  <2> QED  BY <1>5, <2>1, <2>2 DEF HubStep
<1> QED  BY <1>1, <1>2, <1>3, <1>4, <1>5 DEF Next

\* Every behaviour of places, hub, pushes under way and deaths is, seen from
\* those who save, one of the shared log with its verdicts.
THEOREM Implements == Spec => ImplementsSharedLog
<1>1. Init => Log!Init
  BY Verdicts DEF Init, Log!Init
<1>2. Init => RefInv
  BY DEF Init, RefInv, InboxSends, InboxCarries, Idle, Sending
<1>3. Spec => []RefInv
  BY <1>2, RefInvStep, Invariance, PTL DEF Spec
<1> QED  BY <1>1, <1>3, Invariance, StepImplements, PTL DEF Spec, ImplementsSharedLog, Log!Spec

(***************************************************************************)
(* What the steps of a lock holder lead to                                 *)
(***************************************************************************)
Resting == {"idle", "recover", "undo", "undone", "update", "forward"}

Moves(p) ==
    \/ UpdateStarts(p) \/ FastForward(p) \/ UpdateEnds(p)
    \/ SetAsideBad(p) \/ BeginInbox(p) \/ BeginOp(p) \/ OpWrites(p) \/ MakesCommit(p)
    \/ Pushes(p) \/ GivesUp(p) \/ Hears(p) \/ AsksHub(p)

LEMMA EndsRests ==
    ASSUME TypeOK, NEW p \in Place, NEW a, Ends(p, a)
    PROVE  run'[p].pc = "idle"
BY DEF Ends, TypeOK, Idle

LEMMA UndoRests ==
    ASSUME TypeOK, NEW p \in Place, NEW t, UndoThen(p, t)
    PROVE  run'[p].pc = "undo"
BY DEF UndoThen, TypeOK, Holder

\* Whoever does not get ahead with an attempt goes back to where nothing is at stake.
LEMMA RestingSteps ==
    ASSUME IInv, NEW p \in Place,
           HolderStep(p) \/ NoConnection(p) \/ GivesUp(p) \/ Stops(p), ~Moves(p)
    PROVE  run'[p].pc \in Resting
<1>1. TypeOK /\ {"update", "undone"} \subseteq Pcs
  BY DEF IInv, Pcs
<1>2. CASE RecoverNothing(p) \/ RecoverUncommitted(p) \/ RecoverCommitted(p) \/ UndoFolder(p)
  BY <1>1, <1>2, GoEffect, UndoRests
  DEF RecoverNothing, RecoverUncommitted, RecoverCommitted, UndoFolder, Resting
<1>3. CASE EndUndo(p)
  <2>1. PICK n, a : Again(p, n) \/ Ends(p, a)
    BY <1>3 DEF EndUndo
  <2>2. CASE Again(p, n)
    BY <1>1, <2>2 DEF Again, TypeOK, Started, Idle, Resting
  <2> QED  BY <1>1, <2>1, <2>2, EndsRests DEF Resting
<1>4. CASE AlreadySaved(p) \/ MarkerInTheWay(p) \/ DaemonEnds(p) \/ NothingChanged(p)
           \/ NoConnection(p) \/ Stops(p)
  BY <1>1, <1>4, EndsRests
  DEF AlreadySaved, MarkerInTheWay, DaemonEnds, NothingChanged, NoConnection, Stops, Resting
<1>5. CASE OpFails(p)
  BY <1>1, <1>5, UndoRests DEF OpFails, Resting
<1> QED  BY <1>2, <1>3, <1>4, <1>5 DEF HolderStep, Moves

\* Who has sent inbox files goes on to the operation, or ends, or undoes.
LEMMA AnswerSteps ==
    ASSUME IInv, NEW p \in Place, Hears(p) \/ AsksHub(p)
    PROVE  /\ UNCHANGED <<head, disk, hub, expired>>
           /\ \/ run'[p].pc \in Resting
              \/ /\ run[p].pc \in Sending /\ IsSave(p) /\ run[p].load = "inbox"
                 /\ run'[p].pc = "op" /\ run'[p].who = run[p].who
<1>1. TypeOK /\ "op" \in Pcs
  BY DEF IInv, Pcs
<1>2. ASSUME SendOK(p), run[p].pc \in Sending
      PROVE  \/ run'[p].pc \in Resting
             \/ /\ IsSave(p) /\ run[p].load = "inbox"
                /\ run'[p].pc = "op" /\ run'[p].who = run[p].who
  <2>1. (\E a : Ends(p, a)) \/ (run[p].load = "inbox" /\ IsSave(p) /\ Go(p, "op"))
    BY <1>2 DEF SendOK
  <2> QED  BY <1>1, <2>1, EndsRests, GoEffect DEF Resting
<1>3. UNCHANGED <<head, disk, hub, expired>> /\ run[p].pc \in Sending
  BY DEF Hears, AsksHub, hubVars, At, Sending
<1>4. SendOK(p) \/ (\E t : UndoThen(p, t)) \/ (\E a : Ends(p, a))
  BY DEF Hears, AsksHub
<1> QED  BY <1>1, <1>2, <1>3, <1>4, EndsRests, UndoRests DEF Resting

\* What a holder at work may do to the folder, the branch and the remote-tracking ref.
LEMMA RemoteElsewhere ==
    ASSUME IInv, NEW p \in Place,
           HolderStep(p) \/ NoConnection(p) \/ GivesUp(p) \/ Stops(p)
    PROVE  /\ \A q \in Place : q # p => remote'[q] = remote[q]
           /\ expired' = expired /\ arrived' = arrived
<1>1. TypeOK
  BY DEF IInv
<1> USE DEF hubVars, dropVars
<1>2. CASE RecoverCommitted(p) \/ UpdateStarts(p) \/ AsksHub(p)
  BY <1>1, <1>2 DEF RecoverCommitted, UpdateStarts, AsksHub, Fetch, TypeOK
<1>3. CASE \/ RecoverNothing(p) \/ RecoverUncommitted(p) \/ UndoFolder(p) \/ FastForward(p)
           \/ EndUndo(p) \/ UpdateEnds(p) \/ AlreadySaved(p) \/ SetAsideBad(p)
           \/ BeginInbox(p) \/ BeginOp(p) \/ MarkerInTheWay(p) \/ DaemonEnds(p)
  BY <1>3 DEF RecoverNothing, RecoverUncommitted, UndoFolder, FastForward, EndUndo, UpdateEnds,
              AlreadySaved, SetAsideBad, BeginInbox, BeginOp, MarkerInTheWay, DaemonEnds
<1>4. CASE \/ OpFails(p) \/ NothingChanged(p) \/ OpWrites(p) \/ MakesCommit(p) \/ Pushes(p)
           \/ Hears(p) \/ NoConnection(p) \/ GivesUp(p) \/ Stops(p)
  BY <1>4 DEF OpFails, NothingChanged, OpWrites, MakesCommit, Pushes, Hears, NoConnection,
              GivesUp, Stops
<1> QED  BY <1>2, <1>3, <1>4 DEF HolderStep

(***************************************************************************)
(* No request is carried out twice                                         *)
(***************************************************************************)
\* What the key check of the update, and the ledger in the folder, tell.
KeyFree(h, s) == Keyed(s) => \A i \in SameRequest(h, s) : i <= expired
LedgerFree(h, s) == KindOf(s) = "capture" => SameRequest(h, s) = {}

\* The version an attempt is made on is the one whose keys were looked at, and the
\* commit of the operation is made on one whose ledger was looked at.
Looked(p) ==
    /\ run[p].pc \in {"forwarded", "attempt"} => remote[p] = head[p]
    /\ IsSave(p) =>
         /\ run[p].pc \in {"op", "run", "commit"} => KeyFree(head[p], run[p].who)
         /\ run[p].pc \in Sending => KeyFree(Front(head[p]), run[p].who)
         /\ run[p].load = "op" =>
              /\ run[p].pc = "commit" => LedgerFree(head[p], run[p].who)
              /\ run[p].pc \in Sending => LedgerFree(Front(head[p]), run[p].who)

RequestLooked(r) ==
    LET s == Last(r.new).save
    IN  IsOp(Last(r.new)) => KeyFree(Front(r.new), s) /\ LedgerFree(Front(r.new), s)

OnceInv ==
    /\ \A p \in Place : Looked(p)
    /\ \A r \in net : RequestLooked(r)
    /\ DoneOnce

\* Inbox files ask for nothing.
LEMMA InboxAsksNothing ==
    ASSUME NEW h \in Seq(Commit), h # <<>>, Last(h).save = Daemon, NEW s
    PROVE  SameRequest(h, s) = SameRequest(Front(h), s)
<1>1. /\ Len(h) \in Nat \ {0} /\ DOMAIN h = 1..Len(h) /\ h[Len(h)].save = Daemon
  BY EmptySeq, LenProperties DEF Last
<1>2. /\ Front(h) \in Seq(Commit) /\ Len(Front(h)) = Len(h) - 1 /\ IsPrefix(Front(h), h)
  BY FrontAndLast
<1>3. /\ DOMAIN Front(h) = 1..(Len(h) - 1)
      /\ \A i \in 1..(Len(h) - 1) : Front(h)[i] = h[i]
  BY <1>2, LenProperties, PrefixPointwise
<1>4. ~IsOp(h[Len(h)])
  BY <1>1, HistoryAssumption DEF HistoryAssumption, IsOp
<1>5. \A i \in DOMAIN h : IsOp(h[i]) => i \in 1..(Len(h) - 1)
  BY <1>1, <1>4
<1>6. \A i \in 1..(Len(h) - 1) : i \in DOMAIN h
  BY <1>1
<1> QED  BY <1>3, <1>5, <1>6 DEF SameRequest

\* The holder of the lock, at each of its steps that get on with an attempt.
LEMMA MovesLook ==
    ASSUME IInv, OnceInv, NEW p \in Place, Moves(p)
    PROVE  Looked(p)'
<1>1. /\ TypeOK /\ PlaceOK(p) /\ Looked(p) /\ head[p] \in Seq(Commit)
      /\ {"attempt", "forwarded", "commit", "push", "wait", "ask"} \subseteq Pcs
  BY PlaceTypes DEF IInv, OnceInv, Pcs
<1> USE DEF hubVars, Sending
<1>2. ASSUME run'[p].pc \in Resting  PROVE Looked(p)'
  BY <1>2 DEF Looked, Resting
<1>3. CASE UpdateStarts(p)
  <2>1. CASE head[p] = hub
    <3>1. run'[p].pc = "attempt" /\ remote'[p] = head'[p]
      BY <1>1, <1>3, <2>1, GoEffect DEF UpdateStarts, Fetch, TypeOK
    <3> QED  BY <3>1 DEF Looked
  <2>2. CASE head[p] # hub
    <3>1. run'[p].pc = "forward"
      BY <1>1, <1>3, <2>2, GoEffect DEF UpdateStarts, Pcs
    <3> QED  BY <1>2, <3>1 DEF Resting
  <2> QED  BY <2>1, <2>2
<1>4. CASE FastForward(p) \/ UpdateEnds(p)
  <2>1. run'[p].pc \in {"attempt", "forwarded"} /\ remote'[p] = head'[p]
    BY <1>1, <1>4, GoEffect DEF FastForward, UpdateEnds, TypeOK, At, Looked
  <2> QED  BY <2>1 DEF Looked
<1>5. CASE SetAsideBad(p)
  <2>1. CASE UNCHANGED <<run, answer>>
    BY <1>1, <1>5, <2>1 DEF SetAsideBad, ReadyToSend, At, Looked
  <2>2. CASE Ends(p, "too-large")
    BY <1>1, <1>2, <2>2, EndsRests DEF Resting
  <2> QED  BY <1>5, <2>1, <2>2 DEF SetAsideBad
<1>6. CASE BeginInbox(p) \/ BeginOp(p)
  <2>1. UNCHANGED <<head, expired>>
    BY <1>6 DEF BeginInbox, BeginOp
  <2>2. /\ run'[p].who = run[p].who
        /\ \/ run'[p].pc = "commit" /\ run'[p].load = "inbox"
           \/ run'[p].pc = "run"
    BY <1>1, <1>6 DEF BeginInbox, BeginOp, TypeOK, Holder
  <2>3. ASSUME IsSave(p)  PROVE KeyFree(head[p], run[p].who)
    <3>1. CASE At(p, "op")
      BY <1>1, <2>3, <3>1 DEF Looked, At
    <3>2. CASE ReadyToSend(p)
      <4>1. remote[p] = head[p] /\ ~KeyFound(p)
        BY <1>1, <2>3, <3>2 DEF ReadyToSend, At, Looked
      <4>2. SameRequest(head[p], run[p].who) \subseteq Nat /\ expired \in Nat
        BY <1>1, LenProperties DEF SameRequest, TypeOK
      <4> QED  BY <4>1, <4>2 DEF KeyFound, KeyFree
    <3> QED  BY <1>6, <3>1, <3>2 DEF BeginInbox, BeginOp
  <2> QED  BY <2>1, <2>2, <2>3 DEF Looked, IsSave, KeyFree
<1>7. CASE OpWrites(p)
  <2>1. UNCHANGED <<head, expired>> /\ run[p].pc = "run" /\ ~InLedger(p)
    BY <1>7 DEF OpWrites, At
  <2>2. CASE UndoThen(p, "too-large")
    BY <1>1, <1>2, <2>2, UndoRests DEF Resting
  <2>3. CASE Go(p, "commit")
    <3>1. run'[p].pc = "commit" /\ run'[p].who = run[p].who
      BY <1>1, <2>3, GoEffect
    <3> QED  BY <1>1, <2>1, <3>1 DEF Looked, IsSave, KeyFree, LedgerFree, InLedger
  <2> QED  BY <1>7, <2>2, <2>3 DEF OpWrites
<1>8. CASE MakesCommit(p)
  <2>1. /\ run[p].pc = "commit" /\ run'[p].pc = "push" /\ expired' = expired
        /\ run'[p].who = run[p].who /\ run'[p].load = run[p].load
    BY <1>1, <1>8, GoEffect DEF MakesCommit, At
  <2>2. ASSUME IsSave(p)  PROVE Front(head'[p]) = head[p]
    <3>1. CASE run[p].load = "op"
      BY <1>1, <1>8, <2>2, <3>1, OpCommitType, AppendIsLonger DEF MakesCommit, TypeOK
    <3>2. CASE run[p].load # "op"
      <4>1. PICK n \in Stamp : head' = [head EXCEPT ![p] = Append(@, InboxCommit(p, n))]
        BY <1>8, <3>2 DEF MakesCommit, Fresh
      <4> QED  BY <1>1, <4>1, InboxCommitType, AppendIsLonger DEF TypeOK
    <3> QED  BY <3>1, <3>2
  <2> QED  BY <1>1, <2>1, <2>2 DEF Looked, IsSave, KeyFree, LedgerFree
<1>9. CASE Pushes(p) \/ GivesUp(p)
  <2>1. UNCHANGED <<head, expired>> /\ run[p].pc \in Sending
    BY <1>9 DEF Pushes, GivesUp, At
  <2>2. CASE UndoThen(p, "retry")
    BY <1>1, <1>2, <2>2, UndoRests DEF Resting
  <2>3. CASE Go(p, "wait") \/ Go(p, "ask")
    <3>1. run'[p].pc \in {"wait", "ask"} /\ run'[p].who = run[p].who /\ run'[p].load = run[p].load
      BY <1>1, <2>3, GoEffect
    <3> QED  BY <1>1, <2>1, <3>1 DEF Looked, IsSave, KeyFree, LedgerFree
  <2> QED  BY <1>9, <2>2, <2>3 DEF Pushes, GivesUp, Go
<1>10. CASE Hears(p) \/ AsksHub(p)
  <2>1. UNCHANGED <<head, expired>>
    BY <1>10, AnswerSteps
  <2>2. ASSUME run[p].pc \in Sending, IsSave(p), run[p].load = "inbox",
               run'[p].pc = "op", run'[p].who = run[p].who
        PROVE  Looked(p)'
    <3>1. head[p] # <<>> /\ Last(head[p]).save = Daemon
      BY <2>2, WaitingFacts DEF Ahead
    <3>2. SameRequest(head[p], run[p].who) = SameRequest(Front(head[p]), run[p].who)
      BY <1>1, <3>1, InboxAsksNothing
    <3> QED  BY <1>1, <2>1, <2>2, <3>2 DEF Looked, IsSave, KeyFree
  <2> QED  BY <1>2, <1>10, <2>2, AnswerSteps
<1> QED  BY <1>3, <1>4, <1>5, <1>6, <1>7, <1>8, <1>9, <1>10 DEF Moves

LEMMA HolderLooks ==
    ASSUME IInv, IInv', OnceInv, NEW p \in Place,
           HolderStep(p) \/ NoConnection(p) \/ GivesUp(p) \/ Stops(p)
    PROVE  OnceInv'
<1>1. /\ hub' = hub /\ expired' = expired
      /\ \A q \in Place : q # p => run'[q] = run[q] /\ head'[q] = head[q] /\ remote'[q] = remote[q]
  BY HolderElsewhere, RemoteElsewhere
<1>2. ASSUME NEW q \in Place, q # p  PROVE Looked(q)'
  BY <1>1, <1>2 DEF OnceInv, Looked, IsSave, KeyFree, LedgerFree
<1>3. Looked(p)'
  <2>1. CASE Moves(p)
    BY <2>1, MovesLook
  <2>2. CASE ~Moves(p)
    BY <2>2, RestingSteps DEF Looked, Resting, Sending
  <2> QED  BY <2>1, <2>2
<1>4. ASSUME NEW r \in net'  PROVE RequestLooked(r)'
  <2>1. CASE r \in net
    BY <1>1, <2>1 DEF OnceInv, RequestLooked, KeyFree, LedgerFree
  <2>2. CASE r \notin net
    <3>1. Pushes(p) /\ r.new = head[p]
      BY <1>4, <2>2, HolderElsewhere
    <3>2. run[p].pc \in Sending
      BY <3>1 DEF Pushes, At, Sending
    <3>3. IsOp(Last(head[p])) => IsSave(p) /\ run[p].load = "op" /\ Last(head[p]).save = run[p].who
      BY <3>2, WaitingFacts, HistoryAssumption DEF HistoryAssumption, IsOp, IsSave
    <3>4. Looked(p)
      BY DEF OnceInv
    <3> QED  BY <1>1, <3>1, <3>2, <3>3, <3>4 DEF Looked, RequestLooked, KeyFree, LedgerFree
  <2> QED  BY <2>1, <2>2
<1>5. DoneOnce'
  BY <1>1 DEF OnceInv, DoneOnce
<1> QED  BY <1>2, <1>3, <1>4, <1>5 DEF OnceInv

\* What the hub takes is nothing it has already.
LEMMA TakenOnce ==
    ASSUME IInv, OnceInv, NEW r \in net, HubTakes(r)
    PROVE  DoneOnce'
<1>1. hub = r.old /\ hub' = r.new /\ expired' = expired
  BY DEF HubTakes
<1>2. /\ RequestOK(r) /\ RequestLooked(r) /\ r.old \in Seq(Commit) /\ r.new \in Seq(Commit)
      /\ DoneOnce
  BY RequestFacts DEF OnceInv
<1>3. CASE r.old = r.new
  BY <1>1, <1>2, <1>3 DEF DoneOnce
<1>4. CASE r.old # r.new
  <2>1. r.new # <<>> /\ hub = Front(r.new)
    BY <1>1, <1>2, <1>4 DEF RequestOK
  <2>2. /\ Len(r.new) \in Nat \ {0} /\ DOMAIN r.new = 1..Len(r.new) /\ Last(r.new) = r.new[Len(r.new)]
    BY <1>2, <2>1, EmptySeq, LenProperties DEF Last
  <2>3. /\ hub \in Seq(Commit) /\ Len(hub) = Len(r.new) - 1 /\ DOMAIN hub = 1..(Len(r.new) - 1)
        /\ \A i \in DOMAIN hub : hub[i] = r.new[i]
    <3>1. hub \in Seq(Commit) /\ Len(hub) = Len(r.new) - 1 /\ IsPrefix(hub, r.new)
      BY <1>2, <2>1, FrontAndLast
    <3>2. DOMAIN hub = 1..Len(hub)
      BY <3>1, LenProperties
    <3>3. \A i \in 1..Len(hub) : hub[i] = r.new[i]
      BY <1>2, <3>1, PrefixPointwise
    <3> QED  BY <3>1, <3>2, <3>3
  <2> SUFFICES ASSUME NEW i \in DOMAIN hub', NEW j \in DOMAIN hub', i < j,
                      IsOp(hub'[i]), IsOp(hub'[j]),
                      Request[hub'[i].save] = Request[hub'[j].save], KindOf(hub'[i].save) # "commit"
               PROVE  KindOf(hub'[i].save) # "capture" /\ i <= expired
    BY <1>1 DEF DoneOnce
  <2>4. i \in DOMAIN hub /\ hub'[i] = hub[i]
    BY <1>1, <2>2, <2>3
  <2>5. CASE j \in DOMAIN hub
    BY <1>1, <1>2, <2>3, <2>4, <2>5 DEF DoneOnce
  <2>6. CASE j \notin DOMAIN hub
    <3> DEFINE s == Last(r.new).save
    <3>1. hub'[j] = Last(r.new)
      BY <1>1, <2>2, <2>3, <2>6
    <3>2. IsOp(Last(r.new)) /\ s \in Save /\ KeyFree(hub, s) /\ LedgerFree(hub, s)
      BY <1>2, <2>1, <3>1 DEF RequestLooked, IsOp
    <3>3. i \in SameRequest(hub, s) /\ KindOf(s) = KindOf(hub[i].save)
      BY <2>4, <3>1 DEF SameRequest, KindOf
    <3>4. KindOf(s) \in Kinds
      BY <3>2, HistoryAssumption DEF HistoryAssumption, KindOf
    <3>5. KindOf(s) # "capture" /\ Keyed(s)
      BY <2>4, <3>2, <3>3, <3>4 DEF LedgerFree, Keyed, Kinds
    <3> QED  BY <2>4, <3>2, <3>3, <3>5 DEF KeyFree
  <2> QED  BY <2>5, <2>6
<1> QED  BY <1>3, <1>4

LEMMA OnceStep == IInv /\ IInv' /\ OnceInv /\ [Next]_vars => OnceInv'
<1> SUFFICES ASSUME IInv, IInv', OnceInv, [Next]_vars  PROVE OnceInv'
  OBVIOUS
<1> USE DEF hubVars, dropVars
<1>1. TypeOK
  BY DEF IInv
\* Whoever acts, the lock holders stand where they stood.
<1>2. ASSUME expired' = expired, net' \subseteq net, UNCHANGED <<head, remote>>, DoneOnce',
             \A q \in Place : \/ run'[q].pc = "recover"
                              \/ /\ run'[q].pc = run[q].pc /\ run'[q].who = run[q].who
                                 /\ run'[q].load = run[q].load
      PROVE  OnceInv'
  <2>1. ASSUME NEW q \in Place  PROVE Looked(q)'
    <3>1. CASE run'[q].pc = "recover"
      BY <3>1 DEF Looked, Sending
    <3>2. CASE run'[q].pc # "recover"
      BY <1>2, <3>2 DEF OnceInv, Looked, IsSave, KeyFree, LedgerFree
    <3> QED  BY <3>1, <3>2
  <2>2. ASSUME NEW r \in net'  PROVE RequestLooked(r)'
    BY <1>2 DEF OnceInv, RequestLooked, KeyFree, LedgerFree
  <2> QED  BY <1>2, <2>1, <2>2 DEF OnceInv
<1>3. hub' = hub /\ expired' = expired => DoneOnce'
  BY DEF OnceInv, DoneOnce
<1>4. CASE UNCHANGED vars \/ NothingToDo \/ \E d \in Drop : DropArrives(d)
  BY <1>2, <1>3, <1>4 DEF vars, NothingToDo, DropArrives
<1>5. CASE \E s \in Save : ReadAndAsk(s) \/ LockTimesOut(s)
  BY <1>2, <1>3, <1>5 DEF ReadAndAsk, LockTimesOut
<1>6. ASSUME NEW s \in Save, TakesLock(s)  PROVE OnceInv'
  <2>1. run'[HomeOf[s]].pc = "recover" /\ OthersStay(HomeOf[s])
    BY <1>1, <1>6, StartedEffect, VaultAssumption DEF TakesLock, VaultAssumption
  <2> QED  BY <1>2, <1>3, <1>6, <2>1 DEF TakesLock, OthersStay
<1>7. ASSUME NEW p \in Place, DaemonTakesLock(p)  PROVE OnceInv'
  <2>1. run'[p].pc = "recover" /\ OthersStay(p)
    BY <1>1, <1>7, StartedEffect DEF DaemonTakesLock
  <2> QED  BY <1>2, <1>3, <1>7, <2>1 DEF DaemonTakesLock, OthersStay
<1>8. ASSUME NEW p \in Place, HolderStep(p) \/ NoConnection(p) \/ GivesUp(p) \/ Stops(p)
      PROVE  OnceInv'
  BY <1>8, HolderLooks
<1>9. CASE DayPasses
  <2>1. expired' > expired /\ expired \in Nat /\ expired' \in Nat /\ UNCHANGED <<hub, net, head, remote, run>>
    BY <1>1, <1>9, LenProperties DEF DayPasses, TypeOK
  <2>2. ASSUME NEW h \in Seq(Commit), NEW s, KeyFree(h, s)  PROVE KeyFree(h, s)'
    <3>1. SameRequest(h, s) \subseteq Nat
      BY LenProperties DEF SameRequest
    <3> QED  BY <2>1, <2>2, <3>1 DEF KeyFree
  <2>3. ASSUME NEW q \in Place  PROVE Looked(q)'
    <3>1. Looked(q) /\ head[q] \in Seq(Commit) /\ (run[q].pc \in Sending => Front(head[q]) \in Seq(Commit))
      BY PlaceTypes, WaitingFacts, FrontAndLast DEF IInv, OnceInv, Ahead
    <3>2. UNCHANGED <<head[q], remote[q], run[q]>>
      BY <2>1
    <3>3. KeyFree(head[q], run[q].who) => KeyFree(head[q], run[q].who)'
      BY <2>2, <3>1, <3>2 DEF KeyFree
    <3>4. run[q].pc \in Sending /\ KeyFree(Front(head[q]), run[q].who)
            => KeyFree(Front(head[q]), run[q].who)'
      BY <2>2, <3>1, <3>2 DEF KeyFree
    <3> QED  BY <3>1, <3>2, <3>3, <3>4 DEF Looked, IsSave, LedgerFree
  <2>4. ASSUME NEW r \in net'  PROVE RequestLooked(r)'
    <3>1. r \in net /\ RequestLooked(r) /\ Front(r.new) \in Seq(Commit)
      BY <2>1, <2>4, RequestFacts, FrontAndLast DEF OnceInv, RequestOK
    <3> QED  BY <2>2, <3>1 DEF RequestLooked, LedgerFree
  <2>5. DoneOnce'
    <3>1. DOMAIN hub \subseteq Nat
      BY <1>1, LenProperties DEF TypeOK
    <3> QED  BY <2>1, <3>1 DEF OnceInv, DoneOnce
  <2> QED  BY <2>3, <2>4, <2>5 DEF OnceInv
<1>10. ASSUME NEW r \in net, HubStep(r) \/ RequestLost(r)  PROVE OnceInv'
  <2>1. net' \subseteq net /\ UNCHANGED <<head, remote, expired>>
    BY <1>10 DEF HubStep, HubTakes, HubLosesRace, HubRefuses, RequestLost
  <2>2. run' = run \/ \E a \in {"ok", "race", "refused"} : Replies(r, a)
    BY <1>10 DEF HubStep, HubTakes, HubLosesRace, HubRefuses, RequestLost
  <2>3. DoneOnce'
    <3>1. CASE HubTakes(r)
      BY <3>1, TakenOnce
    <3>2. CASE HubLosesRace(r) \/ HubRefuses(r) \/ RequestLost(r)
      BY <1>3, <3>2 DEF HubLosesRace, HubRefuses, RequestLost
    <3> QED  BY <1>10, <3>1, <3>2 DEF HubStep
  <2> QED  BY <1>1, <1>2, <2>1, <2>2, <2>3, RepliesEffect
<1> QED  BY <1>4, <1>5, <1>6, <1>7, <1>8, <1>9, <1>10 DEF Next

\* No request is carried out twice: a capture never, a publish or an ingest not
\* within 24 hours, however often an agent repeats a command whose answer was lost
\* and whichever place it repeats it in (the key check of attempt, save.go, and the
\* ledger of RecordCapture).
THEOREM RequestsAreDoneOnce == Spec => []DoneOnce
<1>1. Init => OnceInv
  BY DEF Init, OnceInv, Looked, Idle, Sending, DoneOnce
<1>2. OnceInv => DoneOnce
  BY DEF OnceInv
<1> QED  BY <1>1, <1>2, OnceStep, Invariance, PTL DEF Spec

(***************************************************************************)
(* No inbox file is lost                                                   *)
(***************************************************************************)
\* An ingest reads its source only when the hub has it, or when it is not there.
SourceSent(p) ==
    IsSave(p) /\ KindOf(run[p].who) = "ingest" =>
        LET d == Note(run[p].who)
        IN  /\ run[p].pc = "op" => d \in Sent(head[p])
            /\ run[p].pc = "run" => (d \in disk[p] => d \in Sent(head[p]))
            /\ run[p].pc \in Sending /\ run[p].load = "inbox" => d \in Last(head[p]).drops

\* What is to be ingested has arrived; it does not arrive again.
SourceKnown(s) == answer[s] # "none" /\ KindOf(s) = "ingest" => Note(s) \in arrived

KeptInv ==
    /\ \A p \in Place : SourceSent(p)
    /\ \A s \in Save : SourceKnown(s)
    /\ DropKept

LEMMA SentOfPrefix ==
    ASSUME NEW g \in Seq(Commit), NEW h \in Seq(Commit), IsPrefix(g, h)
    PROVE  Sent(g) \subseteq Sent(h) /\ InTree(g) \subseteq Sent(h)
<1>1. DOMAIN g = 1..Len(g) /\ DOMAIN h = 1..Len(h) /\ Len(g) \in Nat /\ Len(h) \in Nat
  BY LenProperties
<1>2. Len(g) <= Len(h) /\ \A i \in 1..Len(g) : g[i] = h[i]
  BY PrefixPointwise
<1>3. \A i \in DOMAIN g : i \in DOMAIN h /\ g[i] = h[i]
  BY <1>1, <1>2
<1>4. InTree(g) \subseteq Sent(g)
  BY DEF InTree, Sent
<1> QED  BY <1>3, <1>4 DEF Sent

LEMMA SentAtLast ==
    ASSUME NEW h \in Seq(Commit), h # <<>>, NEW d \in Drop, d \in Last(h).drops
    PROVE  d \in Sent(h)
<1>1. Len(h) \in Nat \ {0} /\ DOMAIN h = 1..Len(h)
  BY EmptySeq, LenProperties
<1>2. Len(h) \in DOMAIN h /\ d \in h[Len(h)].drops
  BY <1>1 DEF Last
<1> QED  BY <1>2 DEF Sent

\* The note of an ingest is an inbox file.
LEMMA SourceIsDrop == ASSUME NEW s \in Save, KindOf(s) = "ingest" PROVE Note(s) \in Drop
BY HistoryAssumption DEF HistoryAssumption, KindOf, Note

\* A holder takes from its folder only what is aside or on the hub.
LEMMA HolderKeepsFiles ==
    ASSUME IInv, KeptInv, NEW p \in Place,
           HolderStep(p) \/ NoConnection(p) \/ GivesUp(p) \/ Stops(p)
    PROVE  /\ aside \subseteq aside'
           /\ \A q \in Place : disk[q] \subseteq disk'[q] \cup aside' \cup Sent(hub)
<1>1. /\ TypeOK /\ PlaceOK(p) /\ SourceSent(p)
      /\ \A q \in Place : q # p => disk'[q] = disk[q]
  BY DiskElsewhereOK DEF IInv, KeptInv, DiskElsewhere
<1> USE DEF hubVars, dropVars
<1>2. CASE UndoFolder(p) \/ SetAsideBad(p)
  BY <1>1, <1>2 DEF UndoFolder, SetAsideBad, TypeOK
<1>3. CASE FastForward(p)
  <2>1. aside' = aside /\ disk'[p] = (disk[p] \ InTree(head[p])) \cup InTree(remote[p])
    BY <1>1, <1>3 DEF FastForward, TypeOK
  <2>2. IsPrefix(head[p], hub) /\ head[p] \in Seq(Commit) /\ hub \in Seq(Commit)
    BY <1>1, <1>3, PlaceTypes DEF FastForward, At, PlaceOK, BranchFits, Settled
  <2>3. InTree(head[p]) \subseteq Sent(hub)
    BY <2>2, SentOfPrefix
  <2>4. disk[p] \subseteq disk'[p] \cup Sent(hub)
    BY <2>1, <2>3
  <2> QED  BY <1>1, <2>1, <2>4
<1>4. CASE OpWrites(p)
  <2>1. aside' = aside /\ run[p].pc = "run" /\ IsSave(p)
    BY <1>1, <1>4 DEF OpWrites, At, PlaceOK, HolderKnown
  <2>2. CASE KindOf(run[p].who) # "ingest"
    BY <1>4, <2>1, <2>2 DEF OpWrites
  <2>3. CASE KindOf(run[p].who) = "ingest"
    <3>1. disk'[p] = disk[p] \ {Note(run[p].who)} /\ Note(run[p].who) \in disk[p]
      BY <1>1, <1>4, <2>3 DEF OpWrites, SourceGone, TypeOK
    <3>2. IsPrefix(head[p], hub) /\ head[p] \in Seq(Commit) /\ hub \in Seq(Commit)
      BY <1>1, <2>1, PlaceTypes DEF PlaceOK, BranchFits, Settled
    <3>3. Note(run[p].who) \in Sent(hub)
      BY <1>1, <2>1, <2>3, <3>1, <3>2, SentOfPrefix DEF SourceSent
    <3> QED  BY <1>1, <2>1, <3>1, <3>3
  <2> QED  BY <2>2, <2>3
<1>5. CASE \/ RecoverNothing(p) \/ RecoverUncommitted(p) \/ RecoverCommitted(p)
           \/ EndUndo(p) \/ UpdateStarts(p) \/ UpdateEnds(p) \/ AlreadySaved(p)
           \/ BeginInbox(p) \/ BeginOp(p) \/ MarkerInTheWay(p) \/ DaemonEnds(p)
  BY <1>5 DEF RecoverNothing, RecoverUncommitted, RecoverCommitted, EndUndo, UpdateStarts,
              UpdateEnds, AlreadySaved, BeginInbox, BeginOp, MarkerInTheWay, DaemonEnds
<1>6. CASE \/ OpFails(p) \/ NothingChanged(p) \/ MakesCommit(p) \/ Pushes(p)
           \/ Hears(p) \/ AsksHub(p) \/ NoConnection(p) \/ GivesUp(p) \/ Stops(p)
  BY <1>6 DEF OpFails, NothingChanged, MakesCommit, Pushes, Hears, AsksHub, NoConnection,
              GivesUp, Stops
<1> QED  BY <1>2, <1>3, <1>4, <1>5, <1>6 DEF HolderStep

LEMMA MovesSend ==
    ASSUME IInv, RefInv, KeptInv, NEW p \in Place, Moves(p)
    PROVE  SourceSent(p)'
<1>1. /\ TypeOK /\ PlaceOK(p) /\ SourceSent(p) /\ head[p] \in Seq(Commit)
      /\ {"attempt", "forwarded", "commit", "push", "wait", "ask"} \subseteq Pcs
  BY PlaceTypes DEF IInv, KeptInv, Pcs
<1> USE DEF hubVars, Sending
<1>2. ASSUME run'[p].pc \in Resting \cup {"attempt", "forwarded", "commit"}  PROVE SourceSent(p)'
  BY <1>2 DEF SourceSent, Resting
<1>3. CASE UpdateStarts(p) \/ FastForward(p) \/ UpdateEnds(p)
  <2>1. "forward" \in Pcs
    BY DEF Pcs
  <2>2. run'[p].pc \in {"attempt", "forward", "forwarded"}
    BY <1>1, <1>3, <2>1, GoEffect DEF UpdateStarts, FastForward, UpdateEnds
  <2> QED  BY <1>2, <2>2 DEF Resting
<1>4. CASE SetAsideBad(p)
  <2>1. CASE UNCHANGED <<run, answer>>
    BY <1>2, <1>4, <2>1 DEF SetAsideBad, ReadyToSend, At
  <2>2. CASE Ends(p, "too-large")
    BY <1>1, <1>2, <2>2, EndsRests DEF Resting
  <2> QED  BY <1>4, <2>1, <2>2 DEF SetAsideBad
<1>5. CASE BeginInbox(p)
  BY <1>1, <1>2, <1>5 DEF BeginInbox, TypeOK, Holder
<1>6. CASE BeginOp(p)
  <2>1. run'[p].who = run[p].who /\ run'[p].pc = "run" /\ UNCHANGED <<head, disk>> /\ IsSave(p)
    BY <1>1, <1>6 DEF BeginOp, TypeOK, Holder
  <2>2. ASSUME KindOf(run[p].who) = "ingest", Note(run[p].who) \in disk[p]
        PROVE  Note(run[p].who) \in Sent(head[p])
    <3>1. CASE At(p, "op")
      BY <1>1, <2>1, <2>2, <3>1 DEF SourceSent, At
    <3>2. CASE ToSend(p) = {}
      <4>1. Note(run[p].who) \in InTree(head[p])
        BY <2>1, <2>2, <3>2 DEF ToSend, Untracked
      <4> QED  BY <1>1, <4>1, SentOfPrefix, PrefixReflexive
    <3> QED  BY <1>6, <3>1, <3>2 DEF BeginOp
  <2> QED  BY <2>1, <2>2 DEF SourceSent, IsSave
<1>7. CASE OpWrites(p)
  BY <1>1, <1>2, <1>7, GoEffect, UndoRests DEF OpWrites, Resting
<1>8. CASE MakesCommit(p)
  <2>1. /\ run[p].pc = "commit" /\ run'[p].pc = "push"
        /\ run'[p].who = run[p].who /\ run'[p].load = run[p].load
    BY <1>1, <1>8, GoEffect DEF MakesCommit, At
  <2>2. ASSUME IsSave(p), KindOf(run[p].who) = "ingest", run[p].load = "inbox"
        PROVE  Note(run[p].who) \in Last(head'[p]).drops
    <3>1. PICK n \in Stamp : head' = [head EXCEPT ![p] = Append(@, InboxCommit(p, n))]
      BY <1>8, <2>2 DEF MakesCommit, Fresh
    <3>2. InboxCommit(p, n) \in Commit /\ InboxCommit(p, n).drops = ToSend(p)
      BY <1>1, InboxCommitType DEF InboxCommit
    <3>3. Last(head'[p]) = InboxCommit(p, n)
      BY <1>1, <3>1, <3>2, AppendIsLonger DEF TypeOK
    <3>4. ToSend(p) # {} /\ ToSend(p) \subseteq {Note(run[p].who)}
      BY <2>1, <2>2 DEF RefInv, InboxSends, ToSend
    <3> QED  BY <3>2, <3>3, <3>4
  <2> QED  BY <2>1, <2>2 DEF SourceSent, IsSave
<1>9. CASE Pushes(p) \/ GivesUp(p)
  <2>1. UNCHANGED head /\ run[p].pc \in Sending
    BY <1>9 DEF Pushes, GivesUp, At
  <2>2. CASE UndoThen(p, "retry")
    BY <1>1, <1>2, <2>2, UndoRests DEF Resting
  <2>3. CASE Go(p, "wait") \/ Go(p, "ask")
    <3>1. run'[p].pc \in {"wait", "ask"} /\ run'[p].who = run[p].who /\ run'[p].load = run[p].load
      BY <1>1, <2>3, GoEffect
    <3> QED  BY <1>1, <2>1, <3>1 DEF SourceSent, IsSave
  <2> QED  BY <1>9, <2>2, <2>3 DEF Pushes, GivesUp, Go
<1>10. CASE Hears(p) \/ AsksHub(p)
  <2>1. UNCHANGED head
    BY <1>10, AnswerSteps
  <2>2. ASSUME run[p].pc \in Sending, IsSave(p), run[p].load = "inbox",
               run'[p].pc = "op", run'[p].who = run[p].who
        PROVE  SourceSent(p)'
    <3>1. head[p] # <<>>
      BY <2>2, WaitingFacts DEF Ahead
    <3>2. ASSUME KindOf(run[p].who) = "ingest"  PROVE Note(run[p].who) \in Sent(head[p])
      BY <1>1, <2>2, <3>1, <3>2, SourceIsDrop, SentAtLast DEF SourceSent, IsSave
    <3> QED  BY <2>1, <2>2, <3>2 DEF SourceSent, IsSave
  <2> QED  BY <1>2, <1>10, <2>2, AnswerSteps
<1> QED  BY <1>3, <1>4, <1>5, <1>6, <1>7, <1>8, <1>9, <1>10 DEF Moves

LEMMA HolderKeepsDrops ==
    ASSUME IInv, RefInv, KeptInv, NEW p \in Place,
           HolderStep(p) \/ NoConnection(p) \/ GivesUp(p) \/ Stops(p)
    PROVE  KeptInv'
<1>1. /\ hub' = hub /\ arrived' = arrived /\ TypeOK /\ HolderKnown(p)
      /\ \A q \in Place : q # p => run'[q] = run[q] /\ head'[q] = head[q] /\ disk'[q] = disk[q]
      /\ \A s \in Save : s # run[p].who => answer'[s] = answer[s]
  BY HolderElsewhere, RemoteElsewhere, DiskElsewhereOK DEF IInv, PlaceOK, DiskElsewhere
<1>2. ASSUME NEW q \in Place, q # p  PROVE SourceSent(q)'
  BY <1>1, <1>2 DEF KeptInv, SourceSent, IsSave
<1>3. SourceSent(p)'
  <2>1. CASE Moves(p)
    BY <2>1, MovesSend
  <2>2. CASE ~Moves(p)
    BY <2>2, RestingSteps DEF SourceSent, Resting, Sending
  <2> QED  BY <2>1, <2>2
<1>4. ASSUME NEW s \in Save  PROVE SourceKnown(s)'
  <2>1. answer[s] = "none" => answer'[s] = "none"
    BY <1>1 DEF HolderKnown, IsSave
  <2> QED  BY <1>1, <2>1 DEF KeptInv, SourceKnown
<1>5. DropKept'
  <2>1. \A d \in arrived : d \in Drop /\ DropAt[d] \in Place
    BY <1>1, VaultAssumption DEF VaultAssumption, TypeOK
  <2> QED  BY <1>1, <2>1, HolderKeepsFiles DEF KeptInv, DropKept
<1> QED  BY <1>2, <1>3, <1>4, <1>5 DEF KeptInv

LEMMA KeptStep == IInv /\ RefInv /\ KeptInv /\ [Next]_vars => KeptInv'
<1> SUFFICES ASSUME IInv, RefInv, KeptInv, [Next]_vars  PROVE KeptInv'
  OBVIOUS
<1> USE DEF hubVars, dropVars
<1>1. TypeOK
  BY DEF IInv
\* Whoever acts, the lock holders stand where they stood and no file goes.
<1>2. ASSUME hub' = hub \/ (hub' \in Seq(Commit) /\ IsPrefix(hub, hub')),
             arrived' = arrived, aside' = aside, UNCHANGED <<head, disk>>,
             \A s \in Save : SourceKnown(s)',
             \A q \in Place : \/ run'[q].pc = "recover"
                              \/ /\ run'[q].pc = run[q].pc /\ run'[q].who = run[q].who
                                 /\ run'[q].load = run[q].load
      PROVE  KeptInv'
  <2>1. ASSUME NEW q \in Place  PROVE SourceSent(q)'
    <3>1. CASE run'[q].pc = "recover"
      BY <3>1 DEF SourceSent, Sending
    <3>2. CASE run'[q].pc # "recover"
      BY <1>2, <3>2 DEF KeptInv, SourceSent, IsSave
    <3> QED  BY <3>1, <3>2
  <2>2. Sent(hub) \subseteq Sent(hub')
    BY <1>1, <1>2, SentOfPrefix DEF TypeOK
  <2>3. DropKept'
    BY <1>2, <2>2 DEF KeptInv, DropKept
  <2> QED  BY <1>2, <2>1, <2>3 DEF KeptInv
<1>3. answer' = answer /\ arrived' = arrived => \A s \in Save : SourceKnown(s)'
  BY DEF KeptInv, SourceKnown
<1>4. CASE UNCHANGED vars \/ NothingToDo \/ DayPasses
  BY <1>2, <1>3, <1>4 DEF vars, NothingToDo, DayPasses
<1>5. ASSUME NEW d \in Drop, DropArrives(d)  PROVE KeptInv'
  <2>1. /\ d \notin arrived /\ arrived' = arrived \cup {d} /\ DropAt[d] \in Place
        /\ UNCHANGED <<hub, head, aside, run, answer>>
        /\ disk' = [disk EXCEPT ![DropAt[d]] = @ \cup {d}]
    BY <1>5, VaultAssumption DEF DropArrives, VaultAssumption
  <2>2. \A q \in Place : disk[q] \subseteq disk'[q] /\ disk'[q] \subseteq disk[q] \cup {d}
    BY <1>1, <2>1 DEF TypeOK
  <2>3. d \in disk'[DropAt[d]]
    BY <1>1, <2>1 DEF TypeOK
  <2>4. ASSUME NEW q \in Place  PROVE SourceSent(q)'
    <3>1. ASSUME IsSave(q), KindOf(run[q].who) = "ingest"  PROVE Note(run[q].who) # d
      <4>1. run[q].who \in Save /\ answer[run[q].who] = "asked"
        BY <3>1 DEF IInv, PlaceOK, HolderKnown, IsSave
      <4> QED  BY <2>1, <3>1, <4>1 DEF KeptInv, SourceKnown
    <3> QED  BY <2>1, <2>2, <3>1 DEF KeptInv, SourceSent, IsSave
  <2>5. \A s \in Save : SourceKnown(s)'
    BY <2>1 DEF KeptInv, SourceKnown
  <2>6. DropKept'
    <3>1. \A e \in arrived : DropAt[e] \in Place
      BY <1>1, VaultAssumption DEF VaultAssumption, TypeOK
    <3> QED  BY <2>1, <2>2, <2>3, <3>1 DEF KeptInv, DropKept
  <2> QED  BY <2>4, <2>5, <2>6 DEF KeptInv
<1>6. ASSUME NEW s \in Save, ReadAndAsk(s) \/ LockTimesOut(s)  PROVE KeptInv'
  <2>1. /\ \A t \in Save : t # s => answer'[t] = answer[t]
        /\ UNCHANGED <<hub, arrived, aside, head, disk, run>>
        /\ KindOf(s) = "ingest" /\ answer[s] = "none" => Note(s) \in arrived
    BY <1>1, <1>6 DEF ReadAndAsk, LockTimesOut, TypeOK
  <2>2. \A t \in Save : SourceKnown(t)'
    BY <2>1 DEF KeptInv, SourceKnown
  <2> QED  BY <1>2, <2>1, <2>2
<1>7. ASSUME NEW s \in Save, TakesLock(s)  PROVE KeptInv'
  <2>1. run'[HomeOf[s]].pc = "recover" /\ OthersStay(HomeOf[s])
    BY <1>1, <1>7, StartedEffect, VaultAssumption DEF TakesLock, VaultAssumption
  <2> QED  BY <1>2, <1>3, <1>7, <2>1 DEF TakesLock, OthersStay
<1>8. ASSUME NEW p \in Place, DaemonTakesLock(p)  PROVE KeptInv'
  <2>1. run'[p].pc = "recover" /\ OthersStay(p)
    BY <1>1, <1>8, StartedEffect DEF DaemonTakesLock
  <2> QED  BY <1>2, <1>3, <1>8, <2>1 DEF DaemonTakesLock, OthersStay
<1>9. ASSUME NEW p \in Place, HolderStep(p) \/ NoConnection(p) \/ GivesUp(p) \/ Stops(p)
      PROVE  KeptInv'
  BY <1>9, HolderKeepsDrops
<1>10. ASSUME NEW r \in net, HubStep(r) \/ RequestLost(r)  PROVE KeptInv'
  <2>1. UNCHANGED <<head, disk, arrived, aside, answer>>
    BY <1>10 DEF HubStep, HubTakes, HubLosesRace, HubRefuses, RequestLost
  <2>2. run' = run \/ \E a \in {"ok", "race", "refused"} : Replies(r, a)
    BY <1>10 DEF HubStep, HubTakes, HubLosesRace, HubRefuses, RequestLost
  <2>3. hub' = hub \/ (hub' \in Seq(Commit) /\ IsPrefix(hub, hub'))
    BY <1>10, RequestFacts DEF HubStep, HubTakes, HubLosesRace, HubRefuses, RequestLost
  <2> QED  BY <1>1, <1>2, <1>3, <2>1, <2>2, <2>3, RepliesEffect
<1> QED  BY <1>4, <1>5, <1>6, <1>7, <1>8, <1>9, <1>10 DEF Next

\* A file that was put into an inbox is in that folder, in quarantine, or in the
\* shared history, at every moment: an ingest, which deletes its source, has sent it
\* before, and an update removes only what the hub has (IngestFile, inboxStep and
\* fastForward of package vaultsync).
THEOREM InboxFilesAreKept == Spec => []DropKept
<1>1. Init => RefInv /\ KeptInv
  BY DEF Init, RefInv, InboxSends, InboxCarries, KeptInv, SourceSent, SourceKnown, DropKept,
         IsSave, Idle, Sending
<1>2. KeptInv => DropKept
  BY DEF KeptInv
<1> QED  BY <1>1, <1>2, RefInvStep, KeptStep, Invariance, PTL DEF Spec
=============================================================================
