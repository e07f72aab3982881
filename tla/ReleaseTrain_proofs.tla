-------------------------- MODULE ReleaseTrain_proofs --------------------------
(***************************************************************************)
(* What ReleaseTrain keeps, and that it implements Delivery, proved for    *)
(* any set of features and any bounds. A ship does not outlive its release *)
(* (no late_ship); where it says so, one process promotes and cleans up.   *)
(***************************************************************************)
EXTENDS ReleaseTrain, TLAPS

(***************************************************************************)
(* The parts of the inductive invariant                                    *)
(***************************************************************************)
Entries == [st : {"none", "open", "shipped", "promoted"}, v : 0..MaxVersion]
Contents == [feats : SUBSET Feature, hot : 0..MaxHot]
Releases == [v : 0..MaxVersion, up : BOOLEAN, head : Commit, fin : BOOLEAN, pushed : BOOLEAN,
             origin : Commit]
Requests == [st : {"none", "open", "merged", "closed"}, head : Commit, gated : BOOLEAN]
Freezings == [on : BOOLEAN, pushed : BOOLEAN, head : Commit]
Ships == [pc : {"idle", "gate1", "want", "gate"}, v : 0..MaxVersion, pre : Commit]
Promotes == [pc : {"idle", "start", "frozen", "gated", "pushed", "watch", "guard", "finalize",
                   "push2", "merge", "adopt", "strand", "sweep", "remove", "commit", "unfreeze"},
             v : 0..MaxVersion, babysit : BOOLEAN, pushed : Commit, seen : Nat]

Shape ==
    /\ main \in Commit /\ tracked \in Commit
    /\ here \in [at : Commit, cat : [Feature -> Entries], st : {"clean", "dirty", "ahead"}]
    /\ rel \in Releases /\ pr \in Requests
    /\ freeze \in [Version -> Freezings]
    /\ lock \in Worker \cup {NoOne}
    /\ ship \in [Worker -> Ships] /\ promote \in [Promoter -> Promotes]
    /\ branch \subseteq Feature /\ told \subseteq Feature
    /\ accepted \in Contents /\ left \subseteq Contents
    /\ gated \in [content : Contents, pushed : BOOLEAN]
    /\ tries \in Nat /\ faults \in Nat

\* The lock is held by the ship that gates the combined tree, and nobody else.
LockInv == \A w \in Worker : (ship[w].pc = "gate") = (lock = w)

\* A release that is there has a number, and every ship at work is for it.
OwnRelease ==
    /\ rel.up => rel.v > 0
    /\ \A w \in Worker : ship[w].pc # "idle" => ship[w].v = rel.v

\* What a ship goes back to is what it found, and its feature is in the merge it gates.
GateInv ==
    \A w \in Worker : ship[w].pc = "gate" =>
        /\ Content(ship[w].pre) \in Standing
        /\ w \in Feature => w \in rel.head.feats

\* What a commit calls shipped or promoted it carries.
Out(e) == e.st \in {"shipped", "promoted"}
Carries(c) == \A f \in Feature : Out(c.cat[f]) => f \in c.feats
CarryInv ==
    /\ Carries(main) /\ Carries(rel.head) /\ Carries(rel.origin)
    /\ \A w \in Worker : Carries(ship[w].pre)
    /\ \A f \in Feature : Out(here.cat[f]) => f \in main.feats

\* What depends on the lock, the ships and the content of the release head.
Core == LockInv /\ OwnRelease /\ GateInv /\ HeadIsVerified

IInv == Shape /\ Core /\ CarryInv /\ CodeKept

\* No ship outlives the release that it was started for.
NoLateShip == "late_ship" \notin Liberties

\* The promote between its freeze and its last push: nobody else holds the release.
Frozen(p) == promote[p].pc \in {"frozen", "gated", "pushed", "watch", "guard", "finalize", "push2"}
FreezeInv ==
    \A p \in Promoter :
        /\ promote[p].pc \in {"start", "merge"} \/ Frozen(p) => rel.up /\ promote[p].v = rel.v
        /\ Frozen(p) => lock = NoOne /\ freeze[rel.v].on
        /\ Frozen(p) /\ promote[p].pc # "frozen" => Content(rel.head) = gated.content
        /\ Frozen(p) /\ promote[p].pc \notin {"frozen", "gated"} => gated.pushed

\* A request that is open asks for a tree that was gated.
RequestInv == pr.st = "open" => gated.pushed

\* What a babysitting promote has seen of main is in what it will merge.
FreshInv ==
    \A p \in Promoter :
        /\ promote[p].pc = "guard" => main.hot >= promote[p].seen
        /\ faults = 0 /\ promote[p].pc \in {"finalize", "push2"} => rel.head.hot >= promote[p].seen
        /\ faults = 0 /\ promote[p].pc = "merge" => rel.origin.hot >= promote[p].seen
        /\ promote[p].pc \notin {"guard", "finalize", "push2", "merge"} => promote[p].seen = 0

GInv == FreezeInv /\ RequestInv /\ MainIsGated /\ FreshInv

\* One process promotes and cleans up.
Alone == \A p, q \in Promoter : p = q

(***************************************************************************)
(* The second invariant: where a feature is that was answered              *)
(***************************************************************************)
\* Features whose ships were answered with success and that main does not carry yet.
Late == told \ main.feats
OnTrain(f) == rel.up /\ rel.head.cat[f].st = "shipped"
Idle == \A w \in Worker : ship[w].pc = "idle"

\* The main checkout has changes or it is as committed; it reopens, never closes.
HereOK ==
    /\ here.st # "ahead"
    /\ here.st = "clean" => here.cat = here.at.cat
    /\ \A f \in Feature : here.at.cat[f] = Open => here.cat[f] = Open

AtMain == \A p \in Promoter :
    promote[p].pc \in {"strand", "sweep", "remove", "commit"} => here.at = main

\* The request stays open while the promote is at it.
RequestOK ==
    /\ pr.st = "open" => rel.up /\ rel.pushed
    /\ \A p \in Promoter :
         /\ promote[p].pc \in {"watch", "guard", "finalize", "push2", "merge"} => pr.st = "open"
         /\ promote[p].pc \in {"push2", "merge"} => rel.fin

\* The head that a cleanup takes for the merged one did merge.
MergedOK ==
    /\ pr.st = "merged" \/ rel.pushed => rel.v > 0
    /\ pr.st = "merged" => pr.head.feats \subseteq main.feats
    /\ pr.st = "merged" /\ freeze[rel.v].pushed =>
         \/ freeze[rel.v].head.feats \subseteq main.feats
         \/ \E p \in Promoter : promote[p].pc = "pushed"
    /\ freeze[rel.v].pushed /\ rel.pushed => freeze[rel.v].head = rel.origin
    /\ \A v \in Version : v > rel.v => ~freeze[v].pushed

\* A cleanup is of the release that merged. When the next one was begun meanwhile,
\* no ship has landed on that one yet.
CleaningOK == \A p \in Promoter : Cleaning(p) =>
    /\ promote[p].v \in 1..rel.v
    /\ promote[p].v = rel.v => pr.st = "merged"
    /\ promote[p].v < rel.v => /\ pr.st = "none" /\ ~rel.pushed
                               /\ \A f \in Late : main.cat[f] = Open
    /\ InProgress => Idle

\* Where a feature is that was answered and has not arrived.
LateOK ==
    /\ ~rel.up => \A f \in Late : \/ main.cat[f] = Open
                                  \/ here.st = "dirty" /\ here.cat[f] = Open
    /\ rel.up => \A f \in Late :
         \/ rel.head.cat[f] = Entry("shipped", rel.v)
         \/ /\ rel.head.cat[f] = Open /\ main.cat[f] = Open
            /\ rel.pushed => rel.origin.cat[f] = Open
SweptOK == \A p \in Promoter :
    promote[p].pc \in {"sweep", "remove", "commit"} => \A f \in Late : here.cat[f] = Open

\* A ship that rolls back leaves the catalog alone.
BackOK == \A w \in Worker : ship[w].pc = "gate" => ship[w].pre.cat = rel.head.cat

DInv == HereOK /\ AtMain /\ RequestOK /\ MergedOK /\ CleaningOK /\ LateOK /\ SweptOK /\ BackOK

(***************************************************************************)
(* Types                                                                   *)
(***************************************************************************)
LEMMA Bounds ==
    /\ MaxVersion \in Nat /\ MaxHot \in Nat /\ MaxTries \in Nat /\ MaxFaults \in Nat
    /\ NoOne \notin Worker /\ SyncMain \in Worker /\ Feature \subseteq Worker
    /\ SyncMain \notin Feature
BY TrainAssumption DEF Worker, SyncMain

LEMMA SomeCommits ==
    /\ Nothing \in Commit
    /\ Commit = [feats : SUBSET Feature, hot : 0..MaxHot, cat : [Feature -> Entries], bk : Nat]
    /\ Open \in Entries
    /\ Unfrozen \in Freezings /\ NoRequest \in Requests
    /\ NotAtWork \in Ships /\ NotPromoting \in Promotes
<1>1. Absent \in Entries /\ Open \in Entries
  BY Bounds DEF Absent, Open, Entry, Entries
<1>2. Commit = [feats : SUBSET Feature, hot : 0..MaxHot, cat : [Feature -> Entries], bk : Nat]
  BY DEF Commit, Entries
<1>3. Nothing \in Commit
  BY <1>1, <1>2, Bounds DEF Nothing
<1>4. Unfrozen \in Freezings /\ NoRequest \in Requests
  BY <1>3 DEF Unfrozen, Freezings, NoRequest, Requests
<1>5. NotAtWork \in Ships /\ NotPromoting \in Promotes
  BY <1>3, Bounds DEF NotAtWork, Ships, NotPromoting, Promotes
<1> QED
  BY <1>1, <1>2, <1>3, <1>4, <1>5

LEMMA SyncedCommit ==
    ASSUME NEW c \in Commit, tracked \in Commit
    PROVE  Synced(c) \in Commit /\ Synced(c).cat = c.cat /\ Synced(c).feats = c.feats
BY SomeCommits, Bounds DEF Synced

LEMMA ContentType ==
    ASSUME NEW c \in Commit
    PROVE  Content(c) \in Contents
BY SomeCommits DEF Content, Contents

\* The main checkout and main itself.
LEMMA SquashShape ==
    ASSUME Shape, Squash
    PROVE  main' \in Commit /\ pr' \in Requests
BY SomeCommits, Bounds DEF Shape, Squash, Releases, Requests

LEMMA ShapeInit == Init => Shape
BY SomeCommits, Bounds, ContentType DEF Init, Shape, Releases

LEMMA ShapeMain ==
    ASSUME Shape, Hotfix \/ HandMerge \/ NewRelease
    PROVE  Shape'
<1>1. CASE Hotfix
  <2>1. main' \in Commit
    BY <1>1, SomeCommits, Bounds DEF Hotfix, Shape
  <2> QED
    BY <1>1, <2>1 DEF Hotfix, Shape, ghostVars, boundVars
<1>2. CASE HandMerge
  BY <1>2, SquashShape DEF HandMerge, Shape, ghostVars, boundVars
<1>3. CASE NewRelease
  <2>1. rel' \in Releases
    BY <1>3, SomeCommits, Bounds DEF NewRelease, Shape, Releases
  <2>2. here' \in [at : Commit, cat : [Feature -> Entries], st : {"clean", "dirty", "ahead"}]
    BY <1>3, SomeCommits DEF NewRelease, Shape
  <2> QED
    BY <1>3, <2>1, <2>2, SomeCommits, ContentType DEF NewRelease, Shape, ghostVars, boundVars
<1> QED
  BY <1>1, <1>2, <1>3

LEMMA ShapeRefine ==
    ASSUME Shape, NEW f \in Feature, Refine(f)
    PROVE  Shape'
<1>1. rel' \in Releases
  BY SomeCommits DEF Refine, Shape, Releases
<1> QED
  BY <1>1 DEF Refine, Shape, mainVars, ghostVars, boundVars

LEMMA ShapeShip ==
    ASSUME Shape, NEW w \in Worker, ShipStarts(w) \/ ShipStep(w) \/ ShipDies(w)
    PROVE  Shape'
<1> USE DEF mainVars, ghostVars, boundVars
<1>1. CASE ShipStarts(w)
  <2>1. ship' \in [Worker -> Ships]
    BY <1>1 DEF ShipStarts, Shape, Ships, Releases
  <2> QED
    BY <1>1, <2>1 DEF ShipStarts, Shape
<1>2. CASE FeatureGate(w)
  <2>1. ship' \in [Worker -> Ships]
    BY <1>2 DEF FeatureGate, Shape, Ships
  <2> QED
    BY <1>2, <2>1 DEF FeatureGate, ResolveMain, Shape
<1>3. CASE ShipGivesUp(w)
  BY <1>3, SomeCommits DEF ShipGivesUp, Shape
<1>4. CASE ShipMerges(w)
  <2>1. ship' \in [Worker -> Ships]
    BY ZenonT(20), <1>4 DEF ShipMerges, Shape, Ships, Releases
  <2>2. [Synced(rel.head) EXCEPT !.feats = @ \cup ({w} \cap Feature)] \in Commit
    BY SyncedCommit, SomeCommits DEF Shape, Releases
  <2>3. rel' = [rel EXCEPT !.head = [Synced(rel.head) EXCEPT !.feats = @ \cup ({w} \cap Feature)]]
    BY <1>4 DEF ShipMerges, Shape, Releases
  <2>4. rel' \in Releases
    BY <2>2, <2>3 DEF Shape, Releases
  <2> QED
    BY <1>4, <2>1, <2>4 DEF ShipMerges, Shape
<1>5. CASE ShipLands(w)
  <2>1. [rel.head EXCEPT !.cat[w] = Entry("shipped", ship[w].v)] \in Commit
    BY SomeCommits DEF Shape, Releases, Ships, Entry, Entries
  <2>2. rel' \in Releases
    BY <1>5, <2>1 DEF ShipLands, Shape, Releases
  <2>3. told' \subseteq Feature /\ accepted' \in Contents /\ left' = {}
    BY <1>5, ContentType DEF ShipLands, Shape, Releases
  <2> QED
    BY <1>5, <2>2, <2>3, SomeCommits DEF ShipLands, Shape
<1>6. CASE ShipRollsBack(w)
  <2>1. rel' \in Releases
    BY <1>6 DEF ShipRollsBack, ShipRollsBackTo, Shape, Releases, Ships
  <2> QED
    BY <1>6, <2>1, SomeCommits DEF ShipRollsBack, ShipRollsBackTo, Shape
<1>7. CASE ShipDies(w)
  <2>1. left' \subseteq Contents
    BY <1>7, ContentType DEF ShipDies, Shape, Releases
  <2> QED
    BY <1>7, <2>1, SomeCommits DEF ShipDies, Shape
<1> QED
  BY <1>1, <1>2, <1>3, <1>4, <1>5, <1>6, <1>7 DEF ShipStep

LEMMA ShapePromote ==
    ASSUME Shape, NEW p \in Promoter, PromoteStarts(p) \/ PromoteStep(p) \/ PromoterDies(p)
    PROVE  Shape'
<1> USE DEF mainVars, ghostVars, boundVars
<1>1. CASE PromoteStarts(p)
  <2>1. PICK b \in BOOLEAN :
          promote' = [promote EXCEPT ![p] = [NotPromoting EXCEPT !.pc = "start", !.v = rel.v,
                                                                !.babysit = b]]
    BY <1>1 DEF PromoteStarts
  <2>2. [NotPromoting EXCEPT !.pc = "start", !.v = rel.v, !.babysit = b] \in Promotes
    BY SomeCommits DEF Shape, Promotes, Releases
  <2>3. promote' \in [Promoter -> Promotes]
    BY <2>1, <2>2 DEF Shape
  <2>4. tracked' \in Commit /\ faults' \in Nat /\ tries' \in Nat
    <3>1. ResolveMain /\ tries' = tries + 1
      BY <1>1 DEF PromoteStarts
    <3> QED
      BY <3>1 DEF ResolveMain, Shape
  <2> QED
    BY <1>1, <2>3, <2>4 DEF PromoteStarts, Shape
<1>2. CASE Freezes(p)
  <2>1. rel' \in Releases
    BY <1>2, SyncedCommit DEF Freezes, Shape, Releases
  <2>2. freeze' \in [Version -> Freezings]
    BY <1>2 DEF Freezes, Shape, Freezings
  <2>3. promote' \in [Promoter -> Promotes]
    BY <1>2 DEF Freezes, Shape, Promotes, Goes
  <2>4. accepted' \in Contents /\ left' \subseteq Contents
    BY <1>2, <2>1, ContentType DEF Freezes, Releases, Shape
  <2> QED
    BY <1>2, <2>1, <2>2, <2>3, <2>4 DEF Freezes, Shape
<1>3. CASE Gate2(p)
  <2>1. promote' \in [Promoter -> Promotes]
    BY <1>3 DEF Gate2, Shape, Promotes, Goes
  <2>2. gated' \in [content : Contents, pushed : BOOLEAN]
    BY <1>3, ContentType DEF Gate2, Shape, Releases
  <2> QED
    BY <1>3, <2>1, <2>2 DEF Gate2, Shape
<1>4. CASE Pushes(p)
  <2>1. rel' \in Releases
    BY <1>4 DEF Pushes, Shape, Releases
  <2>2. freeze' \in [Version -> Freezings]
    BY ZenonT(20), <1>4 DEF Pushes, Shape, Freezings, Releases
  <2>3. promote' \in [Promoter -> Promotes]
    <3>1. [promote[p] EXCEPT !.pc = "pushed", !.pushed = rel.head] \in Promotes
      <4>1. promote[p] \in Promotes /\ rel.head \in Commit
        BY DEF Shape, Releases
      <4> QED
        BY <4>1 DEF Promotes
    <3> QED
      BY <1>4, <3>1 DEF Pushes, Shape
  <2>4. gated' \in [content : Contents, pushed : BOOLEAN]
    BY <1>4 DEF Pushes, Shape
  <2> QED
    BY <1>4, <2>1, <2>2, <2>3, <2>4 DEF Pushes, Shape
<1>5. CASE OpensPR(p)
  <2>1. promote' \in [Promoter -> Promotes]
    BY <1>5 DEF OpensPR, Shape, Promotes, Goes
  <2>2. pr' \in Requests
    BY <1>5, SomeCommits DEF OpensPR, NoRequest, Requests
  <2> QED
    BY <1>5, <2>1, <2>2 DEF OpensPR, Shape
<1>6. CASE ChecksPass(p)
  <2>1. promote' \in [Promoter -> Promotes]
    <3>1. main.hot \in Nat
      BY SomeCommits, Bounds DEF Shape
    <3>2. [promote[p] EXCEPT !.pc = "guard", !.seen = main.hot] \in Promotes
      BY ZenonT(20), <3>1 DEF Shape, Promotes
    <3> QED
      BY <1>6, <3>2 DEF ChecksPass, Shape
  <2> QED
    BY <1>6, <2>1 DEF ChecksPass, Shape
<1>7. CASE Guard(p)
  <2>1. promote' \in [Promoter -> Promotes]
    <3>1. [promote[p] EXCEPT !.pc = "finalize", !.pushed = Nothing] \in Promotes
      BY SomeCommits DEF Shape, Promotes
    <3> QED
      BY <1>7, <3>1 DEF Guard, Shape
  <2> QED
    BY <1>7, <2>1 DEF Guard, ResolveMain, Shape
<1>8. CASE Finalizes(p)
  <2>1. promote' \in [Promoter -> Promotes]
    BY <1>8 DEF Finalizes, Shape, Promotes, Goes
  <2> QED
    BY <1>8, <2>1 DEF Finalizes, Shape, Releases
<1>9. CASE PushesAgain(p)
  <2>1. rel' \in Releases
    BY <1>9 DEF PushesAgain, Shape, Releases
  <2>2. freeze' \in [Version -> Freezings]
    BY <1>9 DEF PushesAgain, Shape, Freezings, Releases
  <2>3. promote' \in [Promoter -> Promotes]
    <3>1. [promote[p] EXCEPT !.pc = "merge"] \in Promotes
      BY DEF Shape, Promotes
    <3> QED
      BY <1>9, <3>1, SomeCommits DEF PushesAgain, Shape
  <2>4. gated' \in [content : Contents, pushed : BOOLEAN]
    BY <1>9 DEF PushesAgain, Shape
  <2> QED
    BY <1>9, <2>1, <2>2, <2>3, <2>4 DEF PushesAgain, Shape
<1>10. CASE Merges(p)
  <2>1. promote' \in [Promoter -> Promotes]
    <3>1. [promote[p] EXCEPT !.pc = "adopt", !.seen = 0] \in Promotes
      BY ZenonT(20) DEF Shape, Promotes
    <3> QED
      BY <1>10, <3>1 DEF Merges, Shape
  <2> QED
    BY <1>10, <2>1, SquashShape DEF Merges, Shape
<1>11. CASE PromoteFails(p)
  BY <1>11, SomeCommits DEF PromoteFails, Shape
<1>12. CASE PromoterDies(p)
  BY <1>12, SomeCommits DEF PromoterDies, Shape
<1> QED
  BY <1>1, <1>2, <1>3, <1>4, <1>5, <1>6, <1>7, <1>8, <1>9, <1>10, <1>11, <1>12 DEF PromoteStep

LEMMA ShapeCleanup ==
    ASSUME Shape, NEW p \in Promoter, CleanupStarts(p) \/ CleanupStep(p)
    PROVE  Shape'
<1> USE DEF mainVars, ghostVars, boundVars
<1> DEFINE Here == [at : Commit, cat : [Feature -> Entries], st : {"clean", "dirty", "ahead"}]
<1>1. CASE CleanupStarts(p)
  <2>1. PICK v \in 1..rel.v :
          promote' = [promote EXCEPT ![p] = [NotPromoting EXCEPT !.pc = "adopt", !.v = v]]
    BY <1>1 DEF CleanupStarts
  <2>2. v \in 0..MaxVersion
    BY Bounds DEF Shape, Releases
  <2>3. [NotPromoting EXCEPT !.pc = "adopt", !.v = v] \in Promotes
    BY <2>2, SomeCommits DEF Promotes
  <2>4. promote' \in [Promoter -> Promotes]
    BY <2>1, <2>3 DEF Shape
  <2> QED
    BY <1>1, <2>4 DEF CleanupStarts, Shape
<1>2. CASE Adopts(p)
  <2>1. promote' \in [Promoter -> Promotes]
    BY <1>2 DEF Adopts, Shape, Promotes, Goes
  <2>2. here' \in Here
    BY <1>2, SomeCommits DEF Adopts, Shape
  <2> QED
    BY <1>2, <2>1, <2>2 DEF Adopts, Shape
<1>3. CASE Strands(p)
  <2>1. promote' \in [Promoter -> Promotes]
    BY <1>3 DEF Strands, Shape, Promotes, Goes
  <2>2. here' \in Here
    BY <1>3, SomeCommits DEF Strands, Shape
  <2> QED
    BY <1>3, <2>1, <2>2 DEF Strands, Shape
<1>4. CASE Sweeps(p)
  <2>1. promote' \in [Promoter -> Promotes]
    BY <1>4 DEF Sweeps, Shape, Promotes, Goes
  <2>2. Entry("promoted", promote[p].v) \in Entries
    BY DEF Shape, Promotes, Entry, Entries
  <2>3. here' \in Here
    BY <1>4, <2>2 DEF Sweeps, Shape
  <2> QED
    BY <1>4, <2>1, <2>3 DEF Sweeps, Shape
<1>5. CASE Removes(p)
  <2>1. promote' \in [Promoter -> Promotes]
    BY <1>5 DEF Removes, Shape, Promotes, Goes
  <2>2. rel' \in Releases
    BY <1>5 DEF Removes, Shape, Releases
  <2>3. pr' \in Requests
    BY <1>5 DEF Removes, Shape, Requests
  <2> QED
    BY <1>5, <2>1, <2>2, <2>3 DEF Removes, Shape
<1>6. CASE CommitsCleanup(p)
  <2>1. promote' \in [Promoter -> Promotes]
    BY <1>6 DEF CommitsCleanup, Shape, Promotes, Goes
  <2>2. [main EXCEPT !.cat = here.cat, !.bk = @ + 1] \in Commit
    <3>1. main \in [feats : SUBSET Feature, hot : 0..MaxHot, cat : [Feature -> Entries], bk : Nat]
      BY SomeCommits DEF Shape
    <3>2. here.cat \in [Feature -> Entries] /\ main.bk + 1 \in Nat
      BY <3>1 DEF Shape
    <3> QED
      BY <3>1, <3>2, SomeCommits
  <2>3. main' \in Commit /\ tracked' \in Commit /\ here' \in Here
    BY <1>6, <2>2 DEF CommitsCleanup, Shape
  <2> QED
    BY <1>6, <2>1, <2>3 DEF CommitsCleanup, Shape
<1>7. CASE Unfreezes(p)
  BY <1>7, SomeCommits DEF Unfreezes, Shape
<1>8. CASE CleanupFails(p)
  <2>1. here' \in Here
    BY <1>8 DEF CleanupFails, Shape
  <2>2. freeze' \in [Version -> Freezings]
    BY <1>8, SomeCommits DEF CleanupFails, Shape
  <2>3. promote' \in [Promoter -> Promotes]
    BY <1>8, SomeCommits DEF CleanupFails, Shape
  <2> QED
    BY <1>8, <2>1, <2>2, <2>3 DEF CleanupFails, Shape
<1> QED
  BY <1>1, <1>2, <1>3, <1>4, <1>5, <1>6, <1>7, <1>8 DEF CleanupStep

LEMMA ShapeStep == Shape /\ [Next]_vars => Shape'
<1> SUFFICES ASSUME Shape, [Next]_vars PROVE Shape'
  OBVIOUS
<1>1. CASE UNCHANGED vars
  BY <1>1 DEF vars, Shape
<1>2. CASE Next
  BY <1>2, ShapeMain, ShapeRefine, ShapeShip, ShapePromote, ShapeCleanup DEF Next
<1> QED
  BY <1>1, <1>2

(***************************************************************************)
(* The lock, the ships and the release head                                *)
(***************************************************************************)
LEMMA CoreFrame ==
    ASSUME Core, UNCHANGED <<lock, ship, accepted, left>>,
           rel'.v = rel.v, rel'.up => rel.up, Content(rel'.head) = Content(rel.head)
    PROVE  Core'
BY DEF Core, LockInv, OwnRelease, GateInv, HeadIsVerified, Standing, Content

LEMMA NobodyGates ==
    ASSUME Core, lock = NoOne
    PROVE  \A w \in Worker : ship[w].pc # "gate"
BY Bounds DEF Core, LockInv

\* The other ships are not at their gate while w is, and keep what they have.
LEMMA CoreShip ==
    ASSUME Shape, Core, NEW w \in Worker, ShipStarts(w) \/ ShipStep(w) \/ ShipDies(w)
    PROVE  Core'
<1> USE DEF Shape, Core
<1>1. CASE ShipStarts(w)
  <2>1. ship' = [ship EXCEPT ![w] = [ship[w] EXCEPT !.pc = "gate1", !.v = rel.v]]
        /\ ship[w].pc = "idle" /\ rel.up /\ UNCHANGED <<rel, lock, accepted, left>>
    BY <1>1 DEF ShipStarts, InProgress, mainVars, ghostVars, boundVars
  <2>2. ship'[w].pc = "gate1" /\ ship'[w].v = rel.v
    BY <2>1 DEF Ships
  <2>3. \A x \in Worker : x # w => ship'[x] = ship[x]
    BY <2>1
  <2>4. LockInv' /\ GateInv'
    BY <2>1, <2>2, <2>3 DEF LockInv, GateInv, Standing
  <2> QED
    BY <2>1, <2>2, <2>3, <2>4 DEF OwnRelease, HeadIsVerified, Standing
<1>2. CASE FeatureGate(w) \/ ShipGivesUp(w)
  <2>1. ship[w].pc \in {"gate1", "want"} /\ UNCHANGED <<rel, lock, accepted, left>>
    BY <1>2 DEF FeatureGate, ShipGivesUp, mainVars, ghostVars, boundVars
  <2>2. ship'[w].pc \in {"want", "idle"} /\ (ship'[w].pc = "want" => ship'[w].v = ship[w].v)
    BY <1>2 DEF FeatureGate, ShipGivesUp, Ships, NotAtWork
  <2>3. \A x \in Worker : x # w => ship'[x] = ship[x]
    BY <1>2 DEF FeatureGate, ShipGivesUp
  <2>4. LockInv' /\ GateInv'
    BY <2>1, <2>2, <2>3 DEF LockInv, GateInv, Standing
  <2>5. OwnRelease'
    BY <2>1, <2>2, <2>3 DEF OwnRelease
  <2> QED
    BY <2>1, <2>4, <2>5 DEF HeadIsVerified, Standing
<1>3. CASE ShipMerges(w)
  <2>1. /\ ship[w].pc = "want" /\ lock = NoOne /\ rel.up /\ lock' = w
        /\ ship' = [ship EXCEPT ![w].pc = "gate", ![w].pre = rel.head]
        /\ rel' = [rel EXCEPT !.head = [Synced(rel.head) EXCEPT !.feats = @ \cup ({w} \cap Feature)]]
        /\ UNCHANGED <<accepted, left>>
    BY <1>3 DEF ShipMerges, mainVars, ghostVars, boundVars
  <2>2. ship'[w].pc = "gate" /\ ship'[w].pre = rel.head /\ ship'[w].v = ship[w].v
    BY <2>1 DEF Ships
  <2>3. \A x \in Worker : x # w => ship'[x] = ship[x]
    BY <2>1
  <2>4. rel'.up /\ rel'.v = rel.v
    BY <2>1 DEF Releases
  <2>5. w \in Feature => w \in rel'.head.feats
    <3>1. [Synced(rel.head) EXCEPT !.feats = @ \cup ({w} \cap Feature)].feats
            = rel.head.feats \cup ({w} \cap Feature)
      BY SyncedCommit, SomeCommits DEF Releases
    <3>2. rel'.head = [Synced(rel.head) EXCEPT !.feats = @ \cup ({w} \cap Feature)]
      BY <2>1 DEF Releases
    <3> QED
      BY <3>1, <3>2
  <2>6. Content(rel.head) \in Standing
    BY <2>1 DEF OwnRelease, HeadIsVerified, Standing
  <2>7. OwnRelease'
    BY <2>1, <2>2, <2>3, <2>4 DEF OwnRelease
  <2>8. LockInv' /\ GateInv'
    BY <2>1, <2>2, <2>3, <2>5, <2>6, NobodyGates DEF LockInv, GateInv, Standing
  <2> QED
    BY <2>1, <2>7, <2>8, Bounds DEF HeadIsVerified, Standing
<1>4. CASE ShipLands(w)
  <2>1. ship[w].pc = "gate" /\ lock = w /\ lock' = NoOne /\ accepted' = Content(rel.head)
        /\ left' = {} /\ ship' = [ship EXCEPT ![w] = NotAtWork]
    BY <1>4 DEF ShipLands, LockInv
  <2>2. rel' = rel \/ rel' = [rel EXCEPT !.head.cat[w] = Entry("shipped", ship[w].v)]
    BY <1>4 DEF ShipLands
  <2>3. rel'.up = rel.up /\ rel'.v = rel.v
    BY <2>2 DEF Releases
  <2>4. Content(rel'.head) = Content(rel.head)
    BY <2>2, SomeCommits DEF Releases, Content
  <2>5. \A x \in Worker : ship'[x].pc # "gate"
    BY <2>1 DEF LockInv, NotAtWork
  <2>6. LockInv' /\ GateInv'
    BY <2>1, <2>5, Bounds DEF LockInv, GateInv, Standing
  <2>7. OwnRelease'
    BY <2>1, <2>3 DEF OwnRelease, NotAtWork
  <2> QED
    BY <2>1, <2>4, <2>6, <2>7 DEF HeadIsVerified, Standing
<1>5. CASE ShipRollsBack(w)
  <2>1. /\ ship[w].pc = "gate" /\ lock = w /\ lock' = NoOne
        /\ accepted' = accepted /\ left' = left
        /\ ship' = [ship EXCEPT ![w] = NotAtWork]
        /\ rel' = [rel EXCEPT !.head = ship[w].pre]
    BY <1>5 DEF ShipRollsBack, ShipRollsBackTo, LockInv, ghostVars
  <2>2. rel'.up = rel.up /\ rel'.v = rel.v /\ rel'.head = ship[w].pre
    BY <2>1 DEF Releases
  <2>3. \A x \in Worker : ship'[x].pc # "gate"
    BY <2>1 DEF LockInv, NotAtWork
  <2>4. LockInv' /\ GateInv'
    BY <2>1, <2>3, Bounds DEF LockInv, GateInv, Standing
  <2>5. OwnRelease'
    BY <2>1, <2>2 DEF OwnRelease, NotAtWork
  <2>6. Content(rel'.head) \in Standing /\ Standing' = Standing
    BY <2>1, <2>2 DEF GateInv, Standing
  <2> QED
    BY <2>4, <2>5, <2>6 DEF HeadIsVerified, Standing
<1>6. CASE ShipDies(w)
  <2>1. /\ ship' = [ship EXCEPT ![w] = NotAtWork]
        /\ lock' = IF lock = w THEN NoOne ELSE lock
        /\ left' = IF lock = w THEN {Content(rel.head)} ELSE left
        /\ accepted' = accepted
        /\ rel' = rel
    BY <1>6 DEF ShipDies
  <2>2. ship'[w].pc = "idle" /\ \A x \in Worker : x # w => ship'[x] = ship[x]
    BY <2>1 DEF NotAtWork
  <2>3. LockInv'
    BY <2>1, <2>2, Bounds DEF LockInv
  <2>4. GateInv'
    BY <2>1, <2>2 DEF GateInv, LockInv, Standing
  <2> QED
    BY <2>1, <2>2, <2>3, <2>4, Bounds DEF OwnRelease, HeadIsVerified, Standing
<1> QED
  BY <1>1, <1>2, <1>3, <1>4, <1>5, <1>6 DEF ShipStep

LEMMA CoreNewRelease ==
    ASSUME Shape, Core, NoLateShip, NewRelease
    PROVE  Core'
<1>1. \A w \in Worker : ship[w].pc = "idle" /\ ship' = ship /\ lock' = lock
  BY DEF NewRelease, NoLateShip
<1>2. rel'.v = rel.v + 1 /\ rel'.head = main /\ accepted' = Content(main) /\ left' = {}
  BY DEF NewRelease
<1>3. rel.v \in Nat
  BY Bounds DEF Shape, Releases
<1> QED
  BY <1>1, <1>2, <1>3, Bounds DEF Core, LockInv, OwnRelease, GateInv, HeadIsVerified, NewRelease, Standing

LEMMA CoreFreezes ==
    ASSUME Shape, Core, NEW p \in Promoter, Freezes(p)
    PROVE  Core'
<1>1. /\ lock = NoOne /\ rel' = [rel EXCEPT !.head = Synced(rel.head)]
      /\ Content(rel'.head) \in Standing' /\ UNCHANGED <<lock, ship>>
  BY DEF Freezes, Standing
<1>2. rel'.up = rel.up /\ rel'.v = rel.v
  BY <1>1 DEF Shape, Releases
<1> QED
  BY <1>1, <1>2, NobodyGates DEF Core, LockInv, OwnRelease, GateInv, HeadIsVerified, Standing

\* Nothing else touches the ships, the lock or the content of the release head.
LEMMA CoreOthers ==
    ASSUME Shape, Core, Next,
           ~NewRelease, \A p \in Promoter : ~Freezes(p),
           \A w \in Worker : ~(ShipStarts(w) \/ ShipStep(w) \/ ShipDies(w))
    PROVE  Core'
<1> USE DEF mainVars, ghostVars, boundVars
<1> DEFINE Same == /\ UNCHANGED <<lock, ship, accepted, left>>
                   /\ rel'.v = rel.v /\ (rel'.up => rel.up)
                   /\ Content(rel'.head) = Content(rel.head)
<1>1. Same
  <2>1. CASE Hotfix \/ HandMerge
    BY <2>1 DEF Hotfix, HandMerge
  <2>2. ASSUME NEW f \in Feature, Refine(f) PROVE Same
    BY <2>2, SomeCommits DEF Refine, Shape, Releases, Content
  <2>3. ASSUME NEW p \in Promoter, PromoteStarts(p) \/ CleanupStarts(p) \/ PromoterDies(p)
        PROVE  Same
    BY <2>3 DEF PromoteStarts, CleanupStarts, PromoterDies
  <2>4. ASSUME NEW p \in Promoter, PromoteStep(p) PROVE Same
    <3>1. CASE Gate2(p) \/ OpensPR(p) \/ ChecksPass(p) \/ Guard(p) \/ Merges(p) \/ PromoteFails(p)
      BY <3>1 DEF Gate2, OpensPR, ChecksPass, Guard, Merges, PromoteFails
    <3>2. CASE Pushes(p) \/ Finalizes(p) \/ PushesAgain(p)
      BY <3>2 DEF Pushes, Finalizes, PushesAgain, Shape, Releases
    <3> QED
      BY <2>4, <3>1, <3>2 DEF PromoteStep
  <2>5. ASSUME NEW p \in Promoter, CleanupStep(p) PROVE Same
    <3>1. CASE Removes(p)
      BY <3>1 DEF Removes, Shape, Releases
    <3>2. CASE ~Removes(p)
      BY <2>5, <3>2 DEF CleanupStep, Adopts, Strands, Sweeps, CommitsCleanup, Unfreezes, CleanupFails
    <3> QED
      BY <3>1, <3>2
  <2> QED
    BY <2>1, <2>2, <2>3, <2>4, <2>5 DEF Next
<1> QED
  BY <1>1, CoreFrame

LEMMA CoreStep ==
    ASSUME Shape, Core, NoLateShip, Next
    PROVE  Core'
BY CoreShip, CoreNewRelease, CoreFreezes, CoreOthers

(***************************************************************************)
(* What is called shipped is carried, and only what is on main is deleted  *)
(***************************************************************************)
LEMMA NothingCarried == Carries(Nothing) /\ Carries(NotAtWork.pre)
BY DEF Carries, Out, Nothing, Absent, Entry, NotAtWork

LEMMA SyncedCarries ==
    ASSUME NEW c \in Commit, tracked \in Commit, Carries(c)
    PROVE  Carries(Synced(c))
BY SyncedCommit DEF Carries

Kept == CarryInv /\ CodeKept

\* What neither main nor the main checkout sees is a matter of the commits.
LEMMA KeptBeside ==
    ASSUME Kept, UNCHANGED <<main, here, branch>>,
           Carries(rel'.head), Carries(rel'.origin), \A w \in Worker : Carries(ship'[w].pre)
    PROVE  Kept'
BY DEF Kept, CarryInv, Carries, CodeKept

LEMMA KeptMain ==
    ASSUME Shape, Kept, Hotfix \/ HandMerge \/ NewRelease
    PROVE  Kept'
<1> USE DEF Shape, Kept, CarryInv, CodeKept, Carries
<1>1. CASE Hotfix
  <2>1. main'.cat = main.cat /\ main'.feats = main.feats
    BY <1>1, SomeCommits DEF Hotfix
  <2> QED
    BY <1>1, <2>1 DEF Hotfix
<1>2. CASE HandMerge
  <2>1. main'.cat = rel.origin.cat /\ main'.feats = main.feats \cup rel.origin.feats
    BY <1>2 DEF HandMerge, Squash
  <2> QED
    BY <1>2, <2>1 DEF HandMerge
<1>3. CASE NewRelease
  <2>1. here'.cat = main.cat /\ rel'.head = main /\ rel'.origin = Nothing
        /\ UNCHANGED <<main, ship, branch>>
    BY <1>3 DEF NewRelease
  <2> QED
    BY <2>1, NothingCarried
<1> QED
  BY <1>1, <1>2, <1>3

LEMMA KeptRefine ==
    ASSUME Shape, Kept, NEW f \in Feature, Refine(f)
    PROVE  Kept'
<1>1. rel' = [rel EXCEPT !.head.cat[f] = Open] /\ UNCHANGED <<main, here, ship, branch>>
  BY DEF Refine, mainVars
<1>2. rel'.origin = rel.origin /\ rel'.head.feats = rel.head.feats
      /\ rel'.head.cat = [rel.head.cat EXCEPT ![f] = Open]
  BY <1>1, SomeCommits DEF Shape, Releases
<1>3. Carries(rel'.head)
  BY <1>2, SomeCommits DEF Kept, CarryInv, Carries, Out, Open, Entry, Shape, Releases
<1> QED
  BY <1>1, <1>2, <1>3, KeptBeside DEF Kept, CarryInv

LEMMA KeptShip ==
    ASSUME Shape, Core, Kept, NEW w \in Worker, ShipStarts(w) \/ ShipStep(w) \/ ShipDies(w)
    PROVE  Kept'
<1> USE DEF Shape, mainVars
<1>1. UNCHANGED <<main, here, branch>>
  BY DEF ShipStarts, ShipStep, ShipDies, FeatureGate, ShipGivesUp, ShipMerges, ShipLands,
         ShipRollsBack, ShipRollsBackTo
<1>2. CASE ShipStarts(w) \/ FeatureGate(w) \/ ShipGivesUp(w) \/ ShipDies(w)
  <2>1. rel' = rel
    BY <1>2 DEF ShipStarts, FeatureGate, ShipGivesUp, ShipDies
  <2>2. ship'[w].pre = ship[w].pre \/ ship'[w].pre = NotAtWork.pre
    <3>1. CASE ShipStarts(w)
      <4>1. ship'[w] = [ship[w] EXCEPT !.pc = "gate1", !.v = rel.v]
        BY <3>1 DEF ShipStarts
      <4> QED
        BY <4>1 DEF Ships
    <3>2. CASE FeatureGate(w)
      BY <3>2 DEF FeatureGate, Ships
    <3>3. CASE ShipGivesUp(w) \/ ShipDies(w)
      BY <3>3 DEF ShipGivesUp, ShipDies
    <3> QED
      BY <1>2, <3>1, <3>2, <3>3
  <2>3. \A x \in Worker : x # w => ship'[x] = ship[x]
    BY <1>2 DEF ShipStarts, FeatureGate, ShipGivesUp, ShipDies
  <2> QED
    BY <1>1, <2>1, <2>2, <2>3, NothingCarried, KeptBeside DEF Kept, CarryInv
<1>3. CASE ShipMerges(w)
  <2>1. /\ ship' = [ship EXCEPT ![w].pc = "gate", ![w].pre = rel.head]
        /\ rel' = [rel EXCEPT !.head = [Synced(rel.head) EXCEPT !.feats = @ \cup ({w} \cap Feature)]]
    BY <1>3 DEF ShipMerges
  <2>2. ship'[w].pre = rel.head /\ \A x \in Worker : x # w => ship'[x] = ship[x]
    BY <2>1 DEF Ships
  <2> DEFINE c == [Synced(rel.head) EXCEPT !.feats = @ \cup ({w} \cap Feature)]
  <2>3. c.cat = rel.head.cat /\ c.feats = rel.head.feats \cup ({w} \cap Feature)
    BY SyncedCommit, SomeCommits DEF Releases
  <2>4. rel'.head = c /\ rel'.origin = rel.origin
    BY <2>1 DEF Releases
  <2>5. Carries(rel'.head)
    BY <2>3, <2>4 DEF Kept, CarryInv, Carries
  <2> QED
    BY <1>1, <2>2, <2>4, <2>5, KeptBeside DEF Kept, CarryInv
<1>4. CASE ShipLands(w)
  <2>1. ship' = [ship EXCEPT ![w] = NotAtWork]
    BY <1>4 DEF ShipLands
  <2>2. \/ rel' = rel
        \/ w \in Feature /\ rel' = [rel EXCEPT !.head.cat[w] = Entry("shipped", ship[w].v)]
    <3>1. CASE w \in Feature /\ InProgress /\ rel.head.cat[w].st # "none"
      BY <1>4, <3>1 DEF ShipLands
    <3>2. CASE ~(w \in Feature /\ InProgress /\ rel.head.cat[w].st # "none")
      BY <1>4, <3>2 DEF ShipLands
    <3> QED
      BY <3>1, <3>2
  <2>3. w \in Feature => w \in rel.head.feats
    BY <1>4 DEF ShipLands, Core, GateInv
  <2>4. Carries(rel'.head) /\ rel'.origin = rel.origin
    <3>1. CASE rel' = rel
      BY <3>1 DEF Kept, CarryInv
    <3>2. CASE w \in Feature /\ rel' = [rel EXCEPT !.head.cat[w] = Entry("shipped", ship[w].v)]
      <4>1. rel'.origin = rel.origin /\ rel'.head.feats = rel.head.feats
            /\ rel'.head.cat = [rel.head.cat EXCEPT ![w] = Entry("shipped", ship[w].v)]
        BY <3>2, SomeCommits DEF Releases
      <4>2. \A f \in Feature : f # w => rel'.head.cat[f] = rel.head.cat[f]
        BY <4>1, SomeCommits DEF Releases
      <4> QED
        BY <2>3, <4>1, <4>2 DEF Kept, CarryInv, Carries
    <3> QED
      BY <2>2, <3>1, <3>2
  <2>5. \A x \in Worker : Carries(ship'[x].pre)
    BY <2>1, NothingCarried DEF Kept, CarryInv
  <2> QED
    BY <1>1, <2>4, <2>5, KeptBeside DEF Kept, CarryInv
<1>5. CASE ShipRollsBack(w)
  <2>1. ship' = [ship EXCEPT ![w] = NotAtWork] /\ rel' = [rel EXCEPT !.head = ship[w].pre]
    BY <1>5 DEF ShipRollsBack, ShipRollsBackTo
  <2>2. rel'.head = ship[w].pre /\ rel'.origin = rel.origin
    BY <2>1 DEF Releases
  <2>3. \A x \in Worker : Carries(ship'[x].pre)
    BY <2>1, NothingCarried DEF Kept, CarryInv
  <2> QED
    BY <1>1, <2>2, <2>3, KeptBeside DEF Kept, CarryInv
<1> QED
  BY <1>2, <1>3, <1>4, <1>5 DEF ShipStep

LEMMA KeptPromote ==
    ASSUME Shape, Kept, NEW p \in Promoter, PromoteStarts(p) \/ PromoteStep(p) \/ PromoterDies(p)
    PROVE  Kept'
<1> USE DEF Shape, mainVars
<1>1. UNCHANGED <<ship, branch>>
  BY DEF PromoteStarts, PromoteStep, PromoterDies, Freezes, Gate2, Pushes, OpensPR, ChecksPass,
         Guard, Finalizes, PushesAgain, Merges, PromoteFails
<1>2. CASE Merges(p)
  <2>1. main'.cat = rel.origin.cat /\ main'.feats = main.feats \cup rel.origin.feats
    BY <1>2 DEF Merges, Squash
  <2>2. UNCHANGED <<here, rel>>
    BY <1>2 DEF Merges
  <2> QED
    BY <1>1, <2>1, <2>2 DEF Kept, CarryInv, CodeKept, Carries
<1>3. CASE Freezes(p)
  <2>1. rel' = [rel EXCEPT !.head = Synced(rel.head)] /\ UNCHANGED <<main, here>>
    BY <1>3 DEF Freezes
  <2>2. rel'.head = Synced(rel.head) /\ rel'.origin = rel.origin
    BY <2>1 DEF Releases
  <2>3. Carries(rel'.head)
    BY <2>2, SyncedCarries DEF Kept, CarryInv, Releases
  <2> QED
    BY <1>1, <2>1, <2>2, <2>3, KeptBeside DEF Kept, CarryInv
<1>4. CASE Pushes(p) \/ PushesAgain(p) \/ Finalizes(p)
  <2>1. rel'.head = rel.head /\ rel'.origin \in {rel.head, rel.origin} /\ UNCHANGED <<main, here>>
    BY <1>4 DEF Pushes, PushesAgain, Finalizes, Releases
  <2> QED
    BY <1>1, <2>1, KeptBeside DEF Kept, CarryInv
<1>5. CASE ~(Merges(p) \/ Freezes(p) \/ Pushes(p) \/ PushesAgain(p) \/ Finalizes(p))
  <2>1. UNCHANGED <<main, here, rel>>
    BY <1>5 DEF PromoteStarts, PromoteStep, PromoterDies, Gate2, OpensPR, ChecksPass, Guard, PromoteFails
  <2> QED
    BY <1>1, <2>1, KeptBeside DEF Kept, CarryInv
<1> QED
  BY <1>2, <1>3, <1>4, <1>5

\* Before a sweep deletes a branch it has found the feature called shipped in the
\* main checkout, and what that calls shipped is on main.
LEMMA KeptCleanup ==
    ASSUME Shape, Kept, NEW p \in Promoter, CleanupStarts(p) \/ CleanupStep(p)
    PROVE  Kept'
<1> USE DEF Shape, mainVars
<1>1. ship' = ship
  BY DEF CleanupStarts, CleanupStep, Adopts, Strands, Sweeps, Removes, CommitsCleanup, Unfreezes,
         CleanupFails
<1>2. CASE CleanupStarts(p) \/ Unfreezes(p)
  BY <1>1, <1>2, KeptBeside DEF CleanupStarts, Unfreezes, Kept, CarryInv
<1>3. CASE Adopts(p)
  <2>1. UNCHANGED <<main, rel, branch>> /\ here'.cat \in {here.cat, main.cat}
    BY <1>3 DEF Adopts
  <2> QED
    BY <1>1, <2>1 DEF Kept, CarryInv, CodeKept, Carries
<1>4. CASE Strands(p)
  <2>1. UNCHANGED <<main, rel, branch>>
    BY <1>4 DEF Strands
  <2>2. \A f \in Feature : here'.cat[f] \in {here.cat[f], Open}
    BY <1>4 DEF Strands
  <2>3. ~Out(Open)
    BY DEF Out, Open, Entry
  <2> QED
    BY <1>1, <2>1, <2>2, <2>3 DEF Kept, CarryInv, CodeKept, Carries
<1>5. CASE Sweeps(p)
  <2>1. UNCHANGED <<main, rel>> /\ branch' = branch \ Swept(promote[p].v)
    BY <1>5 DEF Sweeps
  <2>2. \A f \in Swept(promote[p].v) : Out(here.cat[f])
    BY DEF Swept, Out
  <2>3. \A f \in Feature \ Swept(promote[p].v) : here'.cat[f] = here.cat[f]
    BY <1>5 DEF Sweeps
  <2>4. \A f \in Swept(promote[p].v) : f \in main.feats
    BY <2>2 DEF Kept, CarryInv, Swept
  <2>5. \A f \in Feature : Out(here'.cat[f]) => f \in main.feats
    BY <2>3, <2>4 DEF Kept, CarryInv
  <2>6. CodeKept'
    BY <2>1, <2>4 DEF Kept, CodeKept
  <2> QED
    BY <1>1, <2>1, <2>5, <2>6 DEF Kept, CarryInv, Carries
<1>6. CASE Removes(p)
  <2>1. UNCHANGED <<main, here, branch>> /\ rel'.head = rel.head /\ rel'.origin = rel.origin
    BY <1>6 DEF Removes, Releases
  <2> QED
    BY <1>1, <2>1, KeptBeside DEF Kept, CarryInv
<1>7. CASE CommitsCleanup(p)
  <2>1. UNCHANGED <<rel, branch>>
    BY <1>7 DEF CommitsCleanup
  <2>2. main'.feats = main.feats /\ main'.cat \in {main.cat, here.cat} /\ here'.cat = here.cat
    <3>1. CASE here.st = "dirty"
      <4>1. main' = [main EXCEPT !.cat = here.cat, !.bk = @ + 1]
            /\ here' = [at |-> main', cat |-> here.cat, st |-> "clean"]
        BY <1>7, <3>1 DEF CommitsCleanup
      <4> QED
        BY <4>1, SomeCommits
    <3>2. CASE here.st # "dirty"
      BY <1>7, <3>2 DEF CommitsCleanup
    <3> QED
      BY <3>1, <3>2
  <2> QED
    BY <1>1, <2>1, <2>2 DEF Kept, CarryInv, CodeKept, Carries
<1>8. CASE CleanupFails(p)
  <2>1. UNCHANGED <<main, rel, branch>> /\ here'.cat = here.cat
    BY <1>8 DEF CleanupFails
  <2> QED
    BY <1>1, <2>1 DEF Kept, CarryInv, CodeKept, Carries
<1> QED
  BY <1>2, <1>3, <1>4, <1>5, <1>6, <1>7, <1>8 DEF CleanupStep

LEMMA KeptStep ==
    ASSUME Shape, Core, Kept, Next
    PROVE  Kept'
BY KeptMain, KeptRefine, KeptShip, KeptPromote, KeptCleanup DEF Next

(***************************************************************************)
(* The promote: what it gates is what it pushes, and what merges           *)
(***************************************************************************)
LEMMA OwnVersion ==
    ASSUME Shape, OwnRelease, rel.up
    PROVE  rel.v \in Version
BY Bounds DEF Shape, OwnRelease, Releases, Version

LEMMA HotIsNat ==
    ASSUME NEW c \in Commit
    PROVE  c.hot \in Nat
BY SomeCommits, Bounds

\* The guarantees of the promote, when nothing of it moves.
LEMMA GatedFrame ==
    ASSUME GInv, UNCHANGED <<pr, freeze, promote, gated, lock>>,
           rel'.v = rel.v, rel'.up = rel.up, Content(rel'.head) = Content(rel.head),
           rel'.origin = rel.origin,
           main.hot \in Nat, main'.hot \in Nat, main'.hot >= main.hot,
           \A p \in Promoter : promote[p].seen \in Nat,
           faults \in Nat, faults' = faults \/ faults' = faults + 1
    PROVE  GInv'
<1>1. FreezeInv' /\ RequestInv' /\ MainIsGated'
  BY DEF GInv, FreezeInv, Frozen, RequestInv, MainIsGated
<1>2. rel'.head.hot = rel.head.hot
  BY DEF Content
<1>3. FreshInv'
  BY <1>2 DEF GInv, FreshInv
<1> QED
  BY <1>1, <1>3 DEF GInv

LEMMA SquashHot ==
    ASSUME Shape, Squash
    PROVE  main.hot \in Nat /\ main'.hot \in Nat /\ main'.hot >= main.hot
<1>1. main.hot \in Nat /\ rel.origin.hot \in Nat
  BY HotIsNat DEF Shape, Releases
<1>2. main'.hot = IF rel.origin.hot > main.hot THEN rel.origin.hot ELSE main.hot
  BY DEF Squash
<1> QED
  BY <1>1, <1>2

LEMMA GatedMain ==
    ASSUME Shape, Core, GInv, Hotfix \/ HandMerge \/ NewRelease
    PROVE  GInv'
<1> USE DEF Shape
<1>0. main.hot \in Nat /\ \A p \in Promoter : promote[p].seen \in Nat
  BY HotIsNat DEF Promotes
<1>1. CASE Hotfix
  <2>1. main'.hot = main.hot + 1
    BY <1>1, SomeCommits DEF Hotfix
  <2> QED
    BY <1>0, <1>1, <2>1, GatedFrame DEF Hotfix, ghostVars, boundVars
<1>2. CASE HandMerge
  <2>1. UNCHANGED <<rel, freeze, promote, gated, lock, faults>> /\ Squash /\ pr.st = "open"
    BY <1>2 DEF HandMerge, Mergeable, ghostVars, boundVars
  <2>2. pr'.st = "merged" /\ pr'.gated
    BY <2>1 DEF Squash, GInv, RequestInv
  <2>3. main'.hot \in Nat /\ main'.hot >= main.hot
    BY <2>1, SquashHot
  <2>4. FreezeInv'
    BY <2>1 DEF GInv, FreezeInv, Frozen
  <2>5. FreshInv'
    BY <1>0, <2>1, <2>3 DEF GInv, FreshInv
  <2> QED
    BY <2>2, <2>4, <2>5 DEF GInv, RequestInv, MainIsGated
<1>3. CASE NewRelease
  <2>1. ~rel.up /\ pr' = NoRequest /\ UNCHANGED <<main, freeze, promote, gated, lock, faults>>
    BY <1>3 DEF NewRelease, boundVars
  <2>2. \A p \in Promoter : ~Frozen(p) /\ promote[p].pc \notin {"start", "merge"}
    BY <2>1 DEF GInv, FreezeInv
  <2>3. FreezeInv'
    BY <2>1, <2>2 DEF FreezeInv, Frozen
  <2>4. FreshInv'
    BY <2>1, <2>2 DEF GInv, FreshInv, Frozen
  <2> QED
    BY <2>1, <2>3, <2>4 DEF GInv, RequestInv, MainIsGated, NoRequest
<1> QED
  BY <1>1, <1>2, <1>3

LEMMA GatedRefine ==
    ASSUME Shape, GInv, NEW f \in Feature, Refine(f)
    PROVE  GInv'
<1>1. /\ rel' = [rel EXCEPT !.head.cat[f] = Open]
      /\ UNCHANGED <<main, pr, freeze, promote, gated, lock, faults>>
  BY DEF Refine, mainVars, ghostVars, boundVars
<1>2. rel'.v = rel.v /\ rel'.up = rel.up /\ rel'.origin = rel.origin
      /\ Content(rel'.head) = Content(rel.head)
  BY <1>1, SomeCommits DEF Shape, Releases, Content
<1>3. main.hot \in Nat /\ \A p \in Promoter : promote[p].seen \in Nat
  BY HotIsNat DEF Shape, Promotes
<1> QED
  BY <1>1, <1>2, <1>3, GatedFrame DEF Shape

\* A ship that merges has seen no freeze of the release it merges into, and one that
\* holds the lock keeps the promote from freezing: beside a frozen promote the
\* release head stays as it is.
LEMMA GatedShip ==
    ASSUME Shape, Core, GInv, NEW w \in Worker, ShipStarts(w) \/ ShipStep(w) \/ ShipDies(w)
    PROVE  GInv'
<1> USE DEF Shape
<1>1. UNCHANGED <<main, pr, freeze, promote, gated>>
  BY DEF ShipStarts, ShipStep, ShipDies, FeatureGate, ShipGivesUp, ShipMerges, ShipLands,
         ShipRollsBack, ShipRollsBackTo, mainVars, ghostVars
<1>2. faults' = faults \/ faults' = faults + 1
  BY DEF ShipStarts, ShipStep, ShipDies, FeatureGate, ResolveMain, ShipGivesUp, ShipMerges,
         ShipLands, ShipRollsBack, ShipRollsBackTo, boundVars
<1>3. main.hot \in Nat /\ \A p \in Promoter : promote[p].seen \in Nat
  BY HotIsNat DEF Promotes
<1>4. CASE ShipStarts(w) \/ FeatureGate(w) \/ ShipGivesUp(w)
  <2>1. UNCHANGED <<rel, lock>>
    BY <1>4 DEF ShipStarts, FeatureGate, ShipGivesUp
  <2> QED
    BY <1>1, <1>2, <1>3, <2>1, GatedFrame
<1>5. CASE ShipMerges(w) \/ ShipLands(w) \/ ShipRollsBack(w)
  <2>1. \A p \in Promoter : ~Frozen(p)
    <3>1. CASE ShipMerges(w)
      <4>1. ~freeze[ship[w].v].on /\ ship[w].pc = "want"
        BY <3>1 DEF ShipMerges, MayMerge
      <4>2. ~freeze[rel.v].on
        BY <4>1 DEF Core, OwnRelease
      <4> QED
        BY <4>2 DEF GInv, FreezeInv
    <3>2. CASE ShipLands(w) \/ ShipRollsBack(w)
      <4>1. lock = w
        BY <3>2 DEF ShipLands, ShipRollsBack, ShipRollsBackTo, Core, LockInv
      <4> QED
        BY <4>1, Bounds DEF GInv, FreezeInv
    <3> QED
      BY <1>5, <3>1, <3>2
  <2>2. rel'.v = rel.v /\ rel'.up = rel.up /\ rel'.origin = rel.origin
    <3>1. CASE ShipMerges(w)
      BY <3>1 DEF ShipMerges, Releases
    <3>2. CASE ShipLands(w)
      BY <3>2 DEF ShipLands, Releases
    <3>3. CASE ShipRollsBack(w)
      BY <3>3 DEF ShipRollsBack, ShipRollsBackTo, Releases
    <3> QED
      BY <1>5, <3>1, <3>2, <3>3
  <2>3. FreezeInv'
    BY <1>1, <2>1, <2>2 DEF GInv, FreezeInv, Frozen
  <2>4. FreshInv'
    BY <1>1, <1>2, <2>1, <2>2 DEF GInv, FreshInv, Frozen
  <2> QED
    BY <1>1, <2>3, <2>4 DEF GInv, RequestInv, MainIsGated
<1>6. CASE ShipDies(w)
  <2>1. rel' = rel /\ lock' \in {lock, NoOne}
    BY <1>6 DEF ShipDies
  <2>2. FreezeInv'
    BY <1>1, <2>1 DEF GInv, FreezeInv, Frozen
  <2>3. FreshInv'
    BY <1>1, <1>2, <2>1 DEF GInv, FreshInv
  <2> QED
    BY <1>1, <2>2, <2>3 DEF GInv, RequestInv, MainIsGated
<1> QED
  BY <1>4, <1>5, <1>6 DEF ShipStep

\* Where the one promoter is, and with what.
LEMMA ItsPromote ==
    ASSUME Alone, NEW p \in Promoter
    PROVE  \A q \in Promoter : q = p
BY DEF Alone

LEMMA GatedPromote ==
    ASSUME Shape, Core, GInv, Alone, NEW p \in Promoter,
           PromoteStarts(p) \/ PromoteStep(p) \/ PromoterDies(p)
    PROVE  GInv'
<1> USE ItsPromote DEF Shape, mainVars, ghostVars, boundVars
<1>0. main.hot \in Nat /\ promote[p] \in Promotes /\ promote[p].seen \in Nat
      /\ rel.head.hot \in Nat /\ rel.origin.hot \in Nat
  BY HotIsNat DEF Promotes, Releases
<1>1. CASE PromoteStarts(p)
  <2>1. promote'[p].pc = "start" /\ promote'[p].v = rel.v /\ promote'[p].seen = 0
    <3>1. PICK b \in BOOLEAN :
            promote' = [promote EXCEPT ![p] = [NotPromoting EXCEPT !.pc = "start", !.v = rel.v,
                                                                  !.babysit = b]]
      BY <1>1 DEF PromoteStarts
    <3> QED
      BY <3>1 DEF NotPromoting
  <2>2. rel.up /\ UNCHANGED <<rel, pr, gated, lock>>
    BY <1>1 DEF PromoteStarts, InProgress
  <2>3. FreezeInv'
    BY <2>1, <2>2 DEF FreezeInv, Frozen
  <2>4. FreshInv'
    BY <2>1 DEF FreshInv
  <2> QED
    BY <2>2, <2>3, <2>4 DEF GInv, RequestInv, MainIsGated
<1>2. CASE Freezes(p)
  <2>1. /\ promote[p].pc = "start" /\ lock = NoOne
        /\ freeze' = [freeze EXCEPT ![promote[p].v].on = TRUE]
        /\ promote' = [promote EXCEPT ![p].pc = "frozen"]
        /\ rel' = [rel EXCEPT !.head = Synced(rel.head)]
        /\ UNCHANGED <<pr, gated, lock>>
    BY <1>2 DEF Freezes, Goes
  <2>2. rel.up /\ promote[p].v = rel.v /\ promote[p].seen = 0
    BY <2>1 DEF GInv, FreezeInv, FreshInv
  <2>3. rel'.up = rel.up /\ rel'.v = rel.v
    BY <2>1 DEF Releases
  <2>4. freeze'[rel.v].on
    BY <2>1, <2>2, OwnVersion DEF Core, Freezings
  <2>5. promote'[p].pc = "frozen" /\ promote'[p].v = rel.v /\ promote'[p].seen = 0
    BY <2>1, <2>2 DEF Promotes
  <2>6. FreezeInv'
    BY <2>1, <2>2, <2>3, <2>4, <2>5 DEF FreezeInv, Frozen
  <2>7. FreshInv'
    BY <2>5 DEF FreshInv
  <2> QED
    BY <2>1, <2>6, <2>7 DEF GInv, RequestInv, MainIsGated
<1>3. CASE Gate2(p)
  <2>1. /\ promote[p].pc = "frozen" /\ gated'.content = Content(rel.head) /\ gated'.pushed = gated.pushed
        /\ promote' = [promote EXCEPT ![p].pc = "gated"]
        /\ UNCHANGED <<rel, pr, freeze, lock>>
    BY <1>3 DEF Gate2, Goes
  <2>2. promote'[p].pc = "gated" /\ promote'[p].v = promote[p].v /\ promote'[p].seen = promote[p].seen
    BY <2>1 DEF Promotes
  <2>3. FreezeInv'
    BY <2>1, <2>2 DEF GInv, FreezeInv, Frozen
  <2>4. FreshInv'
    BY <2>1, <2>2 DEF GInv, FreshInv
  <2> QED
    BY <2>1, <2>3, <2>4 DEF GInv, RequestInv, MainIsGated
<1>4. CASE Pushes(p)
  <2>1. /\ promote[p].pc = "gated"
        /\ rel' = [rel EXCEPT !.pushed = TRUE, !.origin = rel.head]
        /\ freeze' = [freeze EXCEPT ![promote[p].v] = [@ EXCEPT !.pushed = TRUE, !.head = rel.head]]
        /\ promote' = [promote EXCEPT ![p] = [@ EXCEPT !.pc = "pushed", !.pushed = rel.head]]
        /\ gated' = [gated EXCEPT !.pushed = (Content(rel.head) = gated.content)]
        /\ UNCHANGED <<pr, lock>>
    BY <1>4 DEF Pushes
  <2>2. rel'.v = rel.v /\ rel'.up = rel.up /\ rel'.head = rel.head
    BY <2>1 DEF Releases
  <2>3. promote'[p].pc = "pushed" /\ promote'[p].v = promote[p].v /\ promote'[p].seen = promote[p].seen
    BY <2>1 DEF Promotes
  <2>4. Frozen(p) /\ rel.up /\ promote[p].v = rel.v /\ freeze[rel.v].on /\ lock = NoOne
        /\ Content(rel.head) = gated.content
    BY <2>1 DEF GInv, FreezeInv, Frozen
  <2>5. gated'.pushed = TRUE /\ gated'.content = gated.content
    BY <2>1, <2>4
  <2>6. freeze'[rel.v].on
    BY <2>1, <2>4, OwnVersion DEF Core, Freezings
  <2>7. FreezeInv'
    BY <2>1, <2>2, <2>3, <2>4, <2>5, <2>6 DEF FreezeInv, Frozen
  <2>8. FreshInv'
    BY <2>1, <2>3 DEF GInv, FreshInv
  <2> QED
    BY <2>1, <2>5, <2>7, <2>8 DEF GInv, RequestInv, MainIsGated
<1>5. CASE OpensPR(p)
  <2>1. /\ promote[p].pc = "pushed" /\ pr' = [NoRequest EXCEPT !.st = "open"]
        /\ UNCHANGED <<rel, freeze, lock, gated>>
    BY <1>5 DEF OpensPR
  <2>2. promote'[p].pc \in {"watch", "finalize"} /\ promote'[p].v = promote[p].v
        /\ promote'[p].seen = promote[p].seen
    BY <1>5 DEF OpensPR, Goes, Promotes
  <2>3. gated.pushed /\ promote[p].seen = 0
    BY <2>1 DEF GInv, FreezeInv, FreshInv, Frozen
  <2>4. FreezeInv'
    BY <2>1, <2>2 DEF GInv, FreezeInv, Frozen
  <2>5. FreshInv'
    BY <1>0, <2>1, <2>2, <2>3 DEF FreshInv
  <2> QED
    BY <2>1, <2>3, <2>4, <2>5 DEF GInv, RequestInv, MainIsGated, NoRequest
<1>6. CASE ChecksPass(p)
  <2>1. /\ promote[p].pc = "watch"
        /\ promote' = [promote EXCEPT ![p] = [@ EXCEPT !.pc = "guard", !.seen = main.hot]]
        /\ UNCHANGED <<main, rel, pr, freeze, lock, gated>>
    BY <1>6 DEF ChecksPass
  <2>2. promote'[p].pc = "guard" /\ promote'[p].v = promote[p].v /\ promote'[p].seen = main.hot
    BY <2>1 DEF Promotes
  <2>3. FreezeInv'
    BY <2>1, <2>2 DEF GInv, FreezeInv, Frozen
  <2>4. FreshInv'
    BY <1>0, <2>1, <2>2 DEF FreshInv
  <2> QED
    BY <2>1, <2>3, <2>4 DEF GInv, RequestInv, MainIsGated
<1>7. CASE Guard(p)
  <2>1. /\ promote[p].pc = "guard" /\ MainUnmoved
        /\ promote' = [promote EXCEPT ![p] = [@ EXCEPT !.pc = "finalize", !.pushed = Nothing]]
        /\ UNCHANGED <<main, rel, pr, freeze, lock, gated>>
    BY <1>7 DEF Guard
  <2>2. promote'[p].pc = "finalize" /\ promote'[p].v = promote[p].v /\ promote'[p].seen = promote[p].seen
    BY <2>1 DEF Promotes
  <2>3. FreezeInv'
    BY <2>1, <2>2 DEF GInv, FreezeInv, Frozen
  <2>4. faults' = 0 => tracked' = main
    BY <1>7 DEF Guard, ResolveMain
  <2>5. faults' = 0 => main.hot <= rel.head.hot
    BY <2>1, <2>4 DEF MainUnmoved
  <2>6. main.hot >= promote[p].seen
    BY <2>1 DEF GInv, FreshInv
  <2>7. FreshInv'
    BY <1>0, <2>1, <2>2, <2>5, <2>6 DEF FreshInv
  <2> QED
    BY <2>1, <2>3, <2>7 DEF GInv, RequestInv, MainIsGated
<1>8. CASE Finalizes(p)
  <2>1. /\ promote[p].pc = "finalize" /\ promote' = [promote EXCEPT ![p].pc = "push2"]
        /\ UNCHANGED <<main, pr, freeze, lock, gated, faults>>
    BY <1>8 DEF Finalizes, Goes
  <2>2. rel'.v = rel.v /\ rel'.up = rel.up /\ rel'.head = rel.head
    BY <1>8 DEF Finalizes, Releases
  <2>3. promote'[p].pc = "push2" /\ promote'[p].v = promote[p].v /\ promote'[p].seen = promote[p].seen
    BY <2>1 DEF Promotes
  <2>4. FreezeInv'
    BY <2>1, <2>2, <2>3 DEF GInv, FreezeInv, Frozen
  <2>5. FreshInv'
    BY <2>1, <2>2, <2>3 DEF GInv, FreshInv
  <2> QED
    BY <2>1, <2>4, <2>5 DEF GInv, RequestInv, MainIsGated
<1>9. CASE PushesAgain(p)
  <2>1. /\ promote[p].pc = "push2"
        /\ rel' = [rel EXCEPT !.origin = rel.head]
        /\ promote' = [promote EXCEPT ![p] = IF @.babysit THEN [@ EXCEPT !.pc = "merge"] ELSE NotPromoting]
        /\ gated' = [gated EXCEPT !.pushed = (Content(rel.head) = gated.content)]
        /\ UNCHANGED <<pr, faults>>
    BY <1>9 DEF PushesAgain
  <2>2. rel'.v = rel.v /\ rel'.up = rel.up /\ rel'.origin = rel.head
    BY <2>1 DEF Releases
  <2>3. \/ promote'[p].pc = "merge" /\ promote'[p].v = promote[p].v /\ promote'[p].seen = promote[p].seen
        \/ promote'[p].pc = "idle" /\ promote'[p].seen = 0
    BY <2>1 DEF Promotes, NotPromoting
  <2>4. rel.up /\ promote[p].v = rel.v /\ Content(rel.head) = gated.content
    BY <2>1 DEF GInv, FreezeInv, Frozen
  <2>5. gated'.pushed = TRUE
    BY <2>1, <2>4
  <2>6. FreezeInv'
    BY <2>2, <2>3, <2>4 DEF FreezeInv, Frozen
  <2>7. FreshInv'
    BY <2>1, <2>2, <2>3 DEF GInv, FreshInv
  <2> QED
    BY <2>1, <2>5, <2>6, <2>7 DEF GInv, RequestInv, MainIsGated
<1>10. CASE Merges(p)
  <2>1. /\ Squash /\ pr.st = "open"
        /\ promote' = [promote EXCEPT ![p] = [@ EXCEPT !.pc = "adopt", !.seen = 0]]
    BY <1>10 DEF Merges, Mergeable
  <2>2. promote'[p].pc = "adopt" /\ promote'[p].seen = 0
    BY <2>1 DEF Promotes
  <2>3. pr'.st = "merged" /\ pr'.gated
    BY <2>1 DEF Squash, GInv, RequestInv
  <2>4. FreezeInv' /\ FreshInv'
    BY <2>2 DEF FreezeInv, Frozen, FreshInv
  <2> QED
    BY <2>3, <2>4 DEF GInv, RequestInv, MainIsGated
<1>11. CASE PromoteFails(p) \/ PromoterDies(p)
  <2>1. promote'[p] = NotPromoting /\ UNCHANGED <<pr, gated>>
    BY <1>11 DEF PromoteFails, PromoterDies
  <2>2. FreezeInv' /\ FreshInv'
    BY <2>1 DEF FreezeInv, Frozen, FreshInv, NotPromoting
  <2> QED
    BY <2>1, <2>2 DEF GInv, RequestInv, MainIsGated
<1> QED
  BY <1>1, <1>2, <1>3, <1>4, <1>5, <1>6, <1>7, <1>8, <1>9, <1>10, <1>11 DEF PromoteStep

LEMMA GatedCleanup ==
    ASSUME Shape, GInv, Alone, NEW p \in Promoter, CleanupStarts(p) \/ CleanupStep(p)
    PROVE  GInv'
<1> USE ItsPromote DEF Shape, mainVars, ghostVars
<1> DEFINE Away == {"idle", "adopt", "strand", "sweep", "remove", "commit", "unfreeze"}
<1>1. promote[p].pc \in Away /\ promote[p].seen = 0
  <2>1. promote[p].pc \in Away
    BY DEF CleanupStarts, CleanupStep, Adopts, Strands, Sweeps, Removes, CommitsCleanup, Unfreezes,
           CleanupFails
  <2> QED
    BY <2>1 DEF GInv, FreshInv
<1>2. promote'[p].pc \in Away /\ promote'[p].seen = 0
  <2>1. CASE CleanupStarts(p)
    <3>1. PICK v \in 1..rel.v :
            promote' = [promote EXCEPT ![p] = [NotPromoting EXCEPT !.pc = "adopt", !.v = v]]
      BY <2>1 DEF CleanupStarts
    <3> QED
      BY <3>1 DEF NotPromoting
  <2>2. CASE Unfreezes(p) \/ CleanupFails(p)
    BY <2>2 DEF Unfreezes, CleanupFails, NotPromoting
  <2>3. CASE Adopts(p) \/ Strands(p) \/ Sweeps(p) \/ Removes(p) \/ CommitsCleanup(p)
    BY <1>1, <2>3 DEF Adopts, Strands, Sweeps, Removes, CommitsCleanup, Goes, Promotes
  <2> QED
    BY <2>1, <2>2, <2>3 DEF CleanupStep
<1>3. FreezeInv' /\ FreshInv'
  BY <1>2 DEF FreezeInv, Frozen, FreshInv
<1>4. gated' = gated
  BY DEF CleanupStarts, CleanupStep, Adopts, Strands, Sweeps, Removes, CommitsCleanup, Unfreezes,
         CleanupFails
<1>5. pr' = pr \/ (pr'.st = "closed")
  BY DEF CleanupStarts, CleanupStep, Adopts, Strands, Sweeps, Removes, CommitsCleanup, Unfreezes,
         CleanupFails, Requests
<1> QED
  BY <1>3, <1>4, <1>5 DEF GInv, RequestInv, MainIsGated

LEMMA GatedStep ==
    ASSUME Shape, Core, GInv, Alone, Next
    PROVE  GInv'
BY GatedMain, GatedRefine, GatedShip, GatedPromote, GatedCleanup DEF Next

(***************************************************************************)
(* The theorems                                                            *)
(***************************************************************************)
LEMMA InitIInv == Init => IInv
<1> SUFFICES ASSUME Init PROVE IInv
  OBVIOUS
<1>1. Shape
  BY ShapeInit
<1>2. /\ rel.v = 0 /\ ~rel.up /\ rel.head = Nothing /\ rel.origin = Nothing /\ main = Nothing
      /\ here.cat = Nothing.cat /\ lock = NoOne /\ branch = Feature
      /\ \A w \in Worker : ship[w] = NotAtWork
  BY DEF Init
<1>3. Core
  BY <1>2, Bounds DEF Core, LockInv, OwnRelease, GateInv, HeadIsVerified, NotAtWork
<1>4. CarryInv /\ CodeKept
  BY <1>2, NothingCarried DEF CarryInv, CodeKept, Carries
<1> QED
  BY <1>1, <1>3, <1>4 DEF IInv

LEMMA StepIInv == NoLateShip /\ IInv /\ [Next]_vars => IInv'
<1> SUFFICES ASSUME NoLateShip, IInv, [Next]_vars PROVE IInv'
  OBVIOUS
<1>1. CASE Next
  BY <1>1, ShapeStep, CoreStep, KeptStep DEF IInv, Kept
<1>2. CASE UNCHANGED vars
  BY <1>2 DEF vars, IInv, Shape, Core, LockInv, OwnRelease, GateInv, HeadIsVerified, Standing, CarryInv,
              CodeKept, Carries
<1> QED
  BY <1>1, <1>2

LEMMA InitGInv == Init => GInv
BY DEF Init, GInv, FreezeInv, Frozen, RequestInv, MainIsGated, FreshInv, NoRequest, NotPromoting

LEMMA StepGInv == NoLateShip /\ Alone /\ IInv /\ GInv /\ [Next]_vars => GInv'
<1> SUFFICES ASSUME Alone, IInv, GInv, [Next]_vars PROVE GInv'
  OBVIOUS
<1>1. CASE Next
  BY <1>1, GatedStep DEF IInv
<1>2. CASE UNCHANGED vars
  BY <1>2 DEF vars, GInv, FreezeInv, Frozen, RequestInv, MainIsGated, FreshInv
<1> QED
  BY <1>1, <1>2

\* Types hold whatever is done beside the intended use but for a late ship: in
\* particular the lock of the release worktree is held by exactly the ship that
\* gates the combined tree.
THEOREM TypeCorrect ==
    ASSUME NoLateShip
    PROVE  Spec => []TypeOK
<1>1. IInv => TypeOK
  BY SomeCommits DEF IInv, Core, LockInv, Shape, Releases, Requests, TypeOK
<1> QED
  BY <1>1, InitIInv, StepIInv, PTL DEF Spec

\* Whenever the release worktree is free, its head is what Gate 1 passed last or a
\* promote synced: no failed ship and no refusal leaves half a ship behind. After a
\* ship that was killed between its merge and the result of Gate 1 the head is that
\* untested merge, no less and no more, until Gate 1 passes again.
THEOREM VerifiedHead ==
    ASSUME NoLateShip
    PROVE  Spec => []HeadIsVerified
<1>1. IInv => HeadIsVerified
  BY DEF IInv, Core
<1> QED
  BY <1>1, InitIInv, StepIInv, PTL DEF Spec

\* A cleanup deletes branches and worktrees of features whose code is on main, and no
\* others, also when it runs early, again, beside ships, hotfixes or another promote.
THEOREM NoCodeDeleted ==
    ASSUME NoLateShip
    PROVE  Spec => []CodeKept
<1>1. IInv => CodeKept
  BY DEF IInv
<1> QED
  BY <1>1, InitIInv, StepIInv, PTL DEF Spec

\* What a pull request brings to main was passed by Gate 2, whoever merges it and
\* however ships ran beside the promote, if one promote runs at a time.
THEOREM OnlyGatedMerges ==
    ASSUME NoLateShip, Alone
    PROVE  Spec => []MainIsGated
<1>1. GInv => MainIsGated
  BY DEF GInv
<1> QED
  BY <1>1, InitIInv, StepIInv, InitGInv, StepGInv, PTL DEF Spec

\* A babysitting promote merges no head that lacks a hotfix it could have seen.
THEOREM FreshMerges ==
    ASSUME NoLateShip, Alone
    PROVE  Spec => BabysitIsFresh
<1> DEFINE Step == \A p \in Promoter : promote[p].pc = "merge" /\ promote'[p].pc = "adopt" /\ faults = 0
                     => rel.origin.hot >= promote[p].seen
<1>1. GInv => Step
  BY DEF GInv, FreshInv
<1>2. GInv /\ [Next]_vars => [Step]_vars
  BY <1>1
<1> QED
  BY <1>2, InitIInv, StepIInv, InitGInv, StepGInv, PTL DEF Spec, BabysitIsFresh

(***************************************************************************)
(* Delivery: no feature is lost                                            *)
(***************************************************************************)
LEMMA OnlyOne ==
    ASSUME Alone, Shape, NEW p \in Promoter
    PROVE  /\ \A q \in Promoter : q = p
           /\ \A x : promote' = [promote EXCEPT ![p] = x] => promote'[p] = x
           /\ \A pc : Goes(p, pc) => /\ promote'[p].pc = pc /\ promote'[p].v = promote[p].v
                                     /\ promote'[p].babysit = promote[p].babysit
BY DEF Alone, Shape, Promotes, Goes

LEMMA RelFacts ==
    ASSUME Shape
    PROVE  /\ rel = [v |-> rel.v, up |-> rel.up, head |-> rel.head, fin |-> rel.fin,
                     pushed |-> rel.pushed, origin |-> rel.origin]
           /\ rel.v \in Nat /\ rel.v \in 0..MaxVersion
           /\ \A c : LET r == [rel EXCEPT !.head = c]
                     IN  /\ r.v = rel.v /\ r.up = rel.up /\ r.fin = rel.fin
                         /\ r.pushed = rel.pushed /\ r.origin = rel.origin /\ r.head = c
           /\ rel.head \in Commit /\ rel.origin \in Commit
BY Bounds DEF Shape, Releases

\* Steps of nobody, and of ships, that leave catalogs, requests and promotes alone.
LEMMA DBeside ==
    ASSUME DInv, UNCHANGED <<here, told, pr, freeze, promote>>,
           main'.feats = main.feats, main'.cat = main.cat,
           main' = main \/ \A p \in Promoter : ~Cleaning(p),
           rel'.v = rel.v, rel'.up = rel.up, rel'.fin = rel.fin, rel'.pushed = rel.pushed,
           rel'.origin = rel.origin, rel'.head.cat = rel.head.cat, BackOK',
           \A p \in Promoter : Cleaning(p) /\ InProgress => (Idle => Idle')
    PROVE  DInv'
<1>1. Late' = Late
  BY DEF Late
<1>2. HereOK' /\ AtMain' /\ RequestOK'
  BY DEF DInv, HereOK, AtMain, RequestOK, Cleaning
<1>3. MergedOK'
  BY DEF DInv, MergedOK
<1>4. CleaningOK'
  BY <1>1 DEF DInv, CleaningOK, Cleaning, InProgress
<1>5. LateOK' /\ SweptOK'
  BY <1>1 DEF DInv, LateOK, SweptOK
<1> QED
  BY <1>2, <1>3, <1>4, <1>5 DEF DInv

LEMMA DHotfix ==
    ASSUME Shape, DInv, Liberties = {}, Hotfix
    PROVE  DInv'
<1>1. main'.feats = main.feats /\ main'.cat = main.cat
  BY SomeCommits DEF Hotfix, Shape
<1>2. \A p \in Promoter : ~Cleaning(p)
  BY DEF Hotfix
<1>3. BackOK'
  BY DEF Hotfix, DInv, BackOK
<1> QED
  BY <1>1, <1>2, <1>3, DBeside DEF Hotfix, ghostVars

LEMMA DShip ==
    ASSUME Shape, Core, DInv, Liberties = {}, NEW w \in Worker,
           \/ ShipStarts(w) \/ FeatureGate(w) \/ ShipGivesUp(w) \/ ShipMerges(w)
           \/ ShipRollsBack(w) \/ ShipDies(w)
    PROVE  DInv'
<1>1. UNCHANGED <<main, here, told, pr, freeze, promote>>
  BY DEF ShipStarts, FeatureGate, ShipGivesUp, ShipMerges, ShipRollsBack, ShipRollsBackTo, ShipDies,
         mainVars, ghostVars
<1>2. /\ rel'.v = rel.v /\ rel'.up = rel.up /\ rel'.fin = rel.fin /\ rel'.pushed = rel.pushed
      /\ rel'.origin = rel.origin /\ rel'.head.cat = rel.head.cat
  <2>1. CASE ShipMerges(w)
    <3>1. /\ Synced(rel.head) \in Commit /\ Synced(rel.head).cat = rel.head.cat
          /\ rel' = [rel EXCEPT !.head = [Synced(rel.head) EXCEPT !.feats = @ \cup ({w} \cap Feature)]]
      BY <2>1, RelFacts, SyncedCommit DEF ShipMerges, Shape
    <3>2. [Synced(rel.head) EXCEPT !.feats = @ \cup ({w} \cap Feature)].cat = rel.head.cat
      BY <3>1, SomeCommits
    <3> QED
      BY <3>1, <3>2, RelFacts
  <2>2. CASE ShipRollsBack(w)
    BY <2>2, RelFacts DEF ShipRollsBack, ShipRollsBackTo, DInv, BackOK
  <2>3. CASE ShipStarts(w) \/ FeatureGate(w) \/ ShipGivesUp(w) \/ ShipDies(w)
    BY <2>3 DEF ShipStarts, FeatureGate, ShipGivesUp, ShipDies
  <2> QED
    BY <2>1, <2>2, <2>3
<1>3. \A u \in Worker \ {w} : ship'[u] = ship[u]
  BY DEF ShipStarts, FeatureGate, ShipGivesUp, ShipMerges, ShipRollsBack, ShipRollsBackTo, ShipDies,
         Shape
<1>4. ship'[w].pc = "gate" => ship'[w].pre.cat = rel.head.cat
  <2>1. CASE ShipMerges(w)
    BY <2>1 DEF ShipMerges, Shape, Ships
  <2>2. CASE ShipStarts(w)
    BY <2>2 DEF ShipStarts, Shape, Ships
  <2>3. CASE FeatureGate(w)
    BY <2>3 DEF FeatureGate, Shape, Ships
  <2>4. CASE ShipGivesUp(w) \/ ShipRollsBack(w) \/ ShipDies(w)
    BY <2>4 DEF ShipGivesUp, ShipRollsBack, ShipRollsBackTo, ShipDies, Shape, NotAtWork
  <2> QED
    BY <2>1, <2>2, <2>3, <2>4
<1>5. BackOK'
  BY <1>2, <1>3, <1>4 DEF DInv, BackOK
<1>6. \A p \in Promoter : Cleaning(p) /\ InProgress => (Idle => Idle')
  BY DEF ShipStarts, FeatureGate, ShipGivesUp, ShipMerges, ShipRollsBack, ShipRollsBackTo, ShipDies, Idle
<1> QED
  BY <1>1, <1>2, <1>5, <1>6, DBeside

LEMMA DShipLands ==
    ASSUME Shape, Core, CarryInv, DInv, NEW w \in Worker, ShipLands(w)
    PROVE  DInv'
<1>1. UNCHANGED <<main, here, pr, freeze, promote>> /\ ship[w].pc = "gate" /\ lock = w
  BY DEF ShipLands, mainVars, Core, LockInv
<1>2. ship' = [ship EXCEPT ![w] = NotAtWork] /\ NotAtWork.pc = "idle"
  BY DEF ShipLands, NotAtWork
<1>3. BackOK'
  <2>1. \A u \in Worker : ship'[u].pc # "gate"
    BY <1>1, <1>2 DEF Core, LockInv, Shape
  <2> QED
    BY <2>1 DEF BackOK
<1>4. \A p \in Promoter : ~(Cleaning(p) /\ InProgress)
  BY <1>1 DEF DInv, CleaningOK, Idle
<1>5. CASE w \in Feature /\ InProgress /\ rel.head.cat[w].st # "none"
  <2> DEFINE cat == [rel.head.cat EXCEPT ![w] = Entry("shipped", ship[w].v)]
  <2>1. /\ told' = told \cup {w} /\ ship[w].v = rel.v
        /\ rel' = [rel EXCEPT !.head = [rel.head EXCEPT !.cat = cat]]
    BY <1>1, <1>5 DEF ShipLands, Core, OwnRelease
  <2>2. /\ [rel.head EXCEPT !.cat = cat].cat = cat /\ DOMAIN rel.head.cat = Feature
        /\ cat[w] = Entry("shipped", rel.v) /\ \A g \in Feature \ {w} : cat[g] = rel.head.cat[g]
    BY <1>5, <2>1, RelFacts, SomeCommits
  <2> HIDE DEF cat
  <2>3. /\ rel'.v = rel.v /\ rel'.up /\ rel.up /\ rel'.fin = rel.fin /\ rel'.pushed = rel.pushed
        /\ rel'.origin = rel.origin
        /\ rel'.head.cat[w] = Entry("shipped", rel'.v)
        /\ \A g \in Feature \ {w} : rel'.head.cat[g] = rel.head.cat[g]
    BY <1>5, <2>1, <2>2, RelFacts DEF InProgress
  <2>4. Late' \subseteq Late \cup {w} /\ Late \subseteq Feature
    BY <1>1, <2>1 DEF Late, Shape
  <2>5. \A p \in Promoter : ~Cleaning(p) /\ ~Cleaning(p)'
    BY <1>1, <1>4, <1>5 DEF Cleaning
  <2>6. HereOK' /\ AtMain' /\ RequestOK' /\ MergedOK'
    BY <1>1, <2>3 DEF DInv, HereOK, AtMain, RequestOK, MergedOK
  <2>7. CleaningOK' /\ SweptOK'
    BY <2>5 DEF CleaningOK, SweptOK, Cleaning
  <2>8. LateOK'
    BY <1>1, <2>3, <2>4 DEF DInv, LateOK
  <2> QED
    BY <1>3, <2>6, <2>7, <2>8 DEF DInv
<1>6. CASE ~(w \in Feature /\ InProgress /\ rel.head.cat[w].st # "none")
  <2>1. UNCHANGED <<rel, told>>
    BY <1>6 DEF ShipLands
  <2> QED
    BY <1>1, <1>3, <1>4, <2>1, DBeside
<1> QED
  BY <1>5, <1>6

LEMMA DRefine ==
    ASSUME Shape, Core, DInv, NEW f \in Feature, Refine(f)
    PROVE  DInv'
<1> DEFINE cat == [rel.head.cat EXCEPT ![f] = Open]
<1>1. /\ UNCHANGED <<main, here, told, pr, freeze, promote, ship>> /\ lock = NoOne
      /\ rel.head.cat[f] = Absent /\ rel' = [rel EXCEPT !.head = [rel.head EXCEPT !.cat = cat]]
  BY DEF Refine, mainVars, ghostVars
<1>2. /\ [rel.head EXCEPT !.cat = cat].cat = cat /\ DOMAIN rel.head.cat = Feature
      /\ \A g \in Feature \ {f} : cat[g] = rel.head.cat[g]
  BY RelFacts, SomeCommits
<1> HIDE DEF cat
<1>a. rel'.head = [rel.head EXCEPT !.cat = cat]
  BY <1>1, RelFacts
<1>3. /\ rel'.v = rel.v /\ rel'.up = rel.up /\ rel'.fin = rel.fin /\ rel'.pushed = rel.pushed
      /\ rel'.origin = rel.origin
      /\ \A g \in Feature \ {f} : rel'.head.cat[g] = rel.head.cat[g]
  BY <1>1, <1>2, <1>a, RelFacts
<1>4. rel.up /\ f \notin Late /\ Late' = Late /\ Late \subseteq Feature
  BY <1>1 DEF DInv, LateOK, Late, Shape, Refine, InProgress, Absent, Open, Entry
<1>5. HereOK' /\ AtMain' /\ RequestOK' /\ MergedOK'
  BY <1>1, <1>3 DEF DInv, HereOK, AtMain, RequestOK, MergedOK
<1>6. CleaningOK' /\ SweptOK'
  BY <1>1, <1>3, <1>4 DEF DInv, CleaningOK, SweptOK, Cleaning, InProgress, Idle
<1>7. LateOK'
  BY <1>1, <1>3, <1>4 DEF DInv, LateOK
<1>8. BackOK'
  BY <1>1, NobodyGates DEF BackOK
<1> QED
  BY <1>5, <1>6, <1>7, <1>8 DEF DInv

LEMMA DNewRelease ==
    ASSUME Shape, Core, CarryInv, GInv, DInv, Liberties = {}, NewRelease
    PROVE  DInv'
<1>1. /\ UNCHANGED <<main, freeze, promote, ship, told>> /\ ~rel.up /\ here.st = "clean"
      /\ here' = [at |-> main, cat |-> main.cat, st |-> "clean"]
      /\ rel'.v = rel.v + 1 /\ rel'.up /\ rel'.head = main /\ ~rel'.fin /\ ~rel'.pushed
      /\ pr'.st = "none" /\ Idle /\ rel.v \in Nat /\ rel'.v \in Version
  BY RelFacts, Bounds DEF NewRelease, NoRequest, Idle, Version
<1>2. Late' = Late /\ \A f \in Late : main.cat[f] = Open
  <2>1. Late \subseteq Feature
    BY DEF Late, Shape
  <2> QED
    BY <1>1, <2>1 DEF DInv, LateOK, Late, HereOK
<1>3. \A p \in Promoter : promote[p].pc \in {"idle", "adopt", "strand", "sweep", "remove", "commit",
                                            "unfreeze"}
  BY <1>1 DEF GInv, FreezeInv, Frozen, Shape, Promotes
<1>4. HereOK' /\ AtMain'
  BY <1>1 DEF HereOK, AtMain
<1>5. RequestOK'
  BY <1>1, <1>3 DEF RequestOK
<1>6. MergedOK'
  BY <1>1 DEF DInv, MergedOK, Version
<1>7. CleaningOK'
  <2> SUFFICES ASSUME NEW p \in Promoter, Cleaning(p)
               PROVE  /\ promote[p].v \in 1..rel'.v /\ promote[p].v # rel'.v /\ Idle'
    BY <1>1, <1>2 DEF CleaningOK, Cleaning
  <2>1. promote[p].v \in 1..rel.v
    BY DEF DInv, CleaningOK
  <2> QED
    BY <1>1, <2>1 DEF Idle
<1>8. LateOK' /\ SweptOK'
  BY <1>1, <1>2 DEF LateOK, SweptOK
<1>9. BackOK'
  BY <1>1 DEF BackOK, Idle
<1> QED
  BY <1>4, <1>5, <1>6, <1>7, <1>8, <1>9 DEF DInv

\* What a merge brings to main. Nobody promotes while a person merges.
LEMMA DSquash ==
    ASSUME Shape, Core, CarryInv, DInv, Squash, pr.st = "open",
           UNCHANGED <<here, rel, freeze, ship, told>>,
           \A p \in Promoter : ~Cleaning(p),
           \/ promote' = promote /\ \A p \in Promoter : promote[p].pc = "idle"
           \/ \A p \in Promoter : promote'[p].pc = "adopt" /\ promote'[p].v = rel.v /\ rel.fin
    PROVE  DInv'
<1>1. /\ main'.feats = main.feats \cup rel.origin.feats /\ main'.cat = rel.origin.cat
      /\ pr'.st = "merged" /\ pr'.head = rel.origin
  BY DEF Squash
<1>2. rel.up /\ rel.pushed /\ rel.v > 0 /\ rel.v \in Nat
  BY RelFacts DEF DInv, RequestOK, Core, OwnRelease
<1>3. Late' \subseteq Late /\ Late \subseteq Feature
  BY <1>1 DEF Late, Shape
<1>4. HereOK' /\ BackOK'
  BY DEF DInv, HereOK, BackOK
<1>5. AtMain' /\ RequestOK' /\ SweptOK'
  BY <1>1 DEF AtMain, RequestOK, SweptOK
<1>6. MergedOK'
  BY <1>1, <1>2 DEF DInv, MergedOK
<1>7. CleaningOK'
  BY <1>1, <1>2 DEF CleaningOK, Cleaning, InProgress
<1>8. LateOK'
  BY <1>1, <1>2, <1>3 DEF DInv, LateOK
<1> QED
  BY <1>4, <1>5, <1>6, <1>7, <1>8 DEF DInv

LEMMA DHandMerge ==
    ASSUME Shape, Core, CarryInv, DInv, Liberties = {}, HandMerge
    PROVE  DInv'
<1>1. /\ Squash /\ pr.st = "open" /\ UNCHANGED <<here, rel, freeze, ship, told, promote>>
      /\ \A p \in Promoter : promote[p].pc = "idle"
  BY DEF HandMerge, Mergeable, ghostVars
<1> QED
  BY <1>1, DSquash DEF Cleaning

LEMMA DMerges ==
    ASSUME Shape, Core, CarryInv, GInv, DInv, Alone, NEW p \in Promoter, Merges(p)
    PROVE  DInv'
<1>1. /\ Squash /\ pr.st = "open" /\ UNCHANGED <<here, rel, freeze, ship, told>>
      /\ promote[p].pc = "merge"
      /\ promote' = [promote EXCEPT ![p] = [promote[p] EXCEPT !.pc = "adopt", !.seen = 0]]
  BY DEF Merges, Mergeable, ghostVars
<1>2. promote'[p].pc = "adopt" /\ promote'[p].v = promote[p].v
  BY <1>1 DEF Shape, Promotes
<1>3. promote[p].v = rel.v /\ rel.fin
  BY <1>1 DEF GInv, FreezeInv, DInv, RequestOK
<1> QED
  BY <1>1, <1>2, <1>3, DSquash, OnlyOne DEF Cleaning

\* Steps between the start of a promote and its push, and the look at main.
LEMMA DGoesOn ==
    ASSUME Shape, Core, GInv, DInv, Alone, NEW p \in Promoter,
           PromoteStarts(p) \/ Freezes(p) \/ Gate2(p) \/ ChecksPass(p) \/ Guard(p)
    PROVE  DInv'
<1>1. UNCHANGED <<main, here, told, pr, ship>> /\ promote[p].pc # "pushed"
  BY DEF PromoteStarts, Freezes, Gate2, ChecksPass, Guard, mainVars, ghostVars
<1>2. /\ rel'.v = rel.v /\ rel'.up = rel.up /\ rel'.fin = rel.fin /\ rel'.pushed = rel.pushed
      /\ rel'.origin = rel.origin /\ rel'.head.cat = rel.head.cat
  <2>1. CASE Freezes(p)
    <3>1. rel' = [rel EXCEPT !.head = Synced(rel.head)] /\ Synced(rel.head).cat = rel.head.cat
      BY <2>1, SyncedCommit, RelFacts DEF Freezes, Shape
    <3> QED
      BY <3>1, RelFacts
  <2>2. CASE ~Freezes(p)
    BY <2>2 DEF PromoteStarts, Gate2, ChecksPass, Guard
  <2> QED
    BY <2>1, <2>2
<1>3. \A v \in Version : freeze'[v].pushed = freeze[v].pushed /\ freeze'[v].head = freeze[v].head
  <2>1. CASE Freezes(p)
    BY <2>1 DEF Freezes, Shape, Freezings
  <2>2. CASE ~Freezes(p)
    BY <2>2 DEF PromoteStarts, Gate2, ChecksPass, Guard
  <2> QED
    BY <2>1, <2>2
<1>4. promote'[p].pc \in {"start", "frozen", "gated", "guard", "finalize"}
  <2>1. CASE PromoteStarts(p)
    <3>1. PICK b \in BOOLEAN :
            promote' = [promote EXCEPT ![p] = [NotPromoting EXCEPT !.pc = "start", !.v = rel.v,
                                                                  !.babysit = b]]
      BY <2>1 DEF PromoteStarts
    <3> QED
      BY <3>1 DEF NotPromoting, Shape
  <2>2. CASE Freezes(p) \/ Gate2(p)
    BY <2>2, OnlyOne DEF Freezes, Gate2
  <2>3. CASE ChecksPass(p)
    BY <2>3 DEF ChecksPass, Shape, Promotes
  <2>4. CASE Guard(p)
    BY <2>4 DEF Guard, Shape, Promotes
  <2> QED
    BY <2>1, <2>2, <2>3, <2>4
<1>5. promote'[p].pc \in {"guard", "finalize"} => promote[p].pc \in {"watch", "guard"}
  <2>1. CASE PromoteStarts(p)
    <3>1. PICK b \in BOOLEAN :
            promote' = [promote EXCEPT ![p] = [NotPromoting EXCEPT !.pc = "start", !.v = rel.v,
                                                                  !.babysit = b]]
      BY <2>1 DEF PromoteStarts
    <3> QED
      BY <3>1 DEF NotPromoting, Shape
  <2>2. CASE Freezes(p) \/ Gate2(p)
    BY <2>2, OnlyOne DEF Freezes, Gate2
  <2>3. CASE ChecksPass(p) \/ Guard(p)
    BY <2>3 DEF ChecksPass, Guard
  <2> QED
    BY <2>1, <2>2, <2>3
<1>6. \A q \in Promoter : q = p
  BY OnlyOne
<1>7. Late' = Late
  BY <1>1 DEF Late
<1>8. HereOK' /\ AtMain' /\ RequestOK'
  BY <1>1, <1>2, <1>4, <1>5, <1>6 DEF DInv, HereOK, AtMain, RequestOK
<1>9. MergedOK'
  <2>1. pr.st = "merged" \/ rel.pushed => rel.v \in Version
    BY RelFacts, Bounds DEF DInv, MergedOK, Version
  <2> QED
    BY <1>1, <1>2, <1>3, <1>6, <2>1 DEF DInv, MergedOK
<1>10. CleaningOK' /\ SweptOK'
  BY <1>4, <1>6 DEF CleaningOK, SweptOK, Cleaning
<1>11. LateOK' /\ BackOK'
  BY <1>1, <1>2, <1>7 DEF DInv, LateOK, BackOK
<1> QED
  BY <1>8, <1>9, <1>10, <1>11 DEF DInv

\* A push makes the head of the release that of origin, and records it.
LEMMA DPush ==
    ASSUME Shape, Core, GInv, DInv, Alone, NEW p \in Promoter,
           Pushes(p) \/ PushesAgain(p)
    PROVE  DInv'
<1>1. UNCHANGED <<main, here, told, pr, ship>> /\ promote[p].pc \in {"gated", "push2"}
  BY DEF Pushes, PushesAgain, mainVars
<1>2. rel.up /\ promote[p].v = rel.v /\ rel.v \in Version
  BY <1>1, OwnVersion DEF GInv, FreezeInv, Frozen, Core
<1>3. /\ rel'.v = rel.v /\ rel'.up /\ rel'.fin = rel.fin /\ rel'.pushed
      /\ rel'.origin = rel.head /\ rel'.head = rel.head
  BY <1>2 DEF Pushes, PushesAgain, Shape, Releases
<1>4. /\ freeze'[rel.v].pushed /\ freeze'[rel.v].head = rel.head
      /\ \A v \in Version \ {rel.v} : freeze'[v] = freeze[v]
  <2>1. freeze' = [freeze EXCEPT ![rel.v] = [freeze[rel.v] EXCEPT !.pushed = TRUE, !.head = rel.head]]
    BY <1>2 DEF Pushes, PushesAgain
  <2> DEFINE x == [freeze[rel.v] EXCEPT !.pushed = TRUE, !.head = rel.head]
  <2>2. x.pushed /\ x.head = rel.head
    BY <1>2 DEF Shape, Freezings
  <2> HIDE DEF x
  <2>3. freeze' = [freeze EXCEPT ![rel.v] = x]
    BY <2>1 DEF x
  <2> QED
    BY <1>2, <2>2, <2>3 DEF Shape
<1>5. \/ promote[p].pc = "gated" /\ promote'[p].pc = "pushed"
      \/ promote[p].pc = "push2" /\ promote'[p].pc \in {"merge", "idle"}
  <2>1. CASE Pushes(p)
    BY <2>1 DEF Pushes, Shape, Promotes
  <2>2. CASE PushesAgain(p)
    BY <2>2 DEF PushesAgain, Shape, Promotes, NotPromoting
  <2> QED
    BY <2>1, <2>2
<1>6. \A q \in Promoter : q = p
  BY OnlyOne
<1>7. Late' = Late
  BY <1>1 DEF Late
<1>8. HereOK' /\ AtMain'
  BY <1>1, <1>5, <1>6 DEF DInv, HereOK, AtMain
<1>9. RequestOK'
  BY <1>1, <1>2, <1>3, <1>5, <1>6 DEF DInv, RequestOK
<1>10. MergedOK'
  <2>1. promote[p].pc = "push2" => pr.st = "open"
    BY DEF DInv, RequestOK
  <2>2. rel.v > 0 /\ \A v \in Version : v > rel.v => v # rel.v
    BY <1>2, Bounds DEF Version
  <2> QED
    BY <1>1, <1>2, <1>3, <1>4, <1>5, <2>1, <2>2 DEF DInv, MergedOK
<1>11. CleaningOK' /\ SweptOK'
  BY <1>5, <1>6 DEF CleaningOK, SweptOK, Cleaning
<1>12. LateOK' /\ BackOK'
  BY <1>1, <1>2, <1>3, <1>7 DEF DInv, LateOK, BackOK
<1> QED
  BY <1>8, <1>9, <1>10, <1>11, <1>12 DEF DInv

LEMMA DOpens ==
    ASSUME Shape, Core, GInv, DInv, Alone, NEW p \in Promoter, OpensPR(p) \/ Finalizes(p)
    PROVE  DInv'
<1>1. /\ UNCHANGED <<main, here, told, freeze, ship>> /\ promote[p].pc \in {"pushed", "finalize"}
      /\ rel.up /\ rel'.up
  BY RelFacts DEF OpensPR, Finalizes, mainVars, ghostVars, GInv, FreezeInv, Frozen, Shape, Releases
<1>2. /\ rel'.v = rel.v /\ rel'.pushed = rel.pushed /\ rel'.origin = rel.origin /\ rel'.head = rel.head
      /\ rel.fin => rel'.fin
  BY DEF OpensPR, Finalizes, Shape, Releases
<1>3. /\ pr'.st = "open" /\ rel.pushed
      /\ promote'[p].pc \in {"watch", "finalize", "push2"} /\ (promote'[p].pc = "push2" => rel'.fin)
  <2>1. CASE OpensPR(p)
    BY <2>1, OnlyOne DEF OpensPR, NoRequest
  <2>2. CASE Finalizes(p)
    BY <2>2, OnlyOne DEF Finalizes, DInv, RequestOK, Shape, Releases
  <2> QED
    BY <2>1, <2>2
<1>4. \A q \in Promoter : q = p
  BY OnlyOne
<1>5. Late' = Late
  BY <1>1 DEF Late
<1>6. HereOK' /\ AtMain' /\ RequestOK'
  BY <1>1, <1>2, <1>3, <1>4 DEF DInv, HereOK, AtMain, RequestOK
<1>7. MergedOK'
  BY <1>1, <1>2, <1>3 DEF DInv, MergedOK
<1>8. CleaningOK' /\ SweptOK'
  BY <1>3, <1>4 DEF CleaningOK, SweptOK, Cleaning
<1>9. LateOK' /\ BackOK'
  BY <1>1, <1>2, <1>5 DEF DInv, LateOK, BackOK
<1> QED
  BY <1>6, <1>7, <1>8, <1>9 DEF DInv

\* The promoter is at rest again. What it has pushed is not taken for merged: the
\* failure forgets the record, and a death that would not is excluded.
LEMMA DEnds ==
    ASSUME Shape, Core, GInv, DInv, Alone, Liberties = {}, NEW p \in Promoter,
           PromoteFails(p) \/ PromoterDies(p) \/ Unfreezes(p) \/ CleanupFails(p)
    PROVE  DInv'
<1>1. /\ UNCHANGED <<main, told, rel, pr, ship>> /\ promote' = [promote EXCEPT ![p] = NotPromoting]
  BY DEF PromoteFails, PromoterDies, Unfreezes, CleanupFails, mainVars, ghostVars
<1>2. here' = here
  BY DEF PromoteFails, PromoterDies, Unfreezes, CleanupFails, mainVars, DInv, AtMain
<1>3. promote'[p].pc = "idle" /\ \A q \in Promoter : q = p
  <2>1. NotPromoting.pc = "idle"
    BY DEF NotPromoting
  <2> QED
    BY <1>1, <2>1, OnlyOne
<1>4. \/ freeze' = freeze /\ (promote[p].pc = "pushed" => pr.st # "merged")
      \/ /\ freeze' = [freeze EXCEPT ![promote[p].v] = Unfrozen]
         /\ promote[p].pc = "pushed" => promote[p].v = rel.v
  <2>1. CASE PromoteFails(p)
    BY <2>1 DEF PromoteFails, GInv, FreezeInv, Frozen
  <2>2. CASE PromoterDies(p)
    BY <2>2 DEF PromoterDies
  <2>3. CASE Unfreezes(p) \/ CleanupFails(p)
    BY <2>3 DEF Unfreezes, CleanupFails
  <2> QED
    BY <2>1, <2>2, <2>3
<1>5. /\ HereOK' /\ AtMain' /\ RequestOK'
      /\ CleaningOK' /\ SweptOK'
  BY <1>1, <1>2, <1>3 DEF DInv, HereOK, AtMain, RequestOK, CleaningOK, SweptOK, Cleaning
<1>6. MergedOK'
  <2>1. rel.v > 0 => rel.v \in Version
    BY RelFacts, Bounds DEF Version
  <2>2. \A v \in Version : \/ freeze'[v] = freeze[v]
                           \/ ~freeze'[v].pushed
    BY <1>4 DEF Shape, Unfrozen
  <2>3. rel.v \in Version /\ freeze'[rel.v].pushed /\ pr.st = "merged" =>
          freeze[rel.v].head.feats \subseteq main.feats
    <3>1. CASE promote[p].pc # "pushed"
      BY <1>3, <2>2, <3>1 DEF DInv, MergedOK
    <3>2. CASE promote[p].pc = "pushed" /\ rel.v \in Version /\ pr.st = "merged"
      BY <1>4, <3>2 DEF Shape, Unfrozen
    <3> QED
      BY <3>1, <3>2
  <2> QED
    BY <1>1, <2>1, <2>2, <2>3 DEF DInv, MergedOK
<1>7. LateOK' /\ BackOK'
  BY <1>1, <1>2 DEF DInv, LateOK, BackOK, Late
<1> QED
  BY <1>5, <1>6, <1>7 DEF DInv

LEMMA DCleanupStarts ==
    ASSUME Shape, Core, GInv, DInv, Alone, Liberties = {}, NEW p \in Promoter, CleanupStarts(p)
    PROVE  DInv'
<1>1. UNCHANGED <<main, here, told, rel, pr, freeze, ship>> /\ promote[p].pc = "idle"
  BY DEF CleanupStarts, mainVars, ghostVars
<1>2. /\ InProgress => Idle
      /\ promote'[p].pc = "adopt" /\ promote'[p].v = rel.v /\ rel.v \in 1..rel.v /\ pr.st = "merged"
  <2>1. PICK v \in 1..rel.v :
          /\ MayClean(v)
          /\ promote' = [promote EXCEPT ![p] = [NotPromoting EXCEPT !.pc = "adopt", !.v = v]]
    BY DEF CleanupStarts
  <2>2. v = rel.v /\ pr.st = "merged"
    BY <2>1 DEF MayClean
  <2> QED
    BY <2>1, <2>2 DEF CleanupStarts, Idle, Shape, NotPromoting
<1>3. \A q \in Promoter : q = p
  BY OnlyOne
<1>4. Late' = Late
  BY <1>1 DEF Late
<1>5. HereOK' /\ AtMain' /\ RequestOK' /\ MergedOK'
  BY <1>1, <1>2, <1>3 DEF DInv, HereOK, AtMain, RequestOK, MergedOK
<1>6. CleaningOK' /\ SweptOK'
  BY <1>1, <1>2, <1>3, RelFacts DEF CleaningOK, SweptOK, Cleaning, InProgress, Idle
<1>7. LateOK' /\ BackOK'
  BY <1>1, <1>4 DEF DInv, LateOK, BackOK
<1> QED
  BY <1>5, <1>6, <1>7 DEF DInv

\* A cleanup goes from one of its steps to the next and only changes the main checkout.
LEMMA DCleans ==
    ASSUME Shape, DInv, Alone, NEW p \in Promoter, Cleaning(p), Cleaning(p)',
           UNCHANGED <<main, told, rel, pr, freeze, ship>>, promote'[p].v = promote[p].v,
           HereOK', AtMain', SweptOK',
           ~rel.up => \A f \in Late : \/ main.cat[f] = Open
                                      \/ here'.st = "dirty" /\ here'.cat[f] = Open
    PROVE  DInv'
<1>1. \A q \in Promoter : q = p
  BY OnlyOne
<1>2. Late' = Late
  BY DEF Late
<1>3. RequestOK' /\ MergedOK'
  BY <1>1 DEF DInv, RequestOK, MergedOK, Cleaning
<1>4. CleaningOK'
  BY <1>1, <1>2 DEF DInv, CleaningOK, InProgress, Idle
<1>5. LateOK' /\ BackOK'
  BY <1>2 DEF DInv, LateOK, BackOK
<1> QED
  BY <1>3, <1>4, <1>5 DEF DInv

LEMMA DAdopts ==
    ASSUME Shape, DInv, Alone, NEW p \in Promoter, Adopts(p)
    PROVE  DInv'
<1>1. /\ UNCHANGED <<main, told, rel, pr, freeze, ship>> /\ Cleaning(p)
      /\ promote'[p].pc = "strand" /\ promote'[p].v = promote[p].v
      /\ here'.at = main
      /\ \/ here' = here
         \/ here.st # "dirty" /\ here' = [at |-> main, cat |-> main.cat, st |-> "clean"]
  BY OnlyOne DEF Adopts, ghostVars, Cleaning
<1>2. \A q \in Promoter : q = p
  BY OnlyOne
<1>3. HereOK' /\ AtMain'
  BY <1>1 DEF DInv, HereOK, AtMain
<1>4. SweptOK'
  BY <1>1, <1>2 DEF SweptOK
<1>5. ~rel.up => \A f \in Late : main.cat[f] = Open \/ (here'.st = "dirty" /\ here'.cat[f] = Open)
  BY <1>1 DEF DInv, LateOK
<1> QED
  BY <1>1, <1>3, <1>4, <1>5, DCleans DEF Cleaning

\* What was answered and did not merge is open in the main checkout from here on.
LEMMA DStrands ==
    ASSUME Shape, Core, DInv, Alone, NEW p \in Promoter, Strands(p)
    PROVE  DInv'
<1> DEFINE S == Stranded(promote[p].v)
<1>1. /\ UNCHANGED <<main, told, rel, pr, freeze, ship>> /\ Cleaning(p) /\ promote[p].pc = "strand"
      /\ promote'[p].pc = "sweep" /\ promote'[p].v = promote[p].v
      /\ here.at = main
      /\ here' = [here EXCEPT !.cat = [f \in Feature |-> IF f \in S THEN Open ELSE here.cat[f]],
                              !.st = IF S = {} THEN here.st ELSE "dirty"]
  BY OnlyOne DEF Strands, ghostVars, Cleaning, DInv, AtMain
<1>2. /\ here'.at = here.at /\ \A f \in Feature : here'.cat[f] = IF f \in S THEN Open ELSE here.cat[f]
      /\ here'.st = IF S = {} THEN here.st ELSE "dirty"
      /\ DOMAIN here'.cat = Feature /\ here.cat \in [Feature -> Entries]
  BY <1>1 DEF Shape
<1>3. S = {} => here'.cat = here.cat
  <2> SUFFICES ASSUME S = {} PROVE here'.cat = here.cat
    OBVIOUS
  <2>1. here'.cat = [f \in Feature |-> here.cat[f]]
    BY <1>1 DEF Shape
  <2> QED
    BY <1>2, <2>1
<1>4. \A f \in Late : here'.cat[f] = Open
  <2> SUFFICES ASSUME NEW f \in Late, f \in Feature, f \notin S PROVE here.cat[f] = Open
    BY <1>2 DEF Late, Shape
  <2>1. main.cat[f] = Open => here.cat[f] = Open
    BY <1>1 DEF DInv, HereOK
  <2>2. CASE promote[p].v < rel.v \/ ~rel.up
    BY <1>1, <2>1, <2>2 DEF DInv, CleaningOK, LateOK
  <2>3. CASE promote[p].v = rel.v /\ rel.up
    <3>1. pr.st = "merged" /\ f \notin main.feats
      BY <1>1, <2>3 DEF DInv, CleaningOK, Late
    <3>2. \A q \in Promoter : promote[q].pc # "pushed"
      BY <1>1, OnlyOne
    <3>3. MergedHead(rel.v).feats \subseteq main.feats
      BY <3>1, <3>2 DEF DInv, MergedOK, MergedHead
    <3>4. f \notin Shipped(rel.head.cat, rel.v)
      BY <2>3, <3>1, <3>3 DEF Stranded
    <3>5. rel.head.cat[f] # Entry("shipped", rel.v)
      BY <3>4 DEF Shipped
    <3> QED
      BY <2>1, <2>3, <3>5 DEF DInv, LateOK
  <2> QED
    BY <1>1, <2>2, <2>3, RelFacts DEF DInv, CleaningOK
<1>5. HereOK'
  BY <1>2, <1>3 DEF DInv, HereOK
<1>6. AtMain' /\ SweptOK'
  BY <1>1, <1>2, <1>4 DEF AtMain, SweptOK, Late
<1>7. ~rel.up => \A f \in Late : main.cat[f] = Open \/ (here'.st = "dirty" /\ here'.cat[f] = Open)
  BY <1>2, <1>4 DEF DInv, LateOK
<1> QED
  BY <1>1, <1>5, <1>6, <1>7, DCleans DEF Cleaning

\* A sweep leaves what is open.
LEMMA DSweeps ==
    ASSUME Shape, DInv, Alone, NEW p \in Promoter, Sweeps(p)
    PROVE  DInv'
<1> DEFINE v == promote[p].v
           S == Swept(v)
           some == \E f \in S : here.cat[f].st # "promoted"
<1>1. /\ UNCHANGED <<main, told, rel, pr, freeze, ship>> /\ Cleaning(p) /\ promote[p].pc = "sweep"
      /\ promote'[p].pc = "remove" /\ promote'[p].v = promote[p].v
      /\ here.at = main
      /\ here' = [here EXCEPT !.cat = [f \in Feature |->
                                         IF f \in S THEN Entry("promoted", v) ELSE here.cat[f]],
                              !.st = IF some THEN "dirty" ELSE here.st]
  BY OnlyOne DEF Sweeps, ghostVars, Cleaning, DInv, AtMain
<1>2. /\ here'.at = here.at
      /\ \A f \in Feature : here'.cat[f] = IF f \in S THEN Entry("promoted", v) ELSE here.cat[f]
      /\ here'.st = IF some THEN "dirty" ELSE here.st
      /\ here.cat \in [Feature -> Entries]
  BY <1>1 DEF Shape
<1>3. ~some => here'.cat = here.cat
  <2> SUFFICES ASSUME ~some PROVE here'.cat = here.cat
    OBVIOUS
  <2>1. \A f \in S : here.cat[f] = Entry("promoted", v)
    BY <1>2 DEF Swept, Entry, Entries
  <2>2. \A f \in Feature : here'.cat[f] = here.cat[f]
    BY <1>2, <2>1
  <2>3. here'.cat = [f \in Feature |-> here'.cat[f]] /\ here.cat = [f \in Feature |-> here.cat[f]]
    BY <1>1, <1>2 DEF Shape
  <2> QED
    BY <2>2, <2>3
<1>4. \A f \in Feature : here.cat[f] = Open => here'.cat[f] = Open
  BY <1>2 DEF Swept, Open, Entry
<1>5. HereOK'
  BY <1>2, <1>3, <1>4 DEF DInv, HereOK
<1>6. AtMain' /\ SweptOK'
  <2>1. \A f \in Late : here'.cat[f] = Open
    BY <1>1, <1>4 DEF DInv, SweptOK, Late, Shape
  <2> QED
    BY <1>1, <1>2, <2>1 DEF AtMain, SweptOK, Late
<1>7. ~rel.up => \A f \in Late : main.cat[f] = Open \/ (here'.st = "dirty" /\ here'.cat[f] = Open)
  BY <1>2, <1>4 DEF DInv, LateOK, Late, Shape
<1> QED
  BY <1>1, <1>5, <1>6, <1>7, DCleans DEF Cleaning

LEMMA DRemoves ==
    ASSUME Shape, Core, DInv, Alone, NEW p \in Promoter, Removes(p)
    PROVE  DInv'
<1>1. /\ UNCHANGED <<main, here, told, freeze, ship>> /\ Cleaning(p) /\ promote[p].pc = "remove"
      /\ promote'[p].pc = "commit" /\ promote'[p].v = promote[p].v
  BY OnlyOne DEF Removes, mainVars, ghostVars, Cleaning
<1>2. pr.st # "open"
  BY <1>1, RelFacts DEF DInv, CleaningOK
<1>3. /\ rel'.v = rel.v /\ ~rel'.up /\ ~rel'.pushed /\ rel'.head = rel.head /\ pr' = pr
  <2>1. rel.v = promote[p].v \/ ~rel.pushed
    BY <1>1, RelFacts DEF DInv, CleaningOK
  <2>2. rel' = [rel EXCEPT !.up = FALSE, !.pushed = FALSE]
    BY <2>1 DEF Removes
  <2> QED
    BY <1>2, <2>2, RelFacts DEF Removes
<1>4. \A q \in Promoter : q = p
  BY OnlyOne
<1>5. Late' = Late
  BY <1>1 DEF Late
<1>6. HereOK' /\ AtMain' /\ SweptOK'
  BY <1>1, <1>4, <1>5 DEF DInv, HereOK, AtMain, SweptOK
<1>7. RequestOK' /\ MergedOK'
  BY <1>1, <1>2, <1>3, <1>4 DEF DInv, RequestOK, MergedOK
<1>8. CleaningOK'
  BY <1>1, <1>3, <1>4, <1>5 DEF DInv, CleaningOK, InProgress
<1>9. LateOK' /\ BackOK'
  BY <1>1, <1>3, <1>5 DEF DInv, LateOK, BackOK, SweptOK, HereOK, AtMain, Shape
<1> QED
  BY <1>6, <1>7, <1>8, <1>9 DEF DInv

LEMMA DCommits ==
    ASSUME Shape, DInv, Alone, NEW p \in Promoter, CommitsCleanup(p)
    PROVE  DInv'
<1>1. /\ UNCHANGED <<told, rel, pr, freeze, ship>> /\ Cleaning(p) /\ promote[p].pc = "commit"
      /\ promote'[p].pc = "unfreeze" /\ promote'[p].v = promote[p].v
  BY OnlyOne DEF CommitsCleanup, ghostVars, Cleaning
<1>2. \A q \in Promoter : q = p
  BY OnlyOne
<1>3. CASE here.st = "dirty"
  <2>1. /\ main'.feats = main.feats /\ main'.cat = here.cat
        /\ here'.at = main' /\ here'.cat = here.cat /\ here'.st = "clean"
    <3>1. /\ main' = [main EXCEPT !.cat = here.cat, !.bk = main.bk + 1]
          /\ here' = [at |-> main', cat |-> here.cat, st |-> "clean"]
      BY <1>3 DEF CommitsCleanup
    <3>2. main'.feats = main.feats /\ main'.cat = here.cat
      BY <3>1, SomeCommits DEF Shape
    <3> QED
      BY <3>1, <3>2
  <2>2. Late' = Late /\ \A f \in Late : here.cat[f] = Open
    BY <1>1, <2>1 DEF DInv, SweptOK, Late
  <2>3. HereOK' /\ AtMain' /\ SweptOK'
    BY <1>1, <1>2, <2>1 DEF HereOK, AtMain, SweptOK
  <2>4. RequestOK' /\ MergedOK'
    BY <1>1, <1>2, <2>1 DEF DInv, RequestOK, MergedOK
  <2>5. CleaningOK'
    BY <1>1, <1>2, <2>1, <2>2 DEF DInv, CleaningOK, Cleaning, InProgress, Idle
  <2>6. LateOK' /\ BackOK'
    BY <1>1, <2>1, <2>2 DEF DInv, LateOK, BackOK
  <2> QED
    BY <2>3, <2>4, <2>5, <2>6 DEF DInv
<1>4. CASE here.st # "dirty"
  <2>1. UNCHANGED <<main, here>>
    BY <1>4 DEF CommitsCleanup, mainVars
  <2>2. HereOK' /\ AtMain' /\ SweptOK'
    BY <1>1, <1>2, <2>1 DEF DInv, HereOK, AtMain, SweptOK
  <2>3. ~rel.up => \A f \in Late : main.cat[f] = Open \/ (here'.st = "dirty" /\ here'.cat[f] = Open)
    BY <2>1 DEF DInv, LateOK
  <2> QED
    BY <1>1, <2>1, <2>2, <2>3, DCleans DEF Cleaning
<1> QED
  BY <1>3, <1>4

LEMMA DStep ==
    ASSUME IInv, GInv, DInv, Alone, Liberties = {}, Next
    PROVE  DInv'
<1> USE DEF IInv
<1>1. CASE Hotfix \/ NewRelease \/ HandMerge
  BY <1>1, DHotfix, DNewRelease, DHandMerge
<1>2. CASE \E f \in Feature : Refine(f)
  BY <1>2, DRefine
<1>3. ASSUME NEW w \in Worker, ShipStarts(w) \/ ShipStep(w) \/ ShipDies(w) PROVE DInv'
  BY <1>3, DShip, DShipLands DEF ShipStep
<1>4. ASSUME NEW p \in Promoter, PromoteStarts(p) \/ PromoteStep(p) \/ PromoterDies(p) PROVE DInv'
  BY <1>4, DGoesOn, DPush, DOpens, DMerges, DEnds DEF PromoteStep
<1>5. ASSUME NEW p \in Promoter, CleanupStarts(p) \/ CleanupStep(p) PROVE DInv'
  BY <1>5, DCleanupStarts, DAdopts, DStrands, DSweeps, DRemoves, DCommits, DEnds DEF CleanupStep
<1> QED
  BY <1>1, <1>2, <1>3, <1>4, <1>5 DEF Next

LEMMA InitDInv == Init => DInv
<1> SUFFICES ASSUME Init PROVE DInv
  OBVIOUS
<1>1. /\ main = Nothing /\ told = {} /\ rel.v = 0 /\ ~rel.up /\ ~rel.pushed /\ pr.st = "none"
      /\ here = [at |-> Nothing, cat |-> Nothing.cat, st |-> "clean"]
      /\ \A w \in Worker : ship[w].pc = "idle"
      /\ \A p \in Promoter : promote[p].pc = "idle"
      /\ \A v \in Version : ~freeze[v].pushed
  BY DEF Init, NoRequest, NotAtWork, NotPromoting, Unfrozen
<1> QED
  BY <1>1 DEF DInv, HereOK, AtMain, RequestOK, MergedOK, CleaningOK, Cleaning, LateOK, SweptOK,
              BackOK, Late

\* All of it.
AInv == IInv /\ GInv /\ DInv

LEMMA StepAInv == Alone /\ Liberties = {} /\ AInv /\ [Next]_vars => AInv'
<1> SUFFICES ASSUME Alone, Liberties = {}, AInv, [Next]_vars PROVE AInv'
  OBVIOUS
<1>1. IInv' /\ GInv'
  BY StepIInv, StepGInv DEF AInv, NoLateShip
<1>2. CASE Next
  BY <1>1, <1>2, DStep DEF AInv
<1>3. CASE UNCHANGED vars
  <2>1. DInv'
    BY <1>3 DEF vars, AInv, DInv, HereOK, AtMain, RequestOK, MergedOK, CleaningOK, Cleaning, InProgress,
                Idle, LateOK, SweptOK, BackOK, Late
  <2> QED
    BY <1>1, <2>1 DEF AInv
<1> QED
  BY <1>2, <1>3

(***************************************************************************)
(* The release train implements Delivery                                   *)
(***************************************************************************)
PlaceOf(f) == IF f \in main.feats THEN "arrived" ELSE IF OnTrain(f) THEN "aboard" ELSE "out"
Placed == [f \in Feature |-> Place(f)]

\* No feature is lost: one that was answered, has not arrived and is not aboard is open.
LEMMA NoneLost == AInv => \A f \in Feature : Place(f) = PlaceOf(f)
<1> SUFFICES ASSUME AInv, NEW f \in Feature, f \notin main.feats PROVE Place(f) = PlaceOf(f)
  BY DEF Place, PlaceOf
<1>1. Aboard(f) <=> OnTrain(f)
  BY DEF Aboard, OnTrain, AInv, IInv, CarryInv, Carries, Out
<1>2. CASE OnTrain(f)
  BY <1>1, <1>2 DEF Place, PlaceOf
<1>3. CASE ~OnTrain(f) /\ f \notin told
  BY <1>1, <1>3 DEF Place, PlaceOf
<1>4. CASE ~OnTrain(f) /\ f \in told
  <2>1. f \in Late
    BY <1>4 DEF Late
  <2>2. rel.up => rel.head.cat[f] # Entry("shipped", rel.v)
    BY <1>4 DEF OnTrain, Entry
  <2>3. IsOpen(f)
    BY <2>1, <2>2 DEF AInv, DInv, LateOK, IsOpen
  <2> QED
    BY <1>1, <1>4, <2>3 DEF Place, PlaceOf
<1> QED
  BY <1>2, <1>3, <1>4

\* Which steps move a feature.
LEMMA ShipMoves ==
    ASSUME AInv, NEW w \in Worker, Liberties = {}, ShipStarts(w) \/ ShipStep(w) \/ ShipDies(w)
    PROVE  /\ main' = main
           /\ \/ \A f \in Feature : OnTrain(f)' = OnTrain(f)
              \/ /\ w \in Feature /\ OnTrain(w)'
                 /\ \A f \in Feature \ {w} : OnTrain(f)' = OnTrain(f)
<1>0. Shape /\ Core /\ BackOK
  BY DEF AInv, IInv, DInv
<1>1. main' = main
  BY DEF ShipStarts, ShipStep, FeatureGate, ShipGivesUp, ShipMerges, ShipLands, ShipRollsBack,
         ShipRollsBackTo, ShipDies, mainVars
<1>2. CASE ShipLands(w)
  <2>1. CASE w \in Feature /\ InProgress /\ rel.head.cat[w].st # "none"
    <3> DEFINE cat == [rel.head.cat EXCEPT ![w] = Entry("shipped", ship[w].v)]
    <3>1. rel' = [rel EXCEPT !.head = [rel.head EXCEPT !.cat = cat]]
      BY <1>2, <2>1 DEF ShipLands
    <3>2. /\ [rel.head EXCEPT !.cat = cat].cat = cat
          /\ cat[w].st = "shipped" /\ \A g \in Feature \ {w} : cat[g] = rel.head.cat[g]
      BY <1>0, <2>1, RelFacts, SomeCommits DEF Entry
    <3> HIDE DEF cat
    <3>3. rel'.head = [rel.head EXCEPT !.cat = cat] /\ rel'.up = rel.up
      BY <1>0, <3>1, RelFacts
    <3> QED
      BY <1>1, <2>1, <3>2, <3>3 DEF OnTrain, InProgress
  <2>2. CASE ~(w \in Feature /\ InProgress /\ rel.head.cat[w].st # "none")
    BY <1>1, <1>2, <2>2 DEF ShipLands, OnTrain
  <2> QED
    BY <2>1, <2>2
<1>3. CASE ShipMerges(w)
  <2>1. /\ Synced(rel.head) \in Commit /\ Synced(rel.head).cat = rel.head.cat
        /\ rel' = [rel EXCEPT !.head = [Synced(rel.head) EXCEPT !.feats = @ \cup ({w} \cap Feature)]]
    BY <1>0, <1>3, RelFacts, SyncedCommit DEF ShipMerges, Shape
  <2>2. [Synced(rel.head) EXCEPT !.feats = @ \cup ({w} \cap Feature)].cat = rel.head.cat
    BY <2>1, SomeCommits
  <2> QED
    BY <1>0, <1>1, <2>1, <2>2, RelFacts DEF OnTrain
<1>4. CASE ShipRollsBack(w)
  <2>1. rel' = [rel EXCEPT !.head = ship[w].pre] /\ ship[w].pre.cat = rel.head.cat
    BY <1>0, <1>4 DEF ShipRollsBack, ShipRollsBackTo, BackOK
  <2> QED
    BY <1>0, <1>1, <2>1, RelFacts DEF OnTrain
<1>5. CASE ShipStarts(w) \/ FeatureGate(w) \/ ShipGivesUp(w) \/ ShipDies(w)
  BY <1>1, <1>5 DEF ShipStarts, FeatureGate, ShipGivesUp, ShipDies, OnTrain
<1> QED
  BY <1>2, <1>3, <1>4, <1>5 DEF ShipStep

Still == main'.feats = main.feats /\ \A f \in Feature \ main.feats : OnTrain(f)' = OnTrain(f)

LEMMA OthersStill ==
    ASSUME AInv, NEW p \in Promoter,
           \/ PromoteStarts(p) \/ CleanupStarts(p) \/ PromoterDies(p)
           \/ PromoteStep(p) /\ ~Merges(p)
           \/ CleanupStep(p) /\ ~Removes(p)
    PROVE  Still
<1>0. Shape
  BY DEF AInv, IInv
<1>1. CASE Freezes(p)
  <2>1. rel' = [rel EXCEPT !.head = Synced(rel.head)] /\ Synced(rel.head).cat = rel.head.cat
    BY <1>0, <1>1, SyncedCommit, RelFacts DEF Freezes, Shape
  <2> QED
    BY <1>0, <1>1, <2>1, RelFacts DEF Freezes, Still, OnTrain, mainVars
<1>2. CASE Pushes(p) \/ PushesAgain(p) \/ Finalizes(p)
  BY <1>0, <1>2 DEF Pushes, PushesAgain, Finalizes, Still, OnTrain, mainVars, Shape, Releases
<1>3. CASE \/ PromoteStarts(p) \/ Gate2(p) \/ OpensPR(p) \/ ChecksPass(p) \/ Guard(p)
           \/ PromoteFails(p) \/ PromoterDies(p)
  BY <1>3 DEF PromoteStarts, Gate2, OpensPR, ChecksPass, Guard, PromoteFails, PromoterDies, Still,
              OnTrain, mainVars
<1>4. CASE \/ CleanupStarts(p) \/ Adopts(p) \/ Strands(p) \/ Sweeps(p) \/ Unfreezes(p)
           \/ CleanupFails(p)
  BY <1>4 DEF CleanupStarts, Adopts, Strands, Sweeps, Unfreezes, CleanupFails, Still, OnTrain, mainVars
<1>5. CASE CommitsCleanup(p)
  <2>1. main'.feats = main.feats
    BY <1>0, <1>5, SomeCommits DEF CommitsCleanup, Shape, mainVars
  <2> QED
    BY <1>5, <2>1 DEF CommitsCleanup, Still, OnTrain
<1> QED
  BY <1>1, <1>2, <1>3, <1>4, <1>5 DEF PromoteStep, CleanupStep

LEMMA StillPlaced ==
    ASSUME Still
    PROVE  \A f \in Feature : PlaceOf(f)' = PlaceOf(f)
BY DEF Still, PlaceOf

\* A step of the release train moves features as a step of Delivery does, or none.
LEMMA StepMoves ==
    ASSUME Alone, Liberties = {}, AInv, [Next]_vars
    PROVE  \/ \A f \in Feature : PlaceOf(f)' = PlaceOf(f)
           \/ \E f \in Feature : /\ PlaceOf(f) = "out" /\ PlaceOf(f)' = "aboard"
                                 /\ \A g \in Feature \ {f} : PlaceOf(g)' = PlaceOf(g)
           \/ \E F \in SUBSET Feature :
                /\ F # {} /\ \A f \in F : PlaceOf(f) # "arrived"
                /\ \A f \in Feature : PlaceOf(f)' = IF f \in F THEN "arrived" ELSE PlaceOf(f)
           \/ \E F \in SUBSET Feature :
                /\ F # {} /\ \A f \in F : PlaceOf(f) = "aboard"
                /\ \A f \in Feature : PlaceOf(f)' = IF f \in F THEN "out" ELSE PlaceOf(f)
<1>0. Shape /\ Core /\ CarryInv /\ GInv /\ DInv
  BY DEF AInv, IInv
<1>1. CASE UNCHANGED vars
  BY <1>1 DEF vars, PlaceOf, OnTrain
<1>2. CASE Hotfix
  <2>1. main'.feats = main.feats
    BY <1>0, <1>2, SomeCommits DEF Hotfix, Shape
  <2>2. Still
    BY <1>2, <2>1 DEF Hotfix, Still, OnTrain
  <2> QED
    BY <2>2, StillPlaced
<1>3. CASE NewRelease
  <2>1. main' = main /\ ~rel.up /\ rel'.head = main
    BY <1>3 DEF NewRelease
  <2>2. \A f \in Feature \ main.feats : ~OnTrain(f) /\ ~OnTrain(f)'
    BY <1>0, <2>1 DEF OnTrain, CarryInv, Carries, Out
  <2>3. Still
    BY <2>1, <2>2 DEF Still, OnTrain
  <2> QED
    BY <2>3, StillPlaced
<1>4. ASSUME NEW f \in Feature, Refine(f) PROVE Still
  <2> DEFINE cat == [rel.head.cat EXCEPT ![f] = Open]
  <2>1. /\ rel' = [rel EXCEPT !.head = [rel.head EXCEPT !.cat = cat]] /\ main' = main
        /\ rel.head.cat[f] = Absent
    BY <1>4 DEF Refine, mainVars
  <2>2. /\ [rel.head EXCEPT !.cat = cat].cat = cat
        /\ cat[f] = Open /\ \A g \in Feature \ {f} : cat[g] = rel.head.cat[g]
    BY <1>0, RelFacts, SomeCommits
  <2> HIDE DEF cat
  <2>3. rel'.head = [rel.head EXCEPT !.cat = cat] /\ rel'.up = rel.up
    BY <1>0, <2>1, RelFacts
  <2>4. \A g \in Feature : (rel'.head.cat[g].st = "shipped") <=> (rel.head.cat[g].st = "shipped")
    <3>1. rel'.head.cat = cat
      BY <2>2, <2>3
    <3>2. Absent.st = "none" /\ Open.st = "open"
      BY DEF Absent, Open, Entry
    <3> QED
      BY <2>1, <2>2, <3>1, <3>2
  <2> QED
    BY <2>1, <2>3, <2>4 DEF Still, OnTrain
<1>5. ASSUME NEW w \in Worker, ShipStarts(w) \/ ShipStep(w) \/ ShipDies(w)
      PROVE  \/ \A f \in Feature : PlaceOf(f)' = PlaceOf(f)
             \/ \E f \in Feature : /\ PlaceOf(f) = "out" /\ PlaceOf(f)' = "aboard"
                                   /\ \A g \in Feature \ {f} : PlaceOf(g)' = PlaceOf(g)
  <2>1. main' = main
    BY <1>5, ShipMoves
  <2>2. CASE \A f \in Feature : OnTrain(f)' = OnTrain(f)
    BY <2>1, <2>2 DEF PlaceOf
  <2>3. CASE /\ w \in Feature /\ OnTrain(w)'
             /\ \A f \in Feature \ {w} : OnTrain(f)' = OnTrain(f)
    <3>1. \A g \in Feature \ {w} : PlaceOf(g)' = PlaceOf(g)
      BY <2>1, <2>3 DEF PlaceOf
    <3>2. PlaceOf(w)' = PlaceOf(w) \/ (PlaceOf(w) = "out" /\ PlaceOf(w)' = "aboard")
      BY <2>1, <2>3 DEF PlaceOf
    <3> QED
      BY <2>3, <3>1, <3>2
  <2> QED
    BY <1>5, <2>2, <2>3, ShipMoves
\* A merge: all that origin's branch carries arrives.
<1>6. CASE HandMerge \/ \E p \in Promoter : Merges(p)
  <2> DEFINE F == rel.origin.feats \ main.feats
  <2>1. rel' = rel /\ main'.feats = main.feats \cup rel.origin.feats
    <3>1. rel' = rel /\ Squash
      BY <1>6 DEF HandMerge, Merges
    <3> QED
      BY <3>1 DEF Squash
  <2>2. F \in SUBSET Feature
    BY <1>0, RelFacts, SomeCommits
  <2>3. \A f \in Feature : PlaceOf(f)' = IF f \in F THEN "arrived" ELSE PlaceOf(f)
    BY <2>1 DEF PlaceOf, OnTrain
  <2>4. \A f \in F : PlaceOf(f) # "arrived"
    BY DEF PlaceOf
  <2> HIDE DEF F
  <2>5. CASE F = {}
    BY <2>3, <2>5
  <2>6. CASE F # {}
    BY <2>2, <2>3, <2>4, <2>6
  <2> QED
    BY <2>5, <2>6
\* The worktree goes: what was aboard and has not arrived is out again.
<1>7. ASSUME NEW p \in Promoter, Removes(p)
      PROVE  \/ \A f \in Feature : PlaceOf(f)' = PlaceOf(f)
             \/ \E F \in SUBSET Feature :
                  /\ F # {} /\ \A f \in F : PlaceOf(f) = "aboard"
                  /\ \A f \in Feature : PlaceOf(f)' = IF f \in F THEN "out" ELSE PlaceOf(f)
  <2> DEFINE F == {f \in Feature : PlaceOf(f) = "aboard"}
  <2>1. main' = main /\ ~rel'.up
    BY <1>0, <1>7 DEF Removes, mainVars, Shape, Releases
  <2>2. \A f \in Feature : PlaceOf(f)' = IF f \in F THEN "out" ELSE PlaceOf(f)
    BY <2>1 DEF PlaceOf, OnTrain
  <2>3. F \in SUBSET Feature /\ \A f \in F : PlaceOf(f) = "aboard"
    OBVIOUS
  <2> HIDE DEF F
  <2>4. CASE F = {}
    BY <2>2, <2>4
  <2>5. CASE F # {}
    BY <2>2, <2>3, <2>5
  <2> QED
    BY <2>4, <2>5
<1>8. ASSUME NEW p \in Promoter,
             \/ PromoteStarts(p) \/ CleanupStarts(p) \/ PromoterDies(p)
             \/ PromoteStep(p) /\ ~Merges(p)
             \/ CleanupStep(p) /\ ~Removes(p)
      PROVE  \A f \in Feature : PlaceOf(f)' = PlaceOf(f)
  BY <1>8, OthersStill, StillPlaced
<1>9. CASE \E f \in Feature : Refine(f)
  BY <1>4, <1>9, StillPlaced
<1>10. CASE \E w \in Worker : ShipStarts(w) \/ ShipStep(w) \/ ShipDies(w)
  BY <1>5, <1>10
<1>11. CASE \E p \in Promoter : \/ PromoteStarts(p) \/ CleanupStarts(p)
                                \/ PromoteStep(p) \/ CleanupStep(p) \/ PromoterDies(p)
  BY <1>6, <1>7, <1>8, <1>11
<1> QED
  BY <1>1, <1>2, <1>3, <1>6, <1>9, <1>10, <1>11 DEF Next

LEMMA StepDelivers ==
    Alone /\ Liberties = {} /\ AInv /\ AInv' /\ [Next]_vars => [Deliveries!Next]_Placed
<1> SUFFICES ASSUME Alone, Liberties = {}, AInv, AInv', [Next]_vars PROVE [Deliveries!Next]_Placed
  OBVIOUS
<1>1. \A f \in Feature : Place(f) = PlaceOf(f)
  BY NoneLost
<1>2. \A f \in Feature : Place(f)' = PlaceOf(f)'
  <2>1. (AInv => \A f \in Feature : Place(f) = PlaceOf(f))'
    BY NoneLost, PTL
  <2> QED
    BY <2>1
<1>3. Placed = [f \in Feature |-> PlaceOf(f)] /\ Placed' = [f \in Feature |-> PlaceOf(f)']
  BY <1>1, <1>2 DEF Placed
<1>4. CASE \A f \in Feature : PlaceOf(f)' = PlaceOf(f)
  BY <1>3, <1>4
<1>5. ASSUME NEW f \in Feature, PlaceOf(f) = "out", PlaceOf(f)' = "aboard",
             \A g \in Feature \ {f} : PlaceOf(g)' = PlaceOf(g)
      PROVE  Deliveries!Next
  <2>1. Placed[f] = "out" /\ Placed' = [Placed EXCEPT ![f] = "aboard"]
    BY <1>3, <1>5
  <2> QED
    BY <2>1 DEF Placed, Deliveries!Next, Deliveries!Boards
<1>6. ASSUME NEW F \in SUBSET Feature, F # {}, \A f \in F : PlaceOf(f) # "arrived",
             \A f \in Feature : PlaceOf(f)' = IF f \in F THEN "arrived" ELSE PlaceOf(f)
      PROVE  Deliveries!Next
  <2>1. /\ \A f \in F : Placed[f] # "arrived"
        /\ Placed' = [f \in Feature |-> IF f \in F THEN "arrived" ELSE Placed[f]]
    BY <1>3, <1>6
  <2> QED
    BY <1>6, <2>1 DEF Placed, Deliveries!Next, Deliveries!Arrives
<1>7. ASSUME NEW F \in SUBSET Feature, F # {}, \A f \in F : PlaceOf(f) = "aboard",
             \A f \in Feature : PlaceOf(f)' = IF f \in F THEN "out" ELSE PlaceOf(f)
      PROVE  Deliveries!Next
  <2>1. /\ \A f \in F : Placed[f] = "aboard"
        /\ Placed' = [f \in Feature |-> IF f \in F THEN "out" ELSE Placed[f]]
    BY <1>3, <1>7
  <2> QED
    BY <1>7, <2>1 DEF Placed, Deliveries!Next, Deliveries!Reopens
<1> QED
  BY <1>4, <1>5, <1>6, <1>7, StepMoves

\* Every feature is delivered as Delivery says: one whose ship was answered with success is
\* on main, aboard a release that says so, or open again where the next release begins,
\* through every cleanup, failure and death. Not proved beside two promoters, nor
\* with what the liberties let happen.
THEOREM FeaturesAreDelivered ==
    ASSUME Alone, Liberties = {}
    PROVE  Spec => ImplementsDelivery
<1>1. Init => AInv
  BY InitIInv, InitGInv, InitDInv DEF AInv
<1>2. Init => Deliveries!Init
  BY DEF Init, Deliveries!Init, Place, Aboard, Nothing
<1>3. AInv /\ [Next]_vars => AInv'
  BY StepAInv
<1>4. AInv /\ AInv' /\ [Next]_vars => [Deliveries!Next]_Placed
  BY StepDelivers
<1> QED
  BY <1>1, <1>2, <1>3, <1>4, PTL DEF Spec, ImplementsDelivery, Deliveries!Spec, Placed
===============================================================================
