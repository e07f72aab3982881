---------------------------- MODULE EpicGate_proofs ----------------------------
(***************************************************************************)
(* The epic gate, proved for any number of epics, features and verifiers,  *)
(* any number of promotes, unclaims and deaths.                            *)
(***************************************************************************)
EXTENDS EpicGate, FiniteSetTheorems, TLAPS

(***************************************************************************)
(* The first invariant: what the catalogs, the claims and the verdicts are *)
(***************************************************************************)
AnySha == [by : Run \cup {NoEpic}, tree : Content]
AnyEntry == [st : EpicStatus, verifying : AnySha, verified : AnySha, split : BOOLEAN]
AnyCheck == [epic : Epic \cup {NoEpic}, sha : AnySha]
AnyPromote == [pc : {"idle", "dead", "sweep", "verify", "checking", "pushed"},
               allow : BOOLEAN, verify : SUBSET Epic, split : SUBSET Epic]

Shape ==
    /\ code \in SUBSET Feature /\ unclaims \in SUBSET Feature
    /\ feat \in [Feature -> FeatureStatus]
    /\ epics \in [Epic -> AnyEntry] /\ saved \in [Epic -> AnyEntry]
    /\ check \in [Run -> AnyCheck]
    /\ promote \in AnyPromote
    /\ newest \in [Epic -> AnySha] /\ proven \in SUBSET Epic
    /\ asked \in [Verifier -> {"not", "plain", "force"}]

\* An entry has a claim exactly while it says verifying, and no verdict while it
\* is open or failed.
EntryOK(x) ==
    /\ (x.st = "verifying") = (x.verifying # NoSha)
    /\ x.st \in {"open", "failed"} => x.verified = NoSha

EntriesOK == \A e \in Epic : EntryOK(epics[e]) /\ EntryOK(saved[e])

\* A run checks an epic under its own name; a verifier that was not asked checks
\* nothing; the promote checks exactly while it says so.
ChecksOK ==
    /\ \A r \in Run : check[r] = NotChecking \/ (check[r].epic \in Epic /\ check[r].sha.by = r)
    /\ \A r \in Verifier : asked[r] = "not" => check[r] = NotChecking
    /\ (promote.pc = "checking") = (check[Promoter] # NotChecking)

\* The claim of a verifier that died before it committed: nobody comes back
\* with a verdict for it.
Orphan(r) == r \in Verifier /\ asked[r] # "not" /\ check[r] = NotChecking

\* A verdict is that of the last claim, and a claim is the last one or an orphan.
UpToDate(x, e) ==
    /\ x.st = "verified" => x.verified = newest[e]
    /\ x.st = "verifying" => x.verifying = newest[e] \/ Orphan(x.verifying.by)

VerdictsOK == \A e \in Epic : UpToDate(epics[e], e) /\ UpToDate(saved[e], e)

IInv == Shape /\ EntriesOK /\ ChecksOK /\ VerdictsOK

(***************************************************************************)
(* Lemmas about shas, claims and verdicts                                  *)
(***************************************************************************)
LEMMA Trees ==
    ASSUME Shape
    PROVE  Head \in Content /\ NoContent \in Content /\ NoSha \in AnySha
BY DEF Shape, Head, Content, NoContent, NoSha, Sha, AnySha, FeatureStatus

LEMMA Shas ==
    ASSUME NEW r \in Run, NEW tree \in Content
    PROVE  Sha(r, tree) \in AnySha /\ Sha(r, tree) # NoSha /\ Sha(r, tree).by = r
BY EpicAssumption DEF Sha, NoSha, AnySha, Run

\* Taking a claim.
LEMMA ClaimKeeps ==
    ASSUME IInv, NEW r \in Run, NEW e \in Epic, NEW tree \in Content,
           WritesClaim(e, Sha(r, tree))
    PROVE  /\ epics' \in [Epic -> AnyEntry] /\ saved' \in [Epic -> AnyEntry]
           /\ EntriesOK'
<1>1. Sha(r, tree) \in AnySha /\ Sha(r, tree) # NoSha
    BY Shas
<1>2. epics' \in [Epic -> AnyEntry]
  <2> DEFINE x == [epics[e] EXCEPT !.st = "verifying", !.verifying = Sha(r, tree)]
  <2>1. epics[e] \in AnyEntry
    BY DEF IInv, Shape
  <2>2. x \in AnyEntry
    BY <1>1, <2>1 DEF AnyEntry, EpicStatus
  <2>3. epics' = [epics EXCEPT ![e] = x]
    BY DEF WritesClaim, IInv, Shape
  <2> QED BY <2>2, <2>3 DEF IInv, Shape
<1>3. \A d \in Epic : EntryOK(epics'[d])
  <2> SUFFICES ASSUME NEW d \in Epic PROVE EntryOK(epics'[d])
    OBVIOUS
  <2>1. CASE d = e
    BY <1>1, <2>1 DEF IInv, Shape, WritesClaim, EntryOK, AnyEntry
  <2>2. CASE d # e
    BY <2>2 DEF IInv, Shape, EntriesOK, WritesClaim, EntryOK
  <2> QED BY <2>1, <2>2
<1> QED BY <1>2, <1>3 DEF WritesClaim, EntriesOK

LEMMA ClaimsKeep ==
    ASSUME IInv, NEW r \in Run, NEW e \in Epic, NEW tree \in Content,
           Claims(r, e, tree), ~Orphan(r),
           r \in Verifier => asked'[r] # "not",
           \A v \in Verifier : v # r => asked'[v] = asked[v],
           promote'.pc = IF r = Promoter THEN "checking" ELSE promote.pc
    PROVE  /\ check' \in [Run -> AnyCheck] /\ newest' \in [Epic -> AnySha]
           /\ epics' \in [Epic -> AnyEntry] /\ saved' \in [Epic -> AnyEntry]
           /\ EntriesOK' /\ ChecksOK' /\ VerdictsOK'
<1> DEFINE sha == Sha(r, tree)
<1>1. sha \in AnySha /\ sha # NoSha /\ sha.by = r
    BY Shas
<1>2. /\ check' = [check EXCEPT ![r] = [epic |-> e, sha |-> sha]]
      /\ newest' = [newest EXCEPT ![e] = sha]
      /\ epics' = [epics EXCEPT ![e].st = "verifying", ![e].verifying = sha]
      /\ saved' = epics'
    BY DEF Claims, WritesClaim
<1>3. /\ epics' \in [Epic -> AnyEntry] /\ saved' \in [Epic -> AnyEntry]
      /\ EntriesOK'
    BY <1>1, ClaimKeeps DEF Claims
<1> HIDE DEF sha
<1>4. check' \in [Run -> AnyCheck] /\ newest' \in [Epic -> AnySha]
    BY <1>1, <1>2 DEF IInv, Shape, AnyCheck
<1>5. e # NoEpic /\ Promoter \in Run /\ Verifier \subseteq Run
    BY EpicAssumption DEF Run
<1>6. check'[r] # NotChecking
    BY <1>2, <1>5 DEF IInv, Shape, NotChecking
<1>7. ChecksOK'
  <2>1. \A q \in Run : check'[q] = NotChecking \/ (check'[q].epic \in Epic /\ check'[q].sha.by = q)
    BY <1>1, <1>2 DEF IInv, Shape, ChecksOK
  <2>2. \A q \in Verifier : asked'[q] = "not" => check'[q] = NotChecking
    BY <1>2, <1>5 DEF IInv, Shape, ChecksOK
  <2>3. (promote'.pc = "checking") = (check'[Promoter] # NotChecking)
    BY <1>2, <1>5, <1>6 DEF IInv, Shape, ChecksOK
  <2> QED BY <2>1, <2>2, <2>3 DEF ChecksOK
<1>8. \A v : Orphan(v) => Orphan(v)'
    BY <1>2, <1>5 DEF IInv, Shape, Orphan
<1>9. VerdictsOK'
  <2> SUFFICES ASSUME NEW d \in Epic PROVE UpToDate(epics[d], d)'
    BY <1>2 DEF VerdictsOK
  <2>1. CASE d = e
    BY <1>2, <2>1 DEF IInv, Shape, UpToDate, AnyEntry
  <2>2. CASE d # e
    BY <1>2, <1>8, <2>2 DEF IInv, Shape, VerdictsOK, UpToDate
  <2> QED BY <2>1, <2>2
<1> QED BY <1>3, <1>4, <1>7, <1>9

\* Recording a verdict.
LEMMA RecordsKeep ==
    ASSUME IInv, NEW r \in Run, NEW ok \in BOOLEAN,
           Records(r, ok), check[r] # NotChecking,
           UNCHANGED <<newest, asked>>,
           (promote'.pc = "checking") = (r # Promoter /\ promote.pc = "checking")
    PROVE  /\ check' \in [Run -> AnyCheck] /\ proven' \in SUBSET Epic
           /\ epics' \in [Epic -> AnyEntry] /\ saved' \in [Epic -> AnyEntry]
           /\ EntriesOK' /\ ChecksOK' /\ VerdictsOK'
<1> DEFINE e == check[r].epic
           sha == check[r].sha
<1>1. e \in Epic /\ sha.by = r /\ sha \in AnySha /\ NoSha \in AnySha
    BY Trees DEF IInv, Shape, ChecksOK, AnyCheck
<1>2. /\ epics' = IF MayRecord(e, sha) THEN [epics EXCEPT ![e] = Verdict(@, sha, ok)] ELSE epics
      /\ saved' = epics'
      /\ check' = [check EXCEPT ![r] = NotChecking]
      /\ proven' \subseteq proven \cup {e}
    BY DEF Records
<1> HIDE DEF e, sha
<1>3. Verdict(epics[e], sha, ok) =
        [epics[e] EXCEPT !.st = IF ok THEN "verified" ELSE "failed",
                         !.verified = IF ok THEN sha ELSE NoSha, !.verifying = NoSha]
    BY DEF Verdict
<1>4. epics' \in [Epic -> AnyEntry]
  <2>1. epics[e] \in AnyEntry
    BY <1>1 DEF IInv, Shape
  <2>2. Verdict(epics[e], sha, ok) \in AnyEntry
    BY <1>1, <1>3, <2>1 DEF AnyEntry, EpicStatus
  <2> QED BY <1>1, <1>2, <2>2 DEF IInv, Shape
<1>5. check' \in [Run -> AnyCheck] /\ proven' \in SUBSET Epic
    BY <1>1, <1>2 DEF IInv, Shape, AnyCheck, NotChecking
<1>6. EntriesOK'
  <2> SUFFICES ASSUME NEW d \in Epic PROVE EntryOK(epics'[d])
    BY <1>2 DEF EntriesOK
  <2>1. CASE d = e /\ MayRecord(e, sha)
    BY <1>1, <1>2, <1>3, <2>1 DEF IInv, Shape, EntryOK, AnyEntry
  <2>2. CASE ~(d = e /\ MayRecord(e, sha))
    BY <1>2, <2>2 DEF IInv, Shape, EntriesOK
  <2> QED BY <2>1, <2>2
<1>7. Promoter \in Run /\ Verifier \subseteq Run
    BY DEF Run
<1>8. ChecksOK'
    BY <1>2, <1>7 DEF IInv, Shape, ChecksOK
<1>9. \A v : Orphan(v) => Orphan(v)'
    BY <1>2, <1>7 DEF IInv, Shape, Orphan
<1>10. MayRecord(e, sha) => sha = newest[e]
    BY <1>1 DEF IInv, VerdictsOK, UpToDate, MayRecord, Orphan
<1>11. VerdictsOK'
  <2> SUFFICES ASSUME NEW d \in Epic PROVE UpToDate(epics[d], d)'
    BY <1>2 DEF VerdictsOK
  <2>1. CASE d = e /\ MayRecord(e, sha)
    BY <1>1, <1>2, <1>3, <1>10, <2>1 DEF IInv, Shape, UpToDate, AnyEntry
  <2>2. CASE ~(d = e /\ MayRecord(e, sha))
    BY <1>2, <1>9, <2>2 DEF IInv, Shape, VerdictsOK, UpToDate
  <2> QED BY <2>1, <2>2
<1> QED BY <1>2, <1>4, <1>5, <1>6, <1>8, <1>11


(***************************************************************************)
(* The first invariant is kept                                             *)
(***************************************************************************)
LEMMA InitHolds == Init => IInv
<1> SUFFICES ASSUME Init PROVE IInv
    OBVIOUS
<1>1. NoContent \in Content /\ NoSha \in AnySha /\ Promoter \in Run /\ Verifier \subseteq Run
    BY DEF NoContent, Content, FeatureStatus, NoSha, Sha, AnySha, Run
<1>2. Shape
  <2>1. feat \in [Feature -> FeatureStatus]
    BY EpicAssumption DEF Init, FeatureStatus
  <2>2. epics \in [Epic -> AnyEntry]
    <3>1. \A st \in EpicStatus, split \in BOOLEAN : Entry(st, split) \in AnyEntry
        BY <1>1 DEF Entry, AnyEntry
    <3> QED BY <3>1 DEF Init, EpicStatus
  <2>3. check \in [Run -> AnyCheck] /\ newest \in [Epic -> AnySha]
    BY <1>1 DEF Init, NotChecking, AnyCheck
  <2>4. promote \in AnyPromote
    BY DEF Init, NotPromoting, AnyPromote
  <2>5. /\ code \in SUBSET Feature /\ unclaims \in SUBSET Feature /\ proven \in SUBSET Epic
        /\ asked \in [Verifier -> {"not", "plain", "force"}]
    BY DEF Init
  <2> QED BY <2>1, <2>2, <2>3, <2>4, <2>5 DEF Init, Shape
<1>3. EntriesOK
    BY DEF Init, Entry, EntriesOK, EntryOK
<1>4. ChecksOK
    BY <1>1 DEF Init, ChecksOK, NotPromoting
<1>5. VerdictsOK
    BY DEF Init, Entry, VerdictsOK, UpToDate
<1> QED BY <1>2, <1>3, <1>4, <1>5 DEF IInv

\* What commits the _release worktree and leaves claims and verdicts alone.
LEMMA CommitKeeps ==
    ASSUME IInv, saved' = epics \/ saved' = saved,
           UNCHANGED <<epics, check, newest, asked>>,
           promote'.pc = "checking" <=> promote.pc = "checking"
    PROVE  saved' \in [Epic -> AnyEntry] /\ EntriesOK' /\ ChecksOK' /\ VerdictsOK'
<1>1. saved' \in [Epic -> AnyEntry] /\ EntriesOK' /\ ChecksOK'
    BY DEF IInv, Shape, EntriesOK, ChecksOK
<1>2. VerdictsOK'
    BY DEF IInv, VerdictsOK, UpToDate, Orphan
<1> QED BY <1>1, <1>2

LEMMA BacklogKeeps ==
    ASSUME IInv, NEW f \in Feature,
           Fanout(f) \/ Refine(f) \/ Claim(f) \/ UnclaimReads(f)
    PROVE  IInv'
<1>1. saved' \in [Epic -> AnyEntry] /\ EntriesOK' /\ ChecksOK' /\ VerdictsOK'
  <2>1. CASE UnclaimReads(f)
    BY <2>1, CommitKeeps DEF UnclaimReads, ghostVars
  <2>2. CASE Fanout(f) \/ Refine(f) \/ Claim(f)
    BY <2>2, CommitKeeps DEF Fanout, Refine, Claim, ghostVars, boundVars
  <2> QED BY <2>1, <2>2
<1>2. feat' \in [Feature -> FeatureStatus] /\ unclaims' \in SUBSET Feature
    BY DEF IInv, Shape, Fanout, Refine, Claim, UnclaimReads, Sets, FeatureStatus
<1>3. UNCHANGED <<code, epics, check, promote, newest, proven, asked>>
    BY DEF Fanout, Refine, Claim, UnclaimReads, ghostVars, boundVars
<1> QED BY <1>1, <1>2, <1>3 DEF IInv, Shape

LEMMA UnclaimKeeps == ASSUME IInv, NEW f \in Feature, UnclaimWrites(f) PROVE IInv'
<1>1. /\ epics' = [e \in Epic |-> IF e = EpicOf[f] /\ epics[e].st = "verified"
                                  THEN Demoted(epics[e]) ELSE epics[e]]
      /\ saved' = epics' /\ feat' = [feat EXCEPT ![f] = "open"] /\ unclaims' = unclaims \ {f}
      /\ UNCHANGED <<code, check, promote, newest, proven, asked>>
    BY DEF UnclaimWrites, Sets, ghostVars, boundVars
<1>2. NoSha \in AnySha
    BY Trees DEF IInv
<1>3. \A e \in Epic : /\ Demoted(epics[e]) \in AnyEntry /\ EntryOK(Demoted(epics[e]))
                      /\ Demoted(epics[e]).st = "open"
    BY <1>2 DEF IInv, Shape, AnyEntry, EpicStatus, Demoted, EntryOK
<1>4. Shape'
    BY <1>1, <1>3 DEF IInv, Shape, FeatureStatus
<1>5. EntriesOK'
    BY <1>1, <1>3 DEF IInv, EntriesOK
<1>6. ChecksOK'
    BY <1>1 DEF IInv, ChecksOK
<1>7. VerdictsOK'
    BY <1>1, <1>3 DEF IInv, VerdictsOK, UpToDate, Orphan
<1> QED BY <1>4, <1>5, <1>6, <1>7 DEF IInv

LEMMA ShipKeeps ==
    ASSUME IInv, NEW f \in Feature, ShipLands(f) \/ ShipRollsBack(f)
    PROVE  IInv'
<1>1. CASE ShipRollsBack(f)
    BY <1>1 DEF ShipRollsBack, ghostVars, boundVars, IInv, Shape, EntriesOK, ChecksOK, VerdictsOK,
                UpToDate, Orphan
<1>2. CASE ShipLands(f)
  <2>1. /\ code' = code \cup {f} /\ feat' = [feat EXCEPT ![f] = "shipped"] /\ proven' = {}
        /\ UNCHANGED <<unclaims, promote, asked>>
    BY <1>2 DEF ShipLands, Landed, boundVars
  <2>2. code' \in SUBSET Feature /\ feat' \in [Feature -> FeatureStatus]
    BY <2>1 DEF IInv, Shape, FeatureStatus
  <2>3. CASE saved' = epics /\ UNCHANGED <<epics, check, newest>>
    BY <2>1, <2>2, <2>3, CommitKeeps DEF IInv, Shape
  <2>4. ASSUME NEW e \in Epic, Claims(f, e, Landed(f)) PROVE IInv'
    <3>1. Landed(f) \in Content
      BY DEF Landed, Content, IInv, Shape, FeatureStatus
    <3>2. f \in Run /\ f # Promoter /\ f \notin Verifier
      BY EpicAssumption DEF Run
    <3>3. /\ check' \in [Run -> AnyCheck] /\ newest' \in [Epic -> AnySha]
          /\ epics' \in [Epic -> AnyEntry] /\ saved' \in [Epic -> AnyEntry]
          /\ EntriesOK' /\ ChecksOK' /\ VerdictsOK'
      BY <2>1, <2>4, <3>1, <3>2, ClaimsKeep DEF Orphan
    <3> QED BY <2>1, <2>2, <3>3 DEF IInv, Shape
  <2> QED BY <1>2, <2>3, <2>4 DEF ShipLands
<1> QED BY <1>1, <1>2

\* A ship or a verifier that comes back, or a verifier that claims.
LEMMA CheckKeeps ==
    ASSUME IInv,
           \/ \E r \in Run : CheckEnds(r)
           \/ \E r \in Verifier : \E force \in BOOLEAN : VerifyClaims(r, force)
    PROVE  IInv'
<1>1. ASSUME NEW r \in Run, CheckEnds(r) PROVE IInv'
  <2>1. r # Promoter /\ check[r] # NotChecking /\ UNCHANGED <<code, feat, unclaims, promote, newest, asked>>
    BY <1>1 DEF CheckEnds, boundVars
  <2>2. PICK ok \in BOOLEAN : Records(r, ok)
    BY <1>1 DEF CheckEnds
  <2>3. /\ check' \in [Run -> AnyCheck] /\ proven' \in SUBSET Epic
        /\ epics' \in [Epic -> AnyEntry] /\ saved' \in [Epic -> AnyEntry]
        /\ EntriesOK' /\ ChecksOK' /\ VerdictsOK'
    BY <2>1, <2>2, RecordsKeep
  <2> QED BY <2>1, <2>3 DEF IInv, Shape
<1>2. ASSUME NEW r \in Verifier, NEW force \in BOOLEAN, VerifyClaims(r, force) PROVE IInv'
  <2>1. /\ asked[r] = "not" /\ UNCHANGED <<code, feat, unclaims, promote, proven>>
        /\ asked' = [asked EXCEPT ![r] = IF force THEN "force" ELSE "plain"]
    BY <1>2 DEF VerifyClaims
  <2>2. PICK e \in Epic : Claims(r, e, Head)
    BY <1>2 DEF VerifyClaims
  <2>3. r \in Run /\ r # Promoter /\ Head \in Content
    BY EpicAssumption, Trees DEF Run, IInv
  <2>4. asked' \in [Verifier -> {"not", "plain", "force"}] /\ asked'[r] # "not"
    BY <2>1 DEF IInv, Shape
  <2>5. /\ check' \in [Run -> AnyCheck] /\ newest' \in [Epic -> AnySha]
        /\ epics' \in [Epic -> AnyEntry] /\ saved' \in [Epic -> AnyEntry]
        /\ EntriesOK' /\ ChecksOK' /\ VerdictsOK'
    <3>1. ~Orphan(r) /\ promote'.pc = promote.pc
      BY <2>1 DEF Orphan
    <3>2. \A v \in Verifier : v # r => asked'[v] = asked[v]
      BY <2>1 DEF IInv, Shape
    <3> QED BY <2>2, <2>3, <2>4, <3>1, <3>2, ClaimsKeep
  <2> QED BY <2>1, <2>4, <2>5 DEF IInv, Shape
<1> QED BY <1>1, <1>2

LEMMA PromoteKeeps ==
    ASSUME IInv,
           \/ PromoteStarts \/ Sweeps \/ PromoteRecords \/ PromotePushes \/ PromoteFails
           \/ \E e \in Epic : PromoteClaims(e) \/ PromoteSplits(e)
    PROVE  IInv'
<1>1. CASE PromoteStarts \/ Sweeps \/ PromotePushes \/ PromoteFails
  <2>1. UNCHANGED <<code, feat, epics, saved, check, unclaims, newest, proven, asked>>
    BY <1>1 DEF PromoteStarts, Sweeps, PromotePushes, PromoteFails, ghostVars, boundVars
  <2>2. promote' \in AnyPromote /\ promote.pc # "checking" /\ promote'.pc # "checking"
    <3>1. CASE PromoteStarts
      <4> PICK allow \in BOOLEAN : promote' = [NotPromoting EXCEPT !.pc = "sweep", !.allow = allow]
        BY <3>1 DEF PromoteStarts
      <4> QED BY <3>1 DEF PromoteStarts, NotPromoting, AnyPromote
    <3>2. CASE Sweeps
      <4>1. Gated \in SUBSET Epic /\ Incomplete \in SUBSET Epic
        BY DEF Gated, Incomplete, Touched
      <4> HIDE DEF Gated, Incomplete
      <4> QED BY <3>2, <4>1 DEF Sweeps, IInv, Shape, AnyPromote
    <3>3. CASE PromotePushes
      BY <3>3 DEF PromotePushes, Goes, IInv, Shape, AnyPromote
    <3>4. CASE PromoteFails
      BY <3>4 DEF PromoteFails, NotPromoting, AnyPromote
    <3> QED BY <1>1, <3>1, <3>2, <3>3, <3>4
  <2>3. EntriesOK' /\ ChecksOK' /\ VerdictsOK'
    BY <2>1, <2>2, CommitKeeps DEF IInv
  <2> QED BY <2>1, <2>2, <2>3 DEF IInv, Shape
<1>2. CASE PromoteRecords
  <2>1. promote.pc = "checking" /\ UNCHANGED <<code, feat, unclaims, newest, asked>>
    BY <1>2 DEF PromoteRecords, boundVars
  <2>2. PICK ok \in BOOLEAN : Records(Promoter, ok)
    BY <1>2 DEF PromoteRecords
  <2>3. Promoter \in Run /\ check[Promoter] # NotChecking
    BY <2>1 DEF Run, IInv, ChecksOK
  <2>4. promote' \in AnyPromote /\ promote'.pc # "checking"
    BY <1>2 DEF IInv, Shape, AnyPromote, PromoteRecords, NotPromoting
  <2>5. /\ check' \in [Run -> AnyCheck] /\ proven' \in SUBSET Epic
        /\ epics' \in [Epic -> AnyEntry] /\ saved' \in [Epic -> AnyEntry]
        /\ EntriesOK' /\ ChecksOK' /\ VerdictsOK'
    BY <2>1, <2>2, <2>3, <2>4, RecordsKeep
  <2> QED BY <2>1, <2>4, <2>5 DEF IInv, Shape
<1>3. ASSUME NEW e \in Epic, PromoteClaims(e) PROVE IInv'
  <2>1. promote.pc = "verify" /\ UNCHANGED <<code, feat, unclaims, proven, asked>>
    BY <1>3 DEF PromoteClaims, boundVars
  <2>2. CASE promote' = [promote EXCEPT !.verify = @ \ {e}] /\ UNCHANGED <<epics, saved, check, newest>>
    <3>1. promote' \in AnyPromote /\ promote'.pc = "verify"
      BY <2>1, <2>2 DEF IInv, Shape, AnyPromote
    <3>2. EntriesOK' /\ ChecksOK' /\ VerdictsOK'
      BY <2>1, <2>2, <3>1, CommitKeeps DEF IInv
    <3> QED BY <2>1, <2>2, <3>1, <3>2 DEF IInv, Shape
  <2>3. CASE Claims(Promoter, e, Head) /\ Goes("checking")
    <3>1. promote' \in AnyPromote /\ promote'.pc = "checking"
      BY <2>3 DEF IInv, Shape, AnyPromote, Goes
    <3>2. Promoter \in Run /\ Promoter \notin Verifier /\ Head \in Content
      BY EpicAssumption, Trees DEF Run, IInv
    <3>3. /\ check' \in [Run -> AnyCheck] /\ newest' \in [Epic -> AnySha]
          /\ epics' \in [Epic -> AnyEntry] /\ saved' \in [Epic -> AnyEntry]
          /\ EntriesOK' /\ ChecksOK' /\ VerdictsOK'
      BY <2>1, <2>3, <3>1, <3>2, ClaimsKeep DEF Orphan
    <3> QED BY <2>1, <3>1, <3>3 DEF IInv, Shape
  <2> QED BY <1>3, <2>2, <2>3 DEF PromoteClaims
<1>4. ASSUME NEW e \in Epic, PromoteSplits(e) PROVE IInv'
  <2>1. /\ promote.pc = "verify" /\ UNCHANGED <<code, feat, check, unclaims, newest, proven, asked>>
        /\ epics' = [epics EXCEPT ![e].split = TRUE] /\ saved' = epics'
        /\ promote' = [promote EXCEPT !.split = @ \ {e}]
    BY <1>4 DEF PromoteSplits, ghostVars, boundVars
  <2>2. promote' \in AnyPromote /\ promote'.pc = "verify"
    BY <2>1 DEF IInv, Shape, AnyPromote
  <2>3. epics' \in [Epic -> AnyEntry]
    BY <2>1 DEF IInv, Shape, AnyEntry
  <2>4. EntriesOK'
    BY <2>1 DEF IInv, Shape, EntriesOK, EntryOK, AnyEntry
  <2>5. ChecksOK'
    BY <2>1, <2>2 DEF IInv, ChecksOK
  <2>6. VerdictsOK'
    BY <2>1 DEF IInv, Shape, VerdictsOK, UpToDate, Orphan, AnyEntry
  <2> QED BY <2>1, <2>2, <2>3, <2>4, <2>5, <2>6 DEF IInv, Shape
<1> QED BY <1>1, <1>2, <1>3, <1>4

LEMMA DeathKeeps ==
    ASSUME IInv,
           (\E r \in Run : CheckDies(r)) \/ (\E r \in Verifier : ClaimDies(r))
    PROVE  IInv'
<1>1. ASSUME NEW r \in Run, CheckDies(r) PROVE IInv'
  <2>1. /\ UNCHANGED <<code, feat, epics, saved, unclaims, newest, proven, asked>>
        /\ check' = [check EXCEPT ![r] = NotChecking]
        /\ promote' = IF r = Promoter THEN [NotPromoting EXCEPT !.pc = "dead"] ELSE promote
    BY <1>1 DEF CheckDies, ghostVars
  <2>2. promote' \in AnyPromote /\ NotChecking \in AnyCheck
    BY <2>1, Trees DEF IInv, Shape, AnyPromote, NotPromoting, NotChecking, AnyCheck
  <2>3. Promoter \in Run /\ Verifier \subseteq Run
    BY DEF Run
  <2>4. ChecksOK'
    BY <2>1, <2>3 DEF IInv, Shape, ChecksOK, NotPromoting
  <2>5. EntriesOK' /\ VerdictsOK'
    BY <2>1, <2>3 DEF IInv, Shape, EntriesOK, VerdictsOK, UpToDate, Orphan
  <2> QED BY <2>1, <2>2, <2>4, <2>5 DEF IInv, Shape
<1>2. ASSUME NEW r \in Verifier, ClaimDies(r) PROVE IInv'
  <2>1. /\ UNCHANGED <<code, feat, saved, check, unclaims, promote, newest, proven>>
        /\ asked[r] = "not" /\ asked' = [asked EXCEPT ![r] = "plain"]
    BY <1>2 DEF ClaimDies, ghostVars
  <2>2. PICK e \in Epic : epics' = [epics EXCEPT ![e].st = "verifying", ![e].verifying = Sha(r, Head)]
    BY <1>2 DEF ClaimDies
  <2>3. r \in Run /\ Head \in Content /\ Verifier \subseteq Run
    BY Trees DEF IInv, Run
  <2>4. Sha(r, Head) \in AnySha /\ Sha(r, Head) # NoSha /\ Sha(r, Head).by = r
    BY <2>3, Shas
  <2>5. asked' \in [Verifier -> {"not", "plain", "force"}]
    BY <2>1 DEF IInv, Shape
  <2>6. epics' \in [Epic -> AnyEntry]
    <3> DEFINE x == [epics[e] EXCEPT !.st = "verifying", !.verifying = Sha(r, Head)]
    <3>1. x \in AnyEntry
      BY ZenonT(20), <2>4 DEF IInv, Shape, AnyEntry, EpicStatus
    <3>2. epics' = [epics EXCEPT ![e] = x]
      BY <2>2 DEF IInv, Shape
    <3> QED BY <3>1, <3>2 DEF IInv, Shape
  <2>7. EntriesOK'
    BY <2>1, <2>2, <2>4 DEF IInv, Shape, EntriesOK, EntryOK, AnyEntry
  <2>8. ChecksOK'
    BY <2>1 DEF IInv, Shape, ChecksOK
  <2>9. Orphan(r)' /\ \A v : Orphan(v) => Orphan(v)'
    BY <2>1, <2>3 DEF IInv, Shape, ChecksOK, Orphan
  <2>10. VerdictsOK'
    BY <2>1, <2>2, <2>4, <2>9 DEF IInv, Shape, VerdictsOK, UpToDate, AnyEntry
  <2> QED BY <2>1, <2>5, <2>6, <2>7, <2>8, <2>10 DEF IInv, Shape
<1> QED BY <1>1, <1>2

LEMMA StepKeeps == IInv /\ [Next]_vars => IInv'
<1> SUFFICES ASSUME IInv, [Next]_vars PROVE IInv'
    OBVIOUS
<1>1. CASE UNCHANGED vars
    BY <1>1 DEF IInv, vars, Shape, EntriesOK, ChecksOK, VerdictsOK, UpToDate, Orphan
<1>2. CASE Next
    BY <1>2, BacklogKeeps, UnclaimKeeps, ShipKeeps, CheckKeeps, PromoteKeeps, DeathKeeps DEF Next
<1> QED BY <1>1, <1>2

LEMMA Invariance == Spec => []IInv
BY InitHolds, StepKeeps, PTL DEF Spec

\* Catalogs, claims and the promote keep their types and what goes with them: an
\* entry has a claim exactly while it is verifying (_transition, demote_epic).
THEOREM TypeCorrect == Spec => []TypeOK
<1>1. IInv => TypeOK
  <2> SUFFICES ASSUME IInv PROVE TypeOK
    OBVIOUS
  <2>1. \A s \in AnySha : ShaOK(s)
    BY DEF AnySha, ShaOK
  <2>2. Head \in Content
    BY Trees DEF IInv
  <2>3. \A e \in Epic : \A x \in {epics[e], saved[e]} :
           /\ x.st \in EpicStatus /\ ShaOK(x.verifying) /\ ShaOK(x.verified) /\ x.split \in BOOLEAN
           /\ (x.st = "verifying") = (x.verifying # NoSha)
           /\ x.st \in {"open", "failed"} => x.verified = NoSha
    BY <2>1 DEF IInv, Shape, AnyEntry, EntriesOK, EntryOK
  <2>4. \A r \in Run : check[r].epic \in Epic \cup {NoEpic} /\ ShaOK(check[r].sha)
    BY <2>1 DEF IInv, Shape, AnyCheck
  <2> QED BY <2>2, <2>3, <2>4 DEF IInv, Shape, AnyPromote, ChecksOK, TypeOK
<1> QED BY <1>1, Invariance, PTL

\* A verified epic carries the verdict of the run that claimed it last, however
\* ships, forced verifications, promotes, rollbacks and deaths interleave (the
\* two compare-and-swaps of lib/epic.py).
THEOREM NewestVerdict == Spec => []VerdictIsNewest
<1>1. IInv => VerdictIsNewest
  BY DEF IInv, VerdictsOK, UpToDate, VerdictIsNewest
<1> QED BY <1>1, Invariance, PTL
(***************************************************************************)
(* The second invariant: why what a promote pushes is whole                *)
(***************************************************************************)
\* A feature whose unclaim has not been written yet is still claimed; what is in
\* the release is shipped.
BacklogOK ==
    /\ \A f \in unclaims : feat[f] = "claimed"
    /\ \A f \in code : feat[f] = "shipped"

\* Nothing was checked that is not in the release; a verdict about the code of the
\* head is a proof.
Proves(x, e) ==
    x.st = "verified" => /\ x.verified.tree.code \subseteq code
                         /\ x.verified.tree.code = code => e \in proven

ProofsOK ==
    /\ \A e \in Epic : Proves(epics[e], e) /\ Proves(saved[e], e)
    /\ \A r \in Run : check[r].sha.tree.code \subseteq code

\* An approval that was committed is in the worktree; where the catalog does not
\* drift, no entry is missing.
SplitsOK == \A e \in Epic :
    /\ saved[e].split => epics[e].split
    /\ "drift" \notin Liberties => epics[e].st # "missing" /\ saved[e].st # "missing"

\* Since the claim of the promote the code has not moved, so whoever claimed the
\* epic after it checks the same code.
OwnCheckOK == promote.pc = "checking" =>
    /\ check[Promoter].epic \in promote.verify
    /\ check[Promoter].sha.tree.code = code
    /\ newest[check[Promoter].epic].tree.code = code

\* What the sweep has found still holds, or is done.
SweepOK == promote.pc \in {"verify", "checking"} =>
    /\ \A e \in Touched(Head) :
         \/ epics[e].st = "missing" \/ epics[e].split \/ e \in promote.split
         \/ Complete(e, Head) /\ (e \in promote.verify \/ e \in proven)
    /\ \A e \in promote.split : ~Complete(e, Head)

WInv == BacklogOK /\ ProofsOK /\ SplitsOK /\ OwnCheckOK /\ SweepOK

Calm == Liberties \cap {"late_fanout", "late_unclaim"} = {}

\* Work on a slice in hand neither completes an epic nor touches one.
LEMMA SlicesInHand ==
    ASSUME Shape, NEW f \in Feature, NEW st \in FeatureStatus,
           feat[f] \notin {"none", "shipped"}, st \notin {"none", "shipped"},
           feat' = [feat EXCEPT ![f] = st], code' = code
    PROVE  /\ Touched(Head)' = Touched(Head)
           /\ \A e \in Epic : Complete(e, Head)' = Complete(e, Head)
<1>1. \A g \in Feature : /\ (feat'[g] = "none") = (feat[g] = "none")
                         /\ (feat'[g] = "shipped") = (feat[g] = "shipped")
    BY DEF Shape
<1>2. Head.feat = feat /\ Head'.feat = feat'
    BY DEF Head
<1>3. Touched(Head)' = Touched(Head)
    BY <1>1, <1>2 DEF Touched, Slices
<1>4. ASSUME NEW e \in Epic PROVE Complete(e, Head)' = Complete(e, Head)
  <2>1. Slices(e) \subseteq Feature
    BY DEF Slices
  <2>2. Children(e, Head)' = Children(e, Head) /\ Children(e, Head) \subseteq Feature
    BY <1>1, <1>2, <2>1 DEF Children, Slices
  <2>3. (\A g \in Children(e, Head) : feat'[g] = "shipped")
        = (\A g \in Children(e, Head) : feat[g] = "shipped")
    BY <1>1, <2>2
  <2> QED BY <1>2, <2>2, <2>3 DEF Complete
<1> QED BY <1>3, <1>4

\* Proofs outlive steps that leave the code alone, and a verdict about less than
\* the code proves nothing.
LEMMA ProofsMove ==
    ASSUME code \subseteq code', code' # code \/ proven \subseteq proven',
           NEW x, NEW e, Proves(x, e)
    PROVE  Proves(x, e)'
BY DEF Proves

\* What keeps the findings of the sweep.
LEMMA SweepKept ==
    ASSUME SweepOK, promote' = promote,
           promote.pc \in {"verify", "checking"} =>
             /\ Touched(Head)' = Touched(Head)
             /\ \A e \in Epic : Complete(e, Head)' = Complete(e, Head)
             /\ proven \subseteq proven'
             /\ \A e \in Epic : /\ epics[e].st = "missing" => epics'[e].st = "missing"
                                /\ epics[e].split => epics'[e].split,
           promote.split \subseteq Epic
    PROVE  SweepOK'
<1> SUFFICES ASSUME promote.pc \in {"verify", "checking"} PROVE SweepOK'
    BY DEF SweepOK
<1>1. Touched(Head) \subseteq Epic
    BY DEF Touched
<1> QED BY <1>1 DEF SweepOK

LEMMA SameHead ==
    ASSUME UNCHANGED <<code, feat>>
    PROVE  /\ Head' = Head /\ Touched(Head)' = Touched(Head)
           /\ \A e \in Epic : Complete(e, Head)' = Complete(e, Head)
BY DEF Head, Touched, Slices, Complete, Children

LEMMA InitIsWhole == Init => WInv
<1> SUFFICES ASSUME Init PROVE WInv
    OBVIOUS
<1>1. \A e \in Epic : epics[e].st \in {"open", "promoted", "missing"} /\ saved[e] = epics[e]
    BY DEF Init, Entry
<1>2. ProofsOK
    BY <1>1 DEF Init, ProofsOK, Proves, NotChecking, NoSha, Sha, NoContent
<1>3. SplitsOK
    BY <1>1 DEF Init, SplitsOK
<1> QED BY <1>2, <1>3 DEF Init, WInv, BacklogOK, OwnCheckOK, SweepOK, NotPromoting

\* Taking a claim for a tree of the present code.
LEMMA ClaimsAreWhole ==
    ASSUME IInv, WInv, NEW r \in Run, NEW e \in Epic, NEW tree \in Content,
           Claims(r, e, tree), epics[e].st # "missing", tree.code = code',
           code \subseteq code', code' # code \/ proven \subseteq proven'
    PROVE  /\ ProofsOK' /\ SplitsOK'
           /\ \A d \in Epic : /\ (epics'[d].st = "missing") = (epics[d].st = "missing")
                              /\ epics'[d].split = epics[d].split
           /\ newest' = [newest EXCEPT ![e] = Sha(r, tree)]
           /\ check' = [check EXCEPT ![r] = [epic |-> e, sha |-> Sha(r, tree)]]
<1>1. /\ epics' = [epics EXCEPT ![e].st = "verifying", ![e].verifying = Sha(r, tree)]
      /\ saved' = epics'
      /\ newest' = [newest EXCEPT ![e] = Sha(r, tree)]
      /\ check' = [check EXCEPT ![r] = [epic |-> e, sha |-> Sha(r, tree)]]
    BY DEF Claims, WritesClaim
<1>2. \A d \in Epic : /\ (epics'[d].st = "missing") = (epics[d].st = "missing")
                      /\ epics'[d].split = epics[d].split
                      /\ epics'[d].st = "verified" => epics'[d] = epics[d]
    BY <1>1 DEF IInv, Shape, AnyEntry
<1>3. \A d \in Epic : Proves(epics[d], d)'
  <2> TAKE d \in Epic
  <2>1. CASE epics'[d].st = "verified"
    <3>1. Proves(epics[d], d) /\ epics'[d] = epics[d]
      BY <1>2, <2>1 DEF WInv, ProofsOK
    <3>2. epics[d].verified.tree.code \subseteq code /\ epics[d].st = "verified"
      BY <2>1, <3>1 DEF Proves
    <3> QED BY <3>1, <3>2 DEF Proves
  <2>2. CASE epics'[d].st # "verified"
    BY <2>2 DEF Proves
  <2> QED BY <2>1, <2>2
<1>4. \A q \in Run : check'[q].sha.tree.code \subseteq code'
    BY <1>1 DEF IInv, Shape, AnyCheck, AnySha, Content, WInv, ProofsOK, Sha
<1>5. ProofsOK'
    BY <1>1, <1>3, <1>4 DEF ProofsOK
<1>6. SplitsOK'
    BY <1>1, <1>2 DEF WInv, SplitsOK
<1> QED BY <1>1, <1>2, <1>5, <1>6

\* Recording a verdict.
LEMMA RecordsAreWhole ==
    ASSUME IInv, WInv, NEW r \in Run, NEW ok \in BOOLEAN,
           Records(r, ok), check[r] # NotChecking, code' = code
    PROVE  /\ ProofsOK' /\ SplitsOK' /\ proven \subseteq proven'
           /\ \A d \in Epic : /\ (epics'[d].st = "missing") = (epics[d].st = "missing")
                              /\ epics'[d].split = epics[d].split
<1> DEFINE e == check[r].epic
           sha == check[r].sha
<1>1. e \in Epic
    BY DEF IInv, ChecksOK
<1>2. /\ epics' = IF MayRecord(e, sha) THEN [epics EXCEPT ![e] = Verdict(@, sha, ok)] ELSE epics
      /\ saved' = epics' /\ check' = [check EXCEPT ![r] = NotChecking]
      /\ proven' = IF ok /\ sha.tree.code = code THEN proven \cup {e} ELSE proven
    BY DEF Records
<1>3. sha.tree.code \subseteq code
    BY DEF WInv, ProofsOK
<1>4. /\ Verdict(epics[e], sha, ok).split = epics[e].split
      /\ Verdict(epics[e], sha, ok).st \in {"verified", "failed"}
      /\ Verdict(epics[e], sha, ok).st = "verified" =>
            ok /\ Verdict(epics[e], sha, ok).verified = sha
    BY <1>1 DEF Verdict, IInv, Shape, AnyEntry
<1> HIDE DEF e, sha
<1>5. MayRecord(e, sha) => epics[e].st = "verifying"
    BY DEF MayRecord
<1>6. \A d \in Epic : /\ (epics'[d].st = "missing") = (epics[d].st = "missing")
                      /\ epics'[d].split = epics[d].split
    BY <1>1, <1>2, <1>4, <1>5 DEF IInv, Shape
<1>7. \A d \in Epic : Proves(epics[d], d)'
  <2> TAKE d \in Epic
  <2>1. CASE d = e /\ MayRecord(e, sha)
    <3>1. epics'[d] = Verdict(epics[e], sha, ok)
      BY <1>1, <1>2, <2>1 DEF IInv, Shape
    <3> QED BY <1>2, <1>3, <1>4, <2>1, <3>1 DEF Proves
  <2>2. CASE ~(d = e /\ MayRecord(e, sha))
    <3>1. epics'[d] = epics[d]
      BY <1>2, <2>2 DEF IInv, Shape
    <3> QED BY <1>2, <3>1 DEF Proves, WInv, ProofsOK
  <2> QED BY <2>1, <2>2
<1>8. \A q \in Run : check'[q].sha.tree.code \subseteq code'
    BY <1>2 DEF IInv, Shape, WInv, ProofsOK, NotChecking, NoSha, Sha, NoContent
<1>9. ProofsOK' /\ SplitsOK'
    BY <1>2, <1>6, <1>7, <1>8 DEF ProofsOK, SplitsOK, WInv
<1> QED BY <1>2, <1>6, <1>9
LEMMA BacklogIsWhole ==
    ASSUME IInv, WInv, Calm, NEW f \in Feature,
           Fanout(f) \/ Refine(f) \/ Claim(f) \/ UnclaimReads(f)
    PROVE  WInv'
<1>1. /\ UNCHANGED <<code, epics, check, promote, newest, proven>>
      /\ saved' = epics \/ saved' = saved
    BY DEF Fanout, Refine, Claim, UnclaimReads, ghostVars, boundVars
<1>2. BacklogOK'
    BY <1>1 DEF IInv, Shape, WInv, BacklogOK, Fanout, Refine, Claim, UnclaimReads, Sets
<1>3. ProofsOK' /\ SplitsOK' /\ OwnCheckOK'
  <2>1. ProofsOK'
    BY <1>1 DEF WInv, ProofsOK, Proves
  <2>2. SplitsOK' /\ OwnCheckOK'
    BY <1>1 DEF WInv, SplitsOK, OwnCheckOK
  <2> QED BY <2>1, <2>2
<1>4. SweepOK'
  <2>1. promote.split \subseteq Epic
    BY DEF IInv, Shape, AnyPromote
  <2>2. promote.pc \in {"verify", "checking"} =>
          /\ Touched(Head)' = Touched(Head)
          /\ \A e \in Epic : Complete(e, Head)' = Complete(e, Head)
    <3> SUFFICES ASSUME Promoting PROVE /\ Touched(Head)' = Touched(Head)
                                        /\ \A e \in Epic : Complete(e, Head)' = Complete(e, Head)
      BY DEF Promoting
    <3>1. CASE Fanout(f)
      BY <3>1 DEF Fanout, Calm
    <3>2. CASE Refine(f)
      BY <1>1, <3>2, SlicesInHand DEF Refine, Sets, FeatureStatus, IInv
    <3>3. CASE Claim(f)
      BY <1>1, <3>3, SlicesInHand DEF Claim, Sets, FeatureStatus, IInv
    <3>4. CASE UnclaimReads(f)
      BY <3>4, SameHead DEF UnclaimReads
    <3> QED BY <3>1, <3>2, <3>3, <3>4
  <2> QED BY <1>1, <2>1, <2>2, SweepKept DEF WInv
<1> QED BY <1>2, <1>3, <1>4 DEF WInv

LEMMA UnclaimIsWhole == ASSUME IInv, WInv, NEW f \in Feature, UnclaimWrites(f) PROVE WInv'
<1>1. /\ epics' = [e \in Epic |-> IF e = EpicOf[f] /\ epics[e].st = "verified"
                                  THEN Demoted(epics[e]) ELSE epics[e]]
      /\ saved' = epics' /\ feat' = [feat EXCEPT ![f] = "open"] /\ unclaims' = unclaims \ {f}
      /\ UNCHANGED <<code, check, promote, newest, proven>>
    BY DEF UnclaimWrites, Sets, ghostVars, boundVars
<1>2. feat[f] = "claimed"
    BY DEF UnclaimWrites, WInv, BacklogOK
<1>3. \A e \in Epic : /\ Demoted(epics[e]).st = "open"
                      /\ Demoted(epics[e]).split = epics[e].split
    BY DEF Demoted, IInv, Shape, AnyEntry
<1>4. \A e \in Epic : /\ epics[e].st = "missing" => epics'[e].st = "missing"
                      /\ epics'[e].st = "missing" => epics[e].st = "missing"
                      /\ epics'[e].split = epics[e].split
                      /\ epics'[e].st = "verified" => epics'[e] = epics[e]
    BY <1>1, <1>3
<1>5. BacklogOK'
    BY <1>1, <1>2 DEF IInv, Shape, WInv, BacklogOK
<1>6. ProofsOK'
    BY <1>1, <1>4 DEF WInv, ProofsOK, Proves
<1>7. SplitsOK' /\ OwnCheckOK'
    BY <1>1, <1>4 DEF WInv, SplitsOK, OwnCheckOK
<1>8. SweepOK'
  <2>1. promote.split \subseteq Epic
    BY DEF IInv, Shape, AnyPromote
  <2>2. /\ Touched(Head)' = Touched(Head)
        /\ \A e \in Epic : Complete(e, Head)' = Complete(e, Head)
    BY <1>1, <1>2, SlicesInHand DEF FeatureStatus, IInv
  <2> QED BY <1>1, <1>4, <2>1, <2>2, SweepKept DEF WInv
<1> QED BY <1>5, <1>6, <1>7, <1>8 DEF WInv

LEMMA ShipIsWhole ==
    ASSUME IInv, WInv, Calm, NEW f \in Feature, ShipLands(f) \/ ShipRollsBack(f)
    PROVE  WInv'
<1>1. promote.pc = "idle" /\ promote' = promote /\ feat[f] = "claimed" /\ f \notin unclaims
    BY DEF ShipLands, ShipRollsBack, MayShip, Promoting, Calm
<1>2. OwnCheckOK' /\ SweepOK'
    BY <1>1 DEF OwnCheckOK, SweepOK
<1>3. CASE ShipRollsBack(f)
  <2>1. epics' = saved /\ UNCHANGED <<code, feat, saved, check, unclaims, proven>>
    BY <1>3 DEF ShipRollsBack, ghostVars
  <2>2. BacklogOK' /\ ProofsOK' /\ SplitsOK'
    BY <2>1 DEF WInv, BacklogOK, ProofsOK, Proves, SplitsOK
  <2> QED BY <1>2, <2>2 DEF WInv
<1>4. CASE ShipLands(f)
  <2>1. /\ code' = code \cup {f} /\ feat' = [feat EXCEPT ![f] = "shipped"]
        /\ unclaims' = unclaims /\ proven' = {}
    BY <1>4 DEF ShipLands, Landed, boundVars
  <2>2. f \notin code
    BY <1>1 DEF WInv, BacklogOK
  <2>3. code \subseteq code' /\ code' # code
    BY <2>1, <2>2
  <2>4. BacklogOK'
    BY <1>1, <2>1 DEF IInv, Shape, WInv, BacklogOK
  <2>5. CASE saved' = epics /\ UNCHANGED <<epics, check, newest>>
    <3>1. \A e \in Epic : Proves(epics[e], e)'
      BY <2>3, <2>5 DEF WInv, ProofsOK, Proves
    <3>2. ProofsOK'
      BY <2>3, <2>5, <3>1 DEF WInv, ProofsOK
    <3>3. SplitsOK'
      BY <2>5 DEF WInv, SplitsOK
    <3> QED BY <1>2, <2>4, <3>2, <3>3 DEF WInv
  <2>6. ASSUME NEW e \in Epic, Completes(f, e), Claims(f, e, Landed(f)) PROVE WInv'
    <3>1. Landed(f) \in Content /\ Landed(f).code = code'
      BY <2>1 DEF Landed, Content, IInv, Shape, FeatureStatus
    <3>2. f \in Run
      BY DEF Run
    <3>3. epics[e].st # "missing"
      BY <2>6 DEF Completes, Claimable
    <3>4. ProofsOK' /\ SplitsOK'
      BY <2>3, <2>6, <3>1, <3>2, <3>3, ClaimsAreWhole
    <3> QED BY <1>2, <2>4, <3>4 DEF WInv
  <2> QED BY <1>4, <2>5, <2>6 DEF ShipLands
<1> QED BY <1>3, <1>4

LEMMA CheckIsWhole ==
    ASSUME IInv, WInv,
           \/ \E r \in Run : CheckEnds(r)
           \/ \E r \in Verifier : \E force \in BOOLEAN : VerifyClaims(r, force)
    PROVE  WInv'
<1>0. promote.split \subseteq Epic
    BY DEF IInv, Shape, AnyPromote
<1>1. ASSUME NEW r \in Run, CheckEnds(r) PROVE WInv'
  <2>1. r # Promoter /\ check[r] # NotChecking /\ UNCHANGED <<code, feat, unclaims, promote, newest>>
    BY <1>1 DEF CheckEnds
  <2>2. PICK ok \in BOOLEAN : Records(r, ok)
    BY <1>1 DEF CheckEnds
  <2>3. /\ ProofsOK' /\ SplitsOK' /\ proven \subseteq proven'
        /\ \A d \in Epic : /\ (epics'[d].st = "missing") = (epics[d].st = "missing")
                           /\ epics'[d].split = epics[d].split
    BY <2>1, <2>2, RecordsAreWhole
  <2>4. BacklogOK'
    BY <2>1 DEF WInv, BacklogOK
  <2>5. check' = [check EXCEPT ![r] = NotChecking] /\ Promoter \in Run
    BY <2>2 DEF Records, Run
  <2>6. OwnCheckOK'
    BY <2>1, <2>5 DEF IInv, Shape, WInv, OwnCheckOK
  <2>7. SweepOK'
    BY <1>0, <2>1, <2>3, SameHead, SweepKept DEF WInv
  <2> QED BY <2>3, <2>4, <2>6, <2>7 DEF WInv
<1>2. ASSUME NEW r \in Verifier, NEW force \in BOOLEAN, VerifyClaims(r, force) PROVE WInv'
  <2>1. UNCHANGED <<code, feat, unclaims, promote, proven>>
    BY <1>2 DEF VerifyClaims
  <2>2. PICK e \in Epic : epics[e].st \in Claimable(force, FALSE) /\ Claims(r, e, Head)
    BY <1>2 DEF VerifyClaims
  <2>3. r \in Run /\ r # Promoter /\ Promoter \in Run /\ Head \in Content /\ Head.code = code'
    BY <2>1, EpicAssumption, Trees DEF Run, IInv, Head
  <2>4. epics[e].st # "missing"
    BY <2>2 DEF Claimable
  <2>5. /\ ProofsOK' /\ SplitsOK'
        /\ \A d \in Epic : /\ (epics'[d].st = "missing") = (epics[d].st = "missing")
                           /\ epics'[d].split = epics[d].split
        /\ newest' = [newest EXCEPT ![e] = Sha(r, Head)]
        /\ check' = [check EXCEPT ![r] = [epic |-> e, sha |-> Sha(r, Head)]]
    BY <2>1, <2>2, <2>3, <2>4, ClaimsAreWhole
  <2>6. BacklogOK'
    BY <2>1 DEF WInv, BacklogOK
  <2>7. OwnCheckOK'
    <3>1. Sha(r, Head).tree.code = code
      BY DEF Sha, Head
    <3> QED BY <2>1, <2>3, <2>5, <3>1 DEF IInv, Shape, WInv, OwnCheckOK
  <2>8. SweepOK'
    BY <1>0, <2>1, <2>5, SameHead, SweepKept DEF WInv
  <2> QED BY <2>5, <2>6, <2>7, <2>8 DEF WInv
<1> QED BY <1>1, <1>2
LEMMA PromoteIsWhole ==
    ASSUME IInv, WInv,
           \/ PromoteStarts \/ Sweeps \/ PromoteRecords \/ PromotePushes \/ PromoteFails
           \/ \E e \in Epic : PromoteClaims(e) \/ PromoteSplits(e)
    PROVE  WInv'
<1>0. Promoter \in Run /\ promote \in AnyPromote
    BY DEF Run, IInv, Shape
<1>1. CASE PromoteStarts \/ Sweeps \/ PromotePushes \/ PromoteFails
  <2>1. UNCHANGED <<code, feat, epics, saved, check, unclaims, newest, proven>>
    BY <1>1 DEF PromoteStarts, Sweeps, PromotePushes, PromoteFails, ghostVars
  <2>2. BacklogOK' /\ ProofsOK' /\ SplitsOK'
    BY <2>1 DEF WInv, BacklogOK, ProofsOK, Proves, SplitsOK
  <2>3. OwnCheckOK' /\ SweepOK'
    <3>1. CASE PromoteStarts
      <4>1. promote'.pc = "sweep"
        BY <3>1 DEF PromoteStarts, NotPromoting
      <4> QED BY <4>1 DEF OwnCheckOK, SweepOK
    <3>2. CASE PromotePushes
      <4>1. promote'.pc = "pushed"
        BY <1>0, <3>2 DEF PromotePushes, Goes, AnyPromote
      <4> QED BY <4>1 DEF OwnCheckOK, SweepOK
    <3>3. CASE PromoteFails
      BY <3>3 DEF PromoteFails, NotPromoting, OwnCheckOK, SweepOK
    <3>4. CASE Sweeps
      <4>1. /\ promote'.pc = "verify" /\ promote'.split = Incomplete
            /\ promote'.verify = Gated \ Incomplete
        BY <1>0, <3>4 DEF Sweeps, AnyPromote
      <4>2. Head' = Head
        BY <2>1 DEF Head
      <4>3. \A e \in Touched(Head) : \/ epics[e].st = "missing" \/ epics[e].split \/ e \in Incomplete
                                     \/ Complete(e, Head) /\ e \in Gated \ Incomplete
        BY DEF Gated, Incomplete
      <4>4. \A e \in Incomplete : ~Complete(e, Head)
        BY DEF Incomplete
      <4>5. Touched(Head)' = Touched(Head) /\ \A e \in Epic : Complete(e, Head)' = Complete(e, Head)
        BY <2>1, SameHead
      <4>6. Touched(Head) \subseteq Epic /\ Incomplete \subseteq Epic
        BY DEF Touched, Gated, Incomplete
      <4> HIDE DEF Gated, Incomplete
      <4> QED BY <2>1, <4>1, <4>3, <4>4, <4>5, <4>6 DEF OwnCheckOK, SweepOK
    <3> QED BY <1>1, <3>1, <3>2, <3>3, <3>4
  <2> QED BY <2>2, <2>3 DEF WInv
<1>2. CASE PromoteRecords
  <2> DEFINE e == check[Promoter].epic
             sha == check[Promoter].sha
  <2>1. promote.pc = "checking" /\ UNCHANGED <<code, feat, unclaims, newest>>
    BY <1>2 DEF PromoteRecords
  <2>2. PICK ok \in BOOLEAN : Records(Promoter, ok)
    BY <1>2 DEF PromoteRecords
  <2>3. check[Promoter] # NotChecking /\ e \in Epic
    BY <1>0, <2>1 DEF IInv, ChecksOK
  <2>4. /\ ProofsOK' /\ SplitsOK' /\ proven \subseteq proven'
        /\ \A d \in Epic : /\ (epics'[d].st = "missing") = (epics[d].st = "missing")
                           /\ epics'[d].split = epics[d].split
    BY <1>0, <2>1, <2>2, <2>3, RecordsAreWhole
  <2>5. BacklogOK'
    BY <2>1 DEF WInv, BacklogOK
  <2>6. promote' = IF epics'[e].st = "verified"
                   THEN [promote EXCEPT !.pc = "verify", !.verify = @ \ {e}]
                   ELSE NotPromoting
    BY <1>2 DEF PromoteRecords
  <2>7. OwnCheckOK'
    BY <1>0, <2>6 DEF OwnCheckOK, AnyPromote, NotPromoting
  <2>8. CASE epics'[e].st = "verified"
    <3>1. e \in proven'
      <4>1. sha.tree.code = code /\ newest[e].tree.code = code
        BY <2>1 DEF WInv, OwnCheckOK
      <4>2. /\ epics' = IF MayRecord(e, sha) THEN [epics EXCEPT ![e] = Verdict(@, sha, ok)] ELSE epics
            /\ proven' = IF ok /\ sha.tree.code = code THEN proven \cup {e} ELSE proven
        BY <2>2 DEF Records
      <4> HIDE DEF e, sha
      <4>3. CASE MayRecord(e, sha)
        <5>1. epics'[e] = Verdict(epics[e], sha, ok)
          BY <2>3, <4>2, <4>3 DEF IInv, Shape
        <5>2. epics[e] \in AnyEntry
          BY <2>3 DEF IInv, Shape
        <5>3. ok
          BY <2>8, <5>1, <5>2 DEF Verdict, AnyEntry
        <5> QED BY <4>1, <4>2, <5>3
      <4>4. CASE ~MayRecord(e, sha)
        <5>1. epics[e].st = "verified" /\ epics[e].verified = newest[e]
          BY <2>3, <2>8, <4>2, <4>4 DEF IInv, VerdictsOK, UpToDate
        <5> QED BY <2>3, <2>4, <4>1, <5>1 DEF WInv, ProofsOK, Proves
      <4> QED BY <4>3, <4>4
    <3>2. promote'.pc = "verify" /\ promote'.verify = promote.verify \ {e} /\ promote'.split = promote.split
      BY <1>0, <2>6, <2>8 DEF AnyPromote
    <3>3. Touched(Head)' = Touched(Head) /\ \A d \in Epic : Complete(d, Head)' = Complete(d, Head)
      BY <2>1, SameHead
    <3>4. Touched(Head) \subseteq Epic /\ promote.split \subseteq Epic
      BY <1>0 DEF Touched, AnyPromote
    <3> HIDE DEF e
    <3>5. SweepOK'
      BY <2>1, <2>4, <3>1, <3>2, <3>3, <3>4 DEF WInv, SweepOK
    <3> QED BY <2>4, <2>5, <2>7, <3>5 DEF WInv
  <2>9. CASE epics'[e].st # "verified"
    <3>1. SweepOK'
      BY <2>6, <2>9 DEF SweepOK, NotPromoting
    <3> QED BY <2>4, <2>5, <2>7, <3>1 DEF WInv
  <2> QED BY <2>8, <2>9
<1>3. ASSUME NEW e \in Epic, PromoteClaims(e) PROVE WInv'
  <2>1. promote.pc = "verify" /\ e \in promote.verify /\ UNCHANGED <<code, feat, unclaims, proven>>
    BY <1>3 DEF PromoteClaims
  <2>2. BacklogOK'
    BY <2>1 DEF WInv, BacklogOK
  <2>3. Touched(Head)' = Touched(Head) /\ \A d \in Epic : Complete(d, Head)' = Complete(d, Head)
    BY <2>1, SameHead
  <2>4. Touched(Head) \subseteq Epic /\ promote.split \subseteq Epic
    BY <1>0 DEF Touched, AnyPromote
  <2>5. ASSUME IsFresh(e), promote' = [promote EXCEPT !.verify = @ \ {e}],
               UNCHANGED <<epics, saved, check, newest>>
        PROVE  WInv'
    <3>1. e \in proven
      BY <2>5 DEF IsFresh, Head, WInv, ProofsOK, Proves
    <3>2. promote'.pc = "verify" /\ promote'.verify = promote.verify \ {e} /\ promote'.split = promote.split
      BY <1>0, <2>1, <2>5 DEF AnyPromote
    <3>3. ProofsOK' /\ SplitsOK'
      BY <2>1, <2>5 DEF WInv, ProofsOK, Proves, SplitsOK
    <3>4. OwnCheckOK'
      BY <3>2 DEF OwnCheckOK
    <3>5. SweepOK'
      BY <2>1, <2>3, <2>4, <2>5, <3>1, <3>2 DEF WInv, SweepOK
    <3> QED BY <2>2, <3>3, <3>4, <3>5 DEF WInv
  <2>6. ASSUME epics[e].st \in Claimable(FALSE, TRUE), Claims(Promoter, e, Head), Goes("checking")
        PROVE  WInv'
    <3>1. Head \in Content /\ Head.code = code'
      BY <2>1, Trees DEF IInv, Head
    <3>2. epics[e].st # "missing"
      BY <2>6 DEF Claimable
    <3>3. /\ ProofsOK' /\ SplitsOK'
          /\ \A d \in Epic : /\ (epics'[d].st = "missing") = (epics[d].st = "missing")
                             /\ epics'[d].split = epics[d].split
          /\ newest' = [newest EXCEPT ![e] = Sha(Promoter, Head)]
          /\ check' = [check EXCEPT ![Promoter] = [epic |-> e, sha |-> Sha(Promoter, Head)]]
      BY <1>0, <2>1, <2>6, <3>1, <3>2, ClaimsAreWhole
    <3>4. promote'.pc = "checking" /\ promote'.verify = promote.verify /\ promote'.split = promote.split
      BY <1>0, <2>6 DEF Goes, AnyPromote
    <3>5. OwnCheckOK'
      <4>1. Sha(Promoter, Head).tree.code = code
        BY DEF Sha, Head
      <4> QED BY <1>0, <2>1, <3>3, <3>4, <4>1 DEF OwnCheckOK, IInv, Shape
    <3>6. SweepOK'
      BY <2>1, <2>3, <2>4, <3>3, <3>4 DEF WInv, SweepOK
    <3> QED BY <2>2, <3>3, <3>5, <3>6 DEF WInv
  <2> QED BY <1>3, <2>5, <2>6 DEF PromoteClaims
<1>4. ASSUME NEW e \in Epic, PromoteSplits(e) PROVE WInv'
  <2>1. /\ promote.pc = "verify" /\ UNCHANGED <<code, feat, check, unclaims, newest, proven>>
        /\ epics' = [epics EXCEPT ![e].split = TRUE] /\ saved' = epics'
        /\ promote' = [promote EXCEPT !.split = @ \ {e}]
    BY <1>4 DEF PromoteSplits, ghostVars
  <2>2. \A d \in Epic : /\ epics'[d].st = epics[d].st /\ epics'[d].verified = epics[d].verified
                        /\ epics'[d].split = (epics[d].split \/ d = e)
    BY <2>1 DEF IInv, Shape, AnyEntry
  <2>3. promote'.pc = "verify" /\ promote'.verify = promote.verify /\ promote'.split = promote.split \ {e}
    BY <1>0, <2>1 DEF AnyPromote
  <2>4. BacklogOK' /\ OwnCheckOK'
    BY <2>1, <2>3 DEF WInv, BacklogOK, OwnCheckOK
  <2>5. ProofsOK' /\ SplitsOK'
    BY <2>1, <2>2 DEF WInv, ProofsOK, Proves, SplitsOK
  <2>6. Touched(Head)' = Touched(Head) /\ \A d \in Epic : Complete(d, Head)' = Complete(d, Head)
    BY <2>1, SameHead
  <2>7. Touched(Head) \subseteq Epic /\ promote.split \subseteq Epic
    BY <1>0 DEF Touched, AnyPromote
  <2>8. SweepOK'
    BY <2>1, <2>2, <2>3, <2>6, <2>7 DEF WInv, SweepOK
  <2> QED BY <2>4, <2>5, <2>8 DEF WInv
<1> QED BY <1>1, <1>2, <1>3, <1>4

LEMMA DeathIsWhole ==
    ASSUME IInv, WInv,
           (\E r \in Run : CheckDies(r)) \/ (\E r \in Verifier : ClaimDies(r))
    PROVE  WInv'
<1>0. promote.split \subseteq Epic /\ Promoter \in Run
    BY DEF IInv, Shape, AnyPromote, Run
<1>1. ASSUME NEW r \in Run, CheckDies(r) PROVE WInv'
  <2>1. /\ UNCHANGED <<code, feat, epics, saved, unclaims, newest, proven>>
        /\ check' = [check EXCEPT ![r] = NotChecking]
        /\ promote' = IF r = Promoter THEN [NotPromoting EXCEPT !.pc = "dead"] ELSE promote
    BY <1>1 DEF CheckDies, ghostVars
  <2>2. BacklogOK' /\ SplitsOK'
    BY <2>1 DEF WInv, BacklogOK, SplitsOK
  <2>3. ProofsOK'
    BY <2>1 DEF IInv, Shape, WInv, ProofsOK, Proves, NotChecking, NoSha, Sha, NoContent
  <2>4. OwnCheckOK'
    BY <1>0, <2>1 DEF IInv, Shape, WInv, OwnCheckOK, NotPromoting
  <2>5. SweepOK'
    <3>1. CASE r = Promoter
      BY <2>1, <3>1 DEF SweepOK, NotPromoting
    <3>2. CASE r # Promoter
      BY <1>0, <2>1, <3>2, SameHead, SweepKept DEF WInv
    <3> QED BY <3>1, <3>2
  <2> QED BY <2>2, <2>3, <2>4, <2>5 DEF WInv
<1>2. ASSUME NEW r \in Verifier, ClaimDies(r) PROVE WInv'
  <2>1. UNCHANGED <<code, feat, saved, check, unclaims, promote, newest, proven>>
    BY <1>2 DEF ClaimDies, ghostVars
  <2>2. PICK e \in Epic : /\ epics[e].st \in Claimable(FALSE, FALSE)
                          /\ epics' = [epics EXCEPT ![e].st = "verifying", ![e].verifying = Sha(r, Head)]
    BY <1>2 DEF ClaimDies
  <2>3. \A d \in Epic : /\ (epics'[d].st = "missing") = (epics[d].st = "missing")
                        /\ epics'[d].split = epics[d].split
                        /\ epics'[d].st = "verified" => epics'[d] = epics[d]
    BY <2>2 DEF IInv, Shape, AnyEntry, Claimable
  <2>4. BacklogOK' /\ SplitsOK' /\ OwnCheckOK'
    BY <2>1, <2>3 DEF WInv, BacklogOK, SplitsOK, OwnCheckOK
  <2>5. ProofsOK'
    BY <2>1, <2>3 DEF WInv, ProofsOK, Proves
  <2>6. SweepOK'
    BY <1>0, <2>1, <2>3, SameHead, SweepKept DEF WInv
  <2> QED BY <2>4, <2>5, <2>6 DEF WInv
<1> QED BY <1>1, <1>2

LEMMA StepIsWhole == ASSUME Calm PROVE IInv /\ WInv /\ [Next]_vars => WInv'
<1> SUFFICES ASSUME IInv, WInv, [Next]_vars PROVE WInv'
    OBVIOUS
<1>1. CASE UNCHANGED vars
  <2>1. UNCHANGED <<code, feat, epics, saved, check, unclaims, promote, newest, proven>>
    BY <1>1 DEF vars
  <2>2. Touched(Head)' = Touched(Head) /\ \A e \in Epic : Complete(e, Head)' = Complete(e, Head)
    BY <2>1, SameHead
  <2>3. SweepOK'
    BY <2>1, <2>2, SweepKept DEF WInv, IInv, Shape, AnyPromote
  <2> QED BY <2>1, <2>3 DEF WInv, BacklogOK, ProofsOK, Proves, SplitsOK, OwnCheckOK
<1>2. CASE Next
    BY <1>2, BacklogIsWhole, UnclaimIsWhole, ShipIsWhole, CheckIsWhole, PromoteIsWhole, DeathIsWhole
    DEF Next
<1> QED BY <1>1, <1>2

LEMMA WholeInvariance == ASSUME Calm PROVE Spec => [](IInv /\ WInv)
<1>1. IInv /\ WInv /\ [Next]_vars => (IInv /\ WInv)'
    BY StepKeeps, StepIsWhole
<1>2. Init => IInv /\ WInv
    BY InitHolds, InitIsWhole
<1> QED BY <1>1, <1>2, PTL DEF Spec

\* As long as no slice is added during a promote and no unclaim races a ship, what
\* a promote pushes holds no half of an epic unless the split was approved, and
\* every epic it completes passed its check on the very code that is pushed
\* (check_epics of promote_release.py).
THEOREM PromotesAreWhole == ASSUME Calm PROVE Spec => PromotedIsWhole
<1> DEFINE Whole == promote'.pc = "pushed" /\ promote.pc # "pushed" =>
                      \A e \in Touched(Head) : \/ epics[e].st = "missing" \/ epics[e].split
                                               \/ Complete(e, Head) /\ e \in proven
<1>1. IInv /\ WInv /\ [Next]_vars => [Whole]_vars
  <2> SUFFICES ASSUME IInv, WInv, Next, promote'.pc = "pushed", promote.pc # "pushed"
               PROVE  \A e \in Touched(Head) : \/ epics[e].st = "missing" \/ epics[e].split
                                               \/ Complete(e, Head) /\ e \in proven
    OBVIOUS
  <2>1. promote \in AnyPromote
    BY DEF IInv, Shape
  <2>2. PromotePushes
    <3>1. ASSUME NEW f \in Feature PROVE \/ Fanout(f) \/ Refine(f) \/ Claim(f) \/ UnclaimReads(f)
                                         \/ UnclaimWrites(f) \/ ShipLands(f) \/ ShipRollsBack(f)
                                         => promote' = promote
      BY DEF Fanout, Refine, Claim, UnclaimReads, UnclaimWrites, ShipLands, ShipRollsBack
    <3>2. ASSUME NEW r \in Verifier, NEW force \in BOOLEAN
          PROVE  ClaimDies(r) \/ VerifyClaims(r, force) => promote' = promote
      BY DEF ClaimDies, VerifyClaims
    <3>3. ASSUME NEW r \in Run, CheckEnds(r) \/ CheckDies(r) PROVE FALSE
      <4>1. CASE CheckEnds(r)
        BY <4>1 DEF CheckEnds
      <4>2. CASE CheckDies(r)
        BY <4>2 DEF CheckDies, NotPromoting
      <4> QED BY <3>3, <4>1, <4>2
    <3>4. ~PromoteStarts
      BY DEF PromoteStarts, NotPromoting
    <3>5. ~Sweeps /\ ~PromoteRecords /\ ~PromoteFails
      <4>1. ~Sweeps
        <5> HIDE DEF Gated, Incomplete
        <5> QED BY <2>1 DEF Sweeps, AnyPromote
      <4>2. ~PromoteRecords
        <5> SUFFICES ASSUME PromoteRecords PROVE FALSE
          OBVIOUS
        <5>1. \/ promote' = [promote EXCEPT !.pc = "verify", !.verify = @ \ {check[Promoter].epic}]
              \/ promote' = NotPromoting
          BY DEF PromoteRecords
        <5>2. promote'.pc \in {"verify", "idle"}
          <6>1. NotPromoting.pc = "idle"
            BY DEF NotPromoting
          <6>2. \A v : [promote EXCEPT !.pc = "verify", !.verify = v].pc = "verify"
            BY <2>1 DEF AnyPromote
          <6> QED BY <5>1, <6>1, <6>2
        <5> QED BY <5>2
      <4>3. ~PromoteFails
        BY DEF PromoteFails, NotPromoting
      <4> QED BY <4>1, <4>2, <4>3
    <3>6. \A e \in Epic : ~PromoteClaims(e) /\ ~PromoteSplits(e)
      BY <2>1 DEF PromoteClaims, PromoteSplits, Goes, AnyPromote
    <3> QED BY <3>1, <3>2, <3>3, <3>4, <3>5, <3>6 DEF Next
  <2> QED BY <2>2 DEF PromotePushes, WInv, SweepOK
<1> QED BY <1>1, WholeInvariance, PTL DEF Spec, PromotedIsWhole

\* As long as no slice is added during a promote, no unclaim races a ship and the
\* catalog names every epic, a split is approved for good only by a promote whose
\* other epics have all been found verified (pass 3 of check_epics).
THEOREM SplitsAreLast ==
    ASSUME Calm, "drift" \notin Liberties PROVE Spec => SplitIsLast
<1> DEFINE New == \E e \in Epic : epics'[e].split /\ ~epics[e].split
           Last == New => \A e \in Touched(Head) :
                             epics[e].split \/ ~Complete(e, Head) \/ e \in proven
<1>1. IInv /\ WInv /\ [Next]_vars => [Last]_vars
  <2> SUFFICES ASSUME IInv, WInv, Next, New
               PROVE  \A e \in Touched(Head) : epics[e].split \/ ~Complete(e, Head) \/ e \in proven
    OBVIOUS
  <2>1. PICK d \in Epic : epics'[d].split /\ ~epics[d].split
    OBVIOUS
  <2>2. PICK e \in Epic : PromoteSplits(e)
    <3>1. ~UNCHANGED epics /\ ~(epics' = saved)
      BY <2>1 DEF WInv, SplitsOK
    <3>2. ASSUME NEW f \in Feature,
                 \/ Fanout(f) \/ Refine(f) \/ Claim(f) \/ UnclaimReads(f)
                 \/ UnclaimWrites(f) \/ ShipLands(f) \/ ShipRollsBack(f)
          PROVE  FALSE
      <4>1. UnclaimWrites(f) \/ ShipLands(f)
        BY <3>1, <3>2 DEF Fanout, Refine, Claim, UnclaimReads, ShipRollsBack
      <4>2. CASE UnclaimWrites(f)
        <5>1. epics'[d] = Demoted(epics[d]) \/ epics'[d] = epics[d]
          BY <4>2 DEF UnclaimWrites
        <5>2. Demoted(epics[d]).split = epics[d].split
          BY DEF Demoted, IInv, Shape, AnyEntry
        <5> QED BY <2>1, <5>1, <5>2
      <4>3. CASE ShipLands(f)
        <5>1. PICK e \in Epic : Claims(f, e, Landed(f))
          BY <3>1, <4>3 DEF ShipLands
        <5> QED BY <2>1, <5>1 DEF Claims, WritesClaim, IInv, Shape, AnyEntry
      <4> QED BY <4>1, <4>2, <4>3
    <3>3. ASSUME NEW r \in Run, NEW e \in Epic, NEW sha, 
                 epics' = [epics EXCEPT ![e].st = "verifying", ![e].verifying = sha]
          PROVE  FALSE
      BY <2>1, <3>3 DEF IInv, Shape, AnyEntry
    <3>4. ASSUME NEW r \in Run, NEW ok \in BOOLEAN, Records(r, ok), check[r] # NotChecking PROVE FALSE
      <4>1. check[r].epic \in Epic
        BY <3>4 DEF IInv, ChecksOK
      <4>2. Verdict(epics[check[r].epic], check[r].sha, ok).split = epics[check[r].epic].split
        BY <4>1 DEF Verdict, IInv, Shape, AnyEntry
      <4> QED BY <2>1, <3>4, <4>1, <4>2 DEF Records, IInv, Shape
    <3>5. ASSUME NEW r \in Verifier, NEW force \in BOOLEAN, ClaimDies(r) \/ VerifyClaims(r, force)
          PROVE  FALSE
      BY <3>3, <3>5 DEF ClaimDies, VerifyClaims, Claims, WritesClaim, Run
    <3>6. ASSUME NEW r \in Run, CheckEnds(r) \/ CheckDies(r) PROVE FALSE
      BY <3>1, <3>4, <3>6 DEF CheckEnds, CheckDies
    <3>7. ~PromoteStarts /\ ~Sweeps /\ ~PromotePushes /\ ~PromoteFails
      BY <3>1 DEF PromoteStarts, Sweeps, PromotePushes, PromoteFails
    <3>8. ~PromoteRecords
      <4>1. Promoter \in Run
        BY DEF Run
      <4> QED BY <3>4, <4>1 DEF PromoteRecords, IInv, ChecksOK
    <3>9. ASSUME NEW e \in Epic, PromoteClaims(e) PROVE FALSE
      <4>1. Promoter \in Run
        BY DEF Run
      <4> QED BY <3>1, <3>3, <3>9, <4>1 DEF PromoteClaims, Claims, WritesClaim
    <3> QED BY <3>2, <3>5, <3>6, <3>7, <3>8, <3>9 DEF Next
  <2>3. promote.pc = "verify" /\ promote.verify = {}
    BY <2>2 DEF PromoteSplits, SweepIsOver
  <2>4. \A e1 \in Epic : epics[e1].st # "missing"
    BY DEF WInv, SplitsOK
  <2>5. Touched(Head) \subseteq Epic
    BY DEF Touched
  <2> QED BY <2>3, <2>4, <2>5 DEF WInv, SweepOK
<1> QED BY <1>1, WholeInvariance, PTL DEF Spec, SplitIsLast

(***************************************************************************)
(* The third invariant: a claim has one holder                             *)
(***************************************************************************)
Peaceful == kills = 0 /\ \A r \in Verifier : asked[r] # "force"

\* The run r checks epic e for the sha the catalog names, and nobody else checks e.
HoldsAlone(r, e) ==
    /\ check[r].epic = e /\ check[r].sha = epics[e].verifying
    /\ \A q \in Run : check[q].epic = e => q = r

HoldOK(e) == IF epics[e].st = "verifying" THEN \E r \in Run : HoldsAlone(r, e)
             ELSE \A q \in Run : check[q].epic # e

\* As long as nobody forces and nobody is killed: nothing is left uncommitted for a
\* ship to roll back.
Held == saved = epics /\ \A e \in Epic : HoldOK(e)

\* A ship checks no epic but its own, so that one that claims holds no other claim.
OwnEpic == \A f \in Feature : check[f].epic \in {NoEpic, EpicOf[f]}

HInv == kills \in Nat /\ OwnEpic /\ (Peaceful => Held)

LEMMA ClaimHolds ==
    ASSUME IInv, Held, NEW r \in Run, NEW e \in Epic, NEW tree \in Content,
           Claims(r, e, tree), epics[e].st # "verifying", check[r].epic \notin Epic
    PROVE  Held'
<1> DEFINE sha == Sha(r, tree)
<1>1. /\ check' = [check EXCEPT ![r] = [epic |-> e, sha |-> sha]]
      /\ epics' = [epics EXCEPT ![e].st = "verifying", ![e].verifying = sha]
      /\ saved' = epics'
    BY DEF Claims, WritesClaim
<1> HIDE DEF sha
<1>2. /\ epics'[e].st = "verifying" /\ epics'[e].verifying = sha
      /\ \A d \in Epic : d # e => epics'[d] = epics[d]
    BY <1>1 DEF IInv, Shape, AnyEntry
<1>3. /\ check'[r].epic = e /\ check'[r].sha = sha
      /\ \A q \in Run : q # r => check'[q] = check[q]
    BY <1>1 DEF IInv, Shape
<1>4. \A q \in Run : check[q].epic # e
    BY DEF Held, HoldOK
<1>5. HoldOK(e)'
    BY <1>2, <1>3, <1>4 DEF HoldOK, HoldsAlone
<1>6. ASSUME NEW d \in Epic, d # e PROVE HoldOK(d)'
  <2>1. HoldOK(d) /\ epics'[d] = epics[d] /\ check[r].epic # d /\ check'[r].epic # d
    BY <1>2, <1>3, <1>6 DEF Held
  <2>2. CASE epics[d].st = "verifying"
    <3>1. PICK q \in Run : HoldsAlone(q, d)
      BY <2>1, <2>2 DEF HoldOK
    <3>2. HoldsAlone(q, d)'
      BY <1>3, <2>1, <3>1 DEF HoldsAlone
    <3> QED BY <2>1, <2>2, <3>2 DEF HoldOK
  <2>3. CASE epics[d].st # "verifying"
    BY <1>3, <2>1, <2>3 DEF HoldOK
  <2> QED BY <2>2, <2>3
<1> QED BY <1>1, <1>5, <1>6 DEF Held

LEMMA RecordHolds ==
    ASSUME IInv, Held, NEW r \in Run, NEW ok \in BOOLEAN,
           Records(r, ok), check[r] # NotChecking
    PROVE  Held'
<1> DEFINE sha == check[r].sha
<1>1. NoEpic \notin Epic /\ check[r].epic \in Epic
    BY EpicAssumption DEF IInv, ChecksOK
<1>0. PICK e \in Epic : e = check[r].epic
    BY <1>1
<1>2. epics[e].st = "verifying" /\ HoldsAlone(r, e)
    BY <1>0 DEF Held, HoldOK, HoldsAlone
<1>3. MayRecord(e, sha)
    BY <1>2 DEF MayRecord, HoldsAlone
<1>4. /\ epics' = [epics EXCEPT ![e] = Verdict(@, sha, ok)] /\ saved' = epics'
      /\ check' = [check EXCEPT ![r] = NotChecking]
    BY <1>0, <1>3 DEF Records
<1>5. /\ epics'[e].st # "verifying"
      /\ \A d \in Epic : d # e => epics'[d] = epics[d]
    BY <1>1, <1>4 DEF IInv, Shape, Verdict, AnyEntry
<1>6. /\ check'[r].epic \notin Epic
      /\ \A q \in Run : q # r => check'[q] = check[q]
    BY <1>1, <1>4 DEF IInv, Shape, NotChecking
<1>7. \A q \in Run : q # r => check[q].epic # e
    BY <1>2 DEF HoldsAlone
<1> HIDE DEF sha
<1>9. HoldOK(e)'
    BY <1>1, <1>5, <1>6, <1>7 DEF HoldOK
<1>8. ASSUME NEW d \in Epic, d # e PROVE HoldOK(d)'
  <2>1. HoldOK(d) /\ epics'[d] = epics[d] /\ check[r].epic # d /\ check'[r].epic # d
    BY <1>0, <1>5, <1>6, <1>8 DEF Held
  <2>2. CASE epics[d].st = "verifying"
    <3>1. PICK q \in Run : HoldsAlone(q, d)
      BY <2>1, <2>2 DEF HoldOK
    <3>2. HoldsAlone(q, d)'
      BY <1>6, <2>1, <3>1 DEF HoldsAlone
    <3> QED BY <2>1, <2>2, <3>2 DEF HoldOK
  <2>3. CASE epics[d].st # "verifying"
    BY <1>6, <2>1, <2>3 DEF HoldOK
  <2> QED BY <2>2, <2>3
<1> QED BY <1>4, <1>8, <1>9 DEF Held

\* What takes and gives back no claim.
LEMMA OthersHold ==
    ASSUME Held, UNCHANGED check, saved' = epics',
           \A e \in Epic : \/ epics'[e] = epics[e]
                           \/ epics[e].st # "verifying" /\ epics'[e].st # "verifying"
                           \/ epics'[e].st = epics[e].st /\ epics'[e].verifying = epics[e].verifying
    PROVE  Held'
BY DEF Held, HoldOK, HoldsAlone

LEMMA InitIsHeld == Init => HInv
<1> SUFFICES ASSUME Init PROVE HInv
    OBVIOUS
<1>1. \A r \in Run : check[r].epic = NoEpic
    BY DEF Init, NotChecking
<1>2. \A e \in Epic : epics[e].st # "verifying" /\ e # NoEpic
    BY EpicAssumption DEF Init, Entry
<1> QED BY <1>1, <1>2 DEF Init, HInv, OwnEpic, Held, HoldOK, Run

LEMMA StepIsHeld == IInv /\ HInv /\ [Next]_vars => HInv'
<1> SUFFICES ASSUME IInv, HInv, [Next]_vars PROVE HInv'
    OBVIOUS
<1>0. /\ Feature \subseteq Run /\ Verifier \subseteq Run /\ Promoter \in Run
      /\ \A f \in Feature : f \notin Verifier /\ f # Promoter
      /\ NoEpic \notin Epic
    BY EpicAssumption DEF Run
<1>1. ASSUME UNCHANGED <<kills, asked, check, epics, saved>> PROVE HInv'
    BY <1>1 DEF HInv, OwnEpic, Peaceful, Held, HoldOK, HoldsAlone
<1>2. ASSUME NEW f \in Feature, Fanout(f) \/ Refine(f) \/ Claim(f) PROVE HInv'
  <2>1. UNCHANGED <<kills, asked, check, epics>> /\ saved' = epics
    BY <1>2 DEF Fanout, Refine, Claim, boundVars
  <2> QED BY <2>1 DEF HInv, OwnEpic, Peaceful, Held, HoldOK, HoldsAlone
<1>3. ASSUME NEW f \in Feature, UnclaimWrites(f) PROVE HInv'
  <2>1. /\ epics' = [e \in Epic |-> IF e = EpicOf[f] /\ epics[e].st = "verified"
                                    THEN Demoted(epics[e]) ELSE epics[e]]
        /\ saved' = epics' /\ UNCHANGED <<kills, asked, check>>
    BY <1>3 DEF UnclaimWrites, boundVars
  <2>2. \A e \in Epic : Demoted(epics[e]).st = "open"
    BY DEF IInv, Shape, AnyEntry, Demoted
  <2>3. Held => Held'
    BY <2>1, <2>2, OthersHold
  <2> QED BY <2>1, <2>3 DEF HInv, OwnEpic, Peaceful
<1>4. ASSUME NEW f \in Feature, ShipLands(f) PROVE HInv'
  <2>1. UNCHANGED <<kills, asked>>
    BY <1>4 DEF ShipLands, boundVars
  <2>2. CASE saved' = epics /\ UNCHANGED <<epics, check>>
    BY <2>1, <2>2 DEF HInv, OwnEpic, Peaceful, Held, HoldOK, HoldsAlone
  <2>3. ASSUME NEW e \in Epic, Completes(f, e), Claims(f, e, Landed(f)) PROVE HInv'
    <3>1. e = EpicOf[f] /\ epics[e].st # "verifying"
      BY <2>3 DEF Completes, Claimable
    <3>2. check' = [check EXCEPT ![f] = [epic |-> e, sha |-> Sha(f, Landed(f))]]
      BY <2>3 DEF Claims
    <3>3. OwnEpic'
      BY <1>0, <3>1, <3>2 DEF HInv, OwnEpic, IInv, Shape
    <3>4. Landed(f) \in Content
      BY DEF Landed, Content, IInv, Shape, FeatureStatus
    <3>5. Held => Held'
      <4> SUFFICES ASSUME Held PROVE Held'
        OBVIOUS
      <4>1. check[f].epic \notin Epic
        BY <1>0, <3>1 DEF HInv, OwnEpic, Held, HoldOK
      <4> QED BY <1>0, <2>3, <3>1, <3>4, <4>1, ClaimHolds
    <3> QED BY <2>1, <3>3, <3>5 DEF HInv, Peaceful
  <2> QED BY <1>4, <2>2, <2>3 DEF ShipLands
<1>5. ASSUME NEW f \in Feature, ShipRollsBack(f) PROVE HInv'
  <2>1. UNCHANGED <<kills, asked, check, saved>> /\ epics # saved
    BY <1>5 DEF ShipRollsBack, boundVars
  <2> QED BY <2>1 DEF HInv, OwnEpic, Peaceful, Held
<1>6. ASSUME NEW r \in Verifier, NEW force \in BOOLEAN, VerifyClaims(r, force) PROVE HInv'
  <2>1. PICK e \in Epic : epics[e].st \in Claimable(force, FALSE) /\ Claims(r, e, Head)
    BY <1>6 DEF VerifyClaims
  <2>2. /\ asked[r] = "not" /\ kills' = kills
        /\ asked' = [asked EXCEPT ![r] = IF force THEN "force" ELSE "plain"]
        /\ check' = [check EXCEPT ![r] = [epic |-> e, sha |-> Sha(r, Head)]]
    BY <1>6, <2>1 DEF VerifyClaims, Claims
  <2>3. OwnEpic'
    BY <1>0, <2>2 DEF HInv, OwnEpic, IInv, Shape
  <2>4. ASSUME Peaceful' PROVE Peaceful /\ Held'
    <3>1. ~force /\ Peaceful
      BY <2>2, <2>4 DEF Peaceful, IInv, Shape
    <3>2. epics[e].st # "verifying"
      BY <2>1, <3>1 DEF Claimable
    <3>3. check[r].epic \notin Epic
      BY <1>0, <2>2 DEF IInv, ChecksOK, NotChecking
    <3>4. Head \in Content
      BY Trees DEF IInv
    <3> QED BY <1>0, <2>1, <3>1, <3>2, <3>3, <3>4, ClaimHolds DEF HInv
  <2> QED BY <2>2, <2>3, <2>4 DEF HInv
<1>7. ASSUME NEW r \in Run, NEW ok \in BOOLEAN, Records(r, ok), check[r] # NotChecking,
             UNCHANGED <<kills, asked>>
      PROVE  HInv'
  <2>1. check' = [check EXCEPT ![r] = NotChecking] /\ NotChecking.epic = NoEpic
    BY <1>7 DEF Records, NotChecking
  <2>2. OwnEpic'
    BY <1>0, <2>1 DEF HInv, OwnEpic, IInv, Shape
  <2>3. Held => Held'
    BY <1>7, RecordHolds
  <2> QED BY <1>7, <2>2, <2>3 DEF HInv, Peaceful
<1>8. ASSUME kills' = kills + 1,
             (UNCHANGED check) \/ (\E r \in Run : check' = [check EXCEPT ![r] = NotChecking])
      PROVE  HInv'
  <2>1. OwnEpic'
    BY <1>0, <1>8 DEF HInv, OwnEpic, IInv, Shape, NotChecking
  <2>2. kills' \in Nat /\ kills' # 0
    BY <1>8 DEF HInv
  <2> QED BY <2>1, <2>2 DEF HInv, Peaceful
<1>9. ASSUME NEW e \in Epic, PromoteClaims(e) PROVE HInv'
  <2>1. UNCHANGED <<kills, asked>> /\ promote.pc = "verify"
    BY <1>9 DEF PromoteClaims, boundVars
  <2>2. CASE UNCHANGED <<epics, saved, check>>
    BY <1>1, <2>1, <2>2
  <2>3. CASE epics[e].st \in Claimable(FALSE, TRUE) /\ Claims(Promoter, e, Head)
    <3>1. check' = [check EXCEPT ![Promoter] = [epic |-> e, sha |-> Sha(Promoter, Head)]]
      BY <2>3 DEF Claims
    <3>2. OwnEpic'
      BY <1>0, <3>1 DEF HInv, OwnEpic, IInv, Shape
    <3>3. epics[e].st # "verifying" /\ check[Promoter].epic \notin Epic
      BY <1>0, <2>1, <2>3 DEF Claimable, IInv, ChecksOK, NotChecking
    <3>4. Head \in Content
      BY Trees DEF IInv
    <3>5. Held => Held'
      BY <1>0, <2>3, <3>3, <3>4, ClaimHolds
    <3> QED BY <2>1, <3>2, <3>5 DEF HInv, Peaceful
  <2> QED BY <1>9, <2>2, <2>3 DEF PromoteClaims
<1>10. ASSUME NEW e \in Epic, PromoteSplits(e) PROVE HInv'
  <2>1. /\ epics' = [epics EXCEPT ![e].split = TRUE] /\ saved' = epics'
        /\ UNCHANGED <<kills, asked, check>>
    BY <1>10 DEF PromoteSplits, boundVars
  <2>2. \A d \in Epic : epics'[d].st = epics[d].st /\ epics'[d].verifying = epics[d].verifying
    BY <2>1 DEF IInv, Shape, AnyEntry
  <2>3. Held => Held'
    BY <2>1, <2>2, OthersHold
  <2> QED BY <2>1, <2>3 DEF HInv, OwnEpic, Peaceful
<1>11. CASE \E f \in Feature : \/ Fanout(f) \/ Refine(f) \/ Claim(f)
                               \/ UnclaimReads(f) \/ UnclaimWrites(f)
                               \/ ShipLands(f) \/ ShipRollsBack(f)
  <2>1. ASSUME NEW f \in Feature, UnclaimReads(f) PROVE HInv'
    <3>1. UNCHANGED <<kills, asked, check, epics, saved>>
      BY <2>1 DEF UnclaimReads
    <3> QED BY <1>1, <3>1
  <2> QED BY <1>2, <1>3, <1>4, <1>5, <1>11, <2>1
<1>12. CASE \E r \in Verifier : ClaimDies(r) \/ \E force \in BOOLEAN : VerifyClaims(r, force)
  <2>1. ASSUME NEW r \in Verifier, ClaimDies(r) PROVE HInv'
    <3>1. kills' = kills + 1 /\ UNCHANGED check
      BY <2>1 DEF ClaimDies
    <3> QED BY <1>8, <3>1
  <2> QED BY <1>6, <1>12, <2>1
<1>13. CASE \E r \in Run : CheckEnds(r) \/ CheckDies(r)
  <2>1. ASSUME NEW r \in Run, CheckEnds(r) PROVE HInv'
    <3>1. check[r] # NotChecking /\ (\E ok \in BOOLEAN : Records(r, ok)) /\ UNCHANGED <<kills, asked>>
      BY <2>1 DEF CheckEnds, boundVars
    <3> QED BY <1>7, <3>1
  <2>2. ASSUME NEW r \in Run, CheckDies(r) PROVE HInv'
    <3>1. kills' = kills + 1 /\ check' = [check EXCEPT ![r] = NotChecking]
      BY <2>2 DEF CheckDies
    <3> QED BY <1>8, <3>1
  <2> QED BY <1>13, <2>1, <2>2
<1>14. CASE PromoteStarts \/ Sweeps \/ PromotePushes \/ PromoteFails
  <2>1. UNCHANGED <<kills, asked, check, epics, saved>>
    BY <1>14 DEF PromoteStarts, Sweeps, PromotePushes, PromoteFails, boundVars
  <2> QED BY <1>1, <2>1
<1>15. CASE PromoteRecords
  <2>1. (\E ok \in BOOLEAN : Records(Promoter, ok)) /\ UNCHANGED <<kills, asked>> /\ check[Promoter] # NotChecking
    BY <1>15 DEF PromoteRecords, boundVars, IInv, ChecksOK
  <2> QED BY <1>0, <1>7, <2>1
<1>16. CASE UNCHANGED vars
    BY <1>1, <1>16 DEF vars
<1> QED BY <1>9, <1>10, <1>11, <1>12, <1>13, <1>14, <1>15, <1>16 DEF Next

\* As long as nobody forces a verification and no process is killed, an epic says
\* verifying exactly while one run checks it: a claim is committed in the hold of
\* the lock that wins it, so that the rollback of another ship finds nothing to undo
\* (try_begin_verification and run_and_record of epic_gate.py).
THEOREM ClaimsAreHeld == Spec => []ClaimIsHeld
<1>1. ASSUME HInv PROVE ClaimIsHeld
  <2> SUFFICES ASSUME Peaceful, NEW e \in Epic,
                      NEW runs, runs = {r \in Run : check[r].epic = e}
               PROVE  IF epics[e].st = "verifying" THEN Cardinality(runs) = 1 ELSE runs = {}
    BY DEF ClaimIsHeld, Peaceful
  <2>1. HoldOK(e)
    BY <1>1 DEF HInv, Held
  <2>2. CASE epics[e].st = "verifying"
    <3>1. PICK r \in Run : HoldsAlone(r, e)
      BY <2>1, <2>2 DEF HoldOK
    <3>2. runs = {r}
      BY <3>1 DEF HoldsAlone
    <3> QED BY <2>2, <3>2, FS_Singleton
  <2>3. CASE epics[e].st # "verifying"
    BY <2>1, <2>3 DEF HoldOK
  <2> QED BY <2>2, <2>3
<1>2. Init => IInv /\ HInv
    BY InitHolds, InitIsHeld
<1>3. IInv /\ HInv /\ [Next]_vars => (IInv /\ HInv)'
    BY StepKeeps, StepIsHeld
<1> QED BY <1>1, <1>2, <1>3, PTL DEF Spec
================================================================================
