------------------------------- MODULE EpicGate -------------------------------
(***************************************************************************)
(* The epic layer of one release: an epic is one outcome delivered by      *)
(* several features (its slices). When a ship completes it, or somebody    *)
(* asks, a check of minutes runs on a snapshot of the release (G-E2), and  *)
(* no promote gets by without one for the tree it promotes (G-E3). The     *)
(* check runs outside file_lock(_release); its claim and its verdict are   *)
(* written under the lock, by a compare-and-set each.                      *)
(*                                                                         *)
(* A sha is the run that read it and the content of that commit outside    *)
(* the epic bookkeeping. A feature is what the idea and the refined        *)
(* catalog say of it; "before" is what an earlier release delivered.       *)
(***************************************************************************)
EXTENDS Naturals, FiniteSets

CONSTANTS
    Epic,
    Feature,
    EpicOf,      \* [Feature -> Epic \cup {NoEpic}]
    NoEpic,
    Verifier,    \* processes of psrw epic verify
    Promoter,    \* the process of psrw promote
    Liberties,   \* what happens beside the intended use, see LibertyNames
    Starts,      \* the catalogs a release may be found with
    MaxTries,    \* bound: promotes
    MaxUpsets    \* bound: unclaims and processes killed, together

LibertyNames ==
    {"late_fanout",  \* a slice is added while a promote is at work
     "late_unclaim", \* an unclaim is at work while a ship or a promote is
     "drift"}        \* a feature names an epic that the catalog has not

ASSUME EpicAssumption ==
    /\ EpicOf \in [Feature -> Epic \cup {NoEpic}]
    /\ NoEpic \notin Epic \cup Feature \cup Verifier \cup {Promoter}
    /\ Verifier \cap (Feature \cup {Promoter}) = {} /\ Promoter \notin Feature
    /\ Liberties \subseteq LibertyNames
    /\ {MaxTries, MaxUpsets} \subseteq Nat
    /\ Starts \subseteq [Feature -> {"none", "idea", "open", "claimed", "before"}]

Slices(e) == {f \in Feature : EpicOf[f] = e}

\* Who can run a check: the ship of a slice, a verifier, the promote.
Run == Feature \cup Verifier \cup {Promoter}

VARIABLES
    code,     \* features merged into the release
    feat,     \* [Feature -> FeatureStatus], as committed
    epics,    \* the epic catalog in the _release worktree
    saved,    \* the epic catalog of the release head
    check,    \* [Run -> the claim a run has won and checks, or none]
    unclaims, \* features whose unclaim has read the catalog and not written it
    promote,  \* the promote
    newest,   \* [Epic -> the last claim that was won]
    proven,   \* epics whose check has passed on the code of the head
    asked,    \* [Verifier -> what it has been run with]
    tries, undone, kills

vars == <<code, feat, epics, saved, check, unclaims, promote, newest, proven,
          asked, tries, undone, kills>>
ghostVars == <<newest, proven>>
boundVars == <<asked, tries, undone, kills>>

FeatureStatus == {"none", "idea", "open", "claimed", "shipped", "before"}
EpicStatus == {"open", "verifying", "verified", "failed", "promoted", "missing"}

Content == [code : SUBSET Feature, feat : [Feature -> FeatureStatus]]
Head == [code |-> code, feat |-> feat]
NoContent == [code |-> {}, feat |-> [f \in Feature |-> "none"]]
Sha(r, tree) == [by |-> r, tree |-> tree]
NoSha == Sha(NoEpic, NoContent)
NotChecking == [epic |-> NoEpic, sha |-> NoSha]
NotPromoting == [pc |-> "idle", allow |-> FALSE, verify |-> {}, split |-> {}]
Promoting == promote.pc # "idle"

Entry(st, split) == [st |-> st, verifying |-> NoSha, verified |-> NoSha, split |-> split]

\* An epic is new, or an earlier release promoted it, complete or split; where
\* the catalog may drift, it may be missing.
Init ==
    /\ code = {}
    /\ feat \in Starts
    /\ epics \in [Epic -> {Entry("open", FALSE), Entry("promoted", FALSE),
                           Entry("promoted", TRUE), Entry("missing", FALSE)}]
    /\ \A e \in Epic :
         LET before == \E f \in Slices(e) : feat[f] = "before"
         IN  /\ epics[e].st = "promoted" => before
             /\ epics[e].st = "open" => ~before
             /\ epics[e].st = "missing" => "drift" \in Liberties
    /\ saved = epics
    /\ check = [r \in Run |-> NotChecking]
    /\ unclaims = {}
    /\ promote = NotPromoting
    /\ newest = [e \in Epic |-> NoSha]
    /\ proven = {}
    /\ asked = [r \in Verifier |-> "not"]
    /\ tries = 0 /\ undone = 0 /\ kills = 0

(***************************************************************************)
(* lib/epic.py and lib/epic_gate.py                                        *)
(***************************************************************************)
\* epic_completeness: there are ideas, all are refined, and all features of
\* theirs are shipped on this release.
Children(e, tree) == {f \in Slices(e) : tree.feat[f] # "none"}
Complete(e, tree) ==
    Children(e, tree) # {} /\ \A f \in Children(e, tree) : tree.feat[f] = "shipped"

\* (mutant) A promote takes the claim of a check that runs.
ClaimableByAll(force, settled) == EpicStatus \ {"missing"}

\* try_begin_verification: the states a claim may be taken from.
Claimable(force, settled) ==
    {"open", "failed"} \cup (IF force THEN {"verifying", "verified"} ELSE {})
                       \cup (IF settled THEN {"verified", "promoted"} ELSE {})

\* A claim is committed at once, under the lock.
WritesClaim(e, sha) ==
    /\ epics' = [epics EXCEPT ![e].st = "verifying", ![e].verifying = sha]
    /\ saved' = epics'

Claims(r, e, tree) ==
    /\ WritesClaim(e, Sha(r, tree))
    /\ check' = [check EXCEPT ![r] = [epic |-> e, sha |-> Sha(r, tree)]]
    /\ newest' = [newest EXCEPT ![e] = Sha(r, tree)]

\* (mutant) Whoever comes back writes its verdict.
MayRecordAnyway(e, sha) == epics[e].st = "verifying"

\* _transition: only from verifying, and only for the sha that was claimed.
MayRecord(e, sha) == epics[e].st = "verifying" /\ epics[e].verifying = sha

Verdict(x, sha, ok) ==
    [x EXCEPT !.st = IF ok THEN "verified" ELSE "failed",
              !.verified = IF ok THEN sha ELSE NoSha,
              !.verifying = NoSha]

\* run_and_record, after the check: it passed or there is none, or it failed or
\* crashed. What is uncommitted is committed with it.
Records(r, ok) ==
    LET e == check[r].epic  sha == check[r].sha
    IN  /\ epics' = IF MayRecord(e, sha) THEN [epics EXCEPT ![e] = Verdict(@, sha, ok)] ELSE epics
        /\ saved' = epics'
        /\ check' = [check EXCEPT ![r] = NotChecking]
        /\ proven' = IF ok /\ sha.tree.code = code THEN proven \cup {e} ELSE proven

\* A ship or a verifier reports what it recorded and ends.
CheckEnds(r) ==
    /\ r # Promoter /\ check[r] # NotChecking
    /\ \E ok \in BOOLEAN : Records(r, ok)
    /\ UNCHANGED <<code, feat, unclaims, promote, newest, boundVars>>

(***************************************************************************)
(* The backlog, as far as an epic sees it. Who changes a catalog commits   *)
(* all that is in the _release worktree. A promote keeps none of them out. *)
(***************************************************************************)
Sets(f, st) == feat' = [feat EXCEPT ![f] = st]

\* epic_fanout: one more idea of the epic.
Fanout(f) ==
    /\ feat[f] = "none"
    /\ Promoting => "late_fanout" \in Liberties
    /\ Sets(f, "idea")
    /\ saved' = epics
    /\ UNCHANGED <<code, epics, check, unclaims, promote, ghostVars, boundVars>>

Refine(f) ==
    /\ feat[f] = "idea"
    /\ Sets(f, "open")
    /\ saved' = epics
    /\ UNCHANGED <<code, epics, check, unclaims, promote, ghostVars, boundVars>>

Claim(f) ==
    /\ feat[f] = "open" /\ f \notin unclaims
    /\ Sets(f, "claimed")
    /\ saved' = epics
    /\ UNCHANGED <<code, epics, check, unclaims, promote, ghostVars, boundVars>>

\* unclaim looks at the catalog without the lock.
UnclaimReads(f) ==
    /\ feat[f] = "claimed" /\ f \notin unclaims
    /\ undone + kills < MaxUpsets /\ undone' = undone + 1
    /\ unclaims' = unclaims \cup {f}
    /\ UNCHANGED <<code, feat, epics, saved, check, promote, ghostVars, asked, tries, kills>>

\* (mutant) The verdict of the demoted epic stays.
DemotedStatusOnly(x) == [x EXCEPT !.st = "open"]

Demoted(x) == [x EXCEPT !.st = "open", !.verified = NoSha, !.verifying = NoSha]

\* The entry goes back to open, whatever it is by now; its epic, where verified,
\* is demoted.
UnclaimWrites(f) ==
    /\ f \in unclaims
    /\ unclaims' = unclaims \ {f}
    /\ Sets(f, "open")
    /\ epics' = [e \in Epic |-> IF e = EpicOf[f] /\ epics[e].st = "verified"
                                THEN Demoted(epics[e]) ELSE epics[e]]
    /\ saved' = epics'
    /\ UNCHANGED <<code, check, promote, ghostVars, boundVars>>

(***************************************************************************)
(* ship                                                                    *)
(***************************************************************************)
\* Under the lock, and not frozen.
MayShip(f) ==
    /\ feat[f] = "claimed" /\ ~Promoting
    /\ f \in unclaims => "late_unclaim" \in Liberties

Landed(f) == [code |-> code \cup {f}, feat |-> [feat EXCEPT ![f] = "shipped"]]
Completes(f, e) ==
    /\ e = EpicOf[f] /\ Complete(e, Landed(f))
    /\ epics[e].st \in Claimable(FALSE, FALSE)

\* Merged, gated, marked shipped and committed; the claim, where this ship
\* completes its epic, in the same hold of the lock.
ShipLands(f) ==
    /\ MayShip(f)
    /\ code' = Landed(f).code /\ feat' = Landed(f).feat
    /\ \/ /\ \A e \in Epic : ~Completes(f, e)
          /\ saved' = epics
          /\ UNCHANGED <<epics, check, newest>>
       \/ \E e \in Epic : Completes(f, e) /\ Claims(f, e, Landed(f))
    /\ proven' = {}
    /\ UNCHANGED <<unclaims, promote, boundVars>>

\* Gate 1 fails on the combined tree: reset --hard, and what was not committed
\* is gone.
ShipRollsBack(f) ==
    /\ MayShip(f)
    /\ epics # saved
    /\ epics' = saved
    /\ UNCHANGED <<code, feat, saved, check, unclaims, promote, ghostVars, boundVars>>

(***************************************************************************)
(* psrw epic verify                                                        *)
(***************************************************************************)
\* It asks for no completeness.
VerifyClaims(r, force) ==
    /\ asked[r] = "not"
    /\ asked' = [asked EXCEPT ![r] = IF force THEN "force" ELSE "plain"]
    /\ \E e \in Epic : epics[e].st \in Claimable(force, FALSE) /\ Claims(r, e, Head)
    /\ UNCHANGED <<code, feat, unclaims, promote, proven, tries, undone, kills>>

(***************************************************************************)
(* promote: check_epics                                                    *)
(***************************************************************************)
Goes(pc) == promote' = [promote EXCEPT !.pc = pc]
Touched(tree) == {e \in Epic : \E f \in Slices(e) : tree.feat[f] = "shipped"}

\* The freeze; one that a dead promote left is taken over.
PromoteStarts ==
    /\ promote.pc \in {"idle", "dead"}
    /\ tries < MaxTries /\ tries' = tries + 1
    /\ \E allow \in BOOLEAN : promote' = [NotPromoting EXCEPT !.pc = "sweep", !.allow = allow]
    /\ UNCHANGED <<code, feat, epics, saved, check, unclaims, ghostVars, asked, undone, kills>>

\* Pass 1 writes nothing: what is missing gets a warning, a split epic passes,
\* an incomplete one must be allowed.
Gated == {e \in Touched(Head) : epics[e].st # "missing" /\ ~epics[e].split}
Incomplete == {e \in Gated : ~Complete(e, Head)}

MayPass == Incomplete # {} => promote.allow

Sweeps ==
    /\ promote.pc = "sweep"
    /\ MayPass
    /\ promote' = [promote EXCEPT !.pc = "verify", !.verify = Gated \ Incomplete,
                                  !.split = Incomplete]
    /\ UNCHANGED <<code, feat, epics, saved, check, unclaims, ghostVars, boundVars>>

\* (mutant) A verified epic is fresh, whatever was verified.
IsFreshAnyway(e) == epics[e].st = "verified"

\* _verification_is_fresh: nothing but epic bookkeeping changed since.
IsFresh(e) == epics[e].st = "verified" /\ epics[e].verified.tree = Head

\* Pass 2, epic by epic.
PromoteClaims(e) ==
    /\ promote.pc = "verify" /\ e \in promote.verify
    /\ \/ /\ IsFresh(e)
          /\ promote' = [promote EXCEPT !.verify = @ \ {e}]
          /\ UNCHANGED <<epics, saved, check, newest>>
       \/ /\ ~IsFresh(e)
          /\ epics[e].st \in Claimable(FALSE, TRUE)
          /\ Claims(Promoter, e, Head)
          /\ Goes("checking")
    /\ UNCHANGED <<code, feat, unclaims, proven, boundVars>>

\* The entry after the verdict decides, whoever wrote it.
PromoteRecords ==
    /\ promote.pc = "checking"
    /\ \E ok \in BOOLEAN : Records(Promoter, ok)
    /\ LET e == check[Promoter].epic
       IN  promote' = IF epics'[e].st = "verified"
                      THEN [promote EXCEPT !.pc = "verify", !.verify = @ \ {e}]
                      ELSE NotPromoting
    /\ UNCHANGED <<code, feat, unclaims, newest, boundVars>>

\* (mutant) The approvals are written while epics are still to be checked.
SweepIsOverEarly == TRUE
SweepIsOver == promote.verify = {}

\* Pass 3: an approval is for good.
PromoteSplits(e) ==
    /\ promote.pc = "verify" /\ SweepIsOver /\ e \in promote.split
    /\ epics' = [epics EXCEPT ![e].split = TRUE]
    /\ saved' = epics'
    /\ promote' = [promote EXCEPT !.split = @ \ {e}]
    /\ UNCHANGED <<code, feat, check, unclaims, ghostVars, boundVars>>

\* Gate 2 passes, and the head is pushed, whatever it is by now.
PromotePushes ==
    /\ promote.pc = "verify" /\ promote.verify = {} /\ promote.split = {}
    /\ Goes("pushed")
    /\ UNCHANGED <<code, feat, epics, saved, check, unclaims, ghostVars, boundVars>>

\* A refusal or a gate that fails lifts the freeze.
PromoteFails ==
    /\ promote.pc \in {"sweep", "verify"}
    /\ promote' = NotPromoting
    /\ UNCHANGED <<code, feat, epics, saved, check, unclaims, ghostVars, boundVars>>

(***************************************************************************)
(* Processes are killed                                                    *)
(***************************************************************************)
\* While it checks: the claim stays in the catalog.
CheckDies(r) ==
    /\ check[r] # NotChecking /\ undone + kills < MaxUpsets
    /\ kills' = kills + 1
    /\ check' = [check EXCEPT ![r] = NotChecking]
    /\ promote' = IF r = Promoter THEN [NotPromoting EXCEPT !.pc = "dead"] ELSE promote
    /\ UNCHANGED <<code, feat, epics, saved, unclaims, ghostVars, asked, tries, undone>>

\* A verifier between the claim and its commit.
ClaimDies(r) ==
    /\ asked[r] = "not" /\ undone + kills < MaxUpsets
    /\ kills' = kills + 1
    /\ asked' = [asked EXCEPT ![r] = "plain"]
    /\ \E e \in Epic : /\ epics[e].st \in Claimable(FALSE, FALSE)
                       /\ epics' = [epics EXCEPT ![e].st = "verifying", ![e].verifying = Sha(r, Head)]
    /\ UNCHANGED <<code, feat, saved, check, unclaims, promote, ghostVars, tries, undone>>

Next ==
    \/ \E f \in Feature : \/ Fanout(f) \/ Refine(f) \/ Claim(f)
                          \/ UnclaimReads(f) \/ UnclaimWrites(f)
                          \/ ShipLands(f) \/ ShipRollsBack(f)
    \/ \E r \in Verifier : ClaimDies(r) \/ \E force \in BOOLEAN : VerifyClaims(r, force)
    \/ \E r \in Run : CheckEnds(r) \/ CheckDies(r)
    \/ PromoteStarts \/ Sweeps \/ PromoteRecords \/ PromotePushes \/ PromoteFails
    \/ \E e \in Epic : PromoteClaims(e) \/ PromoteSplits(e)

Spec == Init /\ [][Next]_vars

(***************************************************************************)
(* Properties                                                              *)
(***************************************************************************)
ShaOK(s) == s.by \in Run \cup {NoEpic} /\ s.tree \in Content

TypeOK ==
    /\ Head \in Content /\ unclaims \subseteq Feature
    /\ \A e \in Epic : \A x \in {epics[e], saved[e]} :
         /\ x.st \in EpicStatus /\ ShaOK(x.verifying) /\ ShaOK(x.verified) /\ x.split \in BOOLEAN
         /\ (x.st = "verifying") = (x.verifying # NoSha)
         /\ x.st \in {"open", "failed"} => x.verified = NoSha
    /\ \A r \in Run : check[r].epic \in Epic \cup {NoEpic} /\ ShaOK(check[r].sha)
    /\ promote.pc \in {"idle", "dead", "sweep", "verify", "checking", "pushed"}
    /\ (promote.pc = "checking") = (check[Promoter] # NotChecking)
    /\ asked \in [Verifier -> {"not", "plain", "force"}]
    /\ promote.verify \cup promote.split \subseteq Epic

\* While nobody forces and nobody is killed, an epic says verifying exactly while
\* one run checks it: no two checks write into one epic folder, and no claim is
\* lost to the rollback of another ship.
ClaimIsHeld ==
    kills = 0 /\ (\A r \in Verifier : asked[r] # "force") =>
        \A e \in Epic : LET runs == {r \in Run : check[r].epic = e}
                        IN  IF epics[e].st = "verifying" THEN Cardinality(runs) = 1 ELSE runs = {}

\* A verified epic carries the verdict of the run that claimed it last: a stale
\* run that comes back after a forced one changes nothing.
VerdictIsNewest == \A e \in Epic : epics[e].st = "verified" => epics[e].verified = newest[e]

\* What a promote pushes holds no half of an epic, unless the split was approved,
\* and every epic it completes passed its check on the very code that is pushed.
PromotedIsWhole ==
    [][promote'.pc = "pushed" /\ promote.pc # "pushed" =>
         \A e \in Touched(Head) : \/ epics[e].st = "missing" \/ epics[e].split
                                  \/ Complete(e, Head) /\ e \in proven]_vars

\* A split is approved for good only by a promote whose other epics have all been
\* found verified.
SplitIsLast ==
    [][(\E e \in Epic : epics'[e].split /\ ~epics[e].split) =>
         \A e \in Touched(Head) : epics[e].split \/ ~Complete(e, Head) \/ e \in proven]_vars

\* A promote refuses a release whose feature names an epic the catalog has not. Not
\* so with drift; in no run.
MissingRefuses ==
    [][promote'.pc = "pushed" => \A e \in Touched(Head) : epics[e].st # "missing"]_vars
================================================================================
