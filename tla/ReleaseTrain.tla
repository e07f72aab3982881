----------------------------- MODULE ReleaseTrain -----------------------------
(***************************************************************************)
(* One release after another: features are shipped into release/<v> in the *)
(* shared _release worktree while main moves on with hotfixes; a promote   *)
(* freezes the release, gates it, pushes it and opens a pull request; the  *)
(* request is merged by the promote that babysits it or by a person; a     *)
(* cleanup proves what arrived and removes the rest. Every command is a    *)
(* process of its own, may die, and keeps its steps in the order of the    *)
(* code; only what file_lock(_release) covers is done in one go.           *)
(*                                                                         *)
(* A commit is what it carries: the features merged, the number of         *)
(* hotfixes of main, the refined catalog, and how often main's release     *)
(* bookkeeping had changed when it was cut.                                *)
(***************************************************************************)
EXTENDS Naturals, FiniteSets

CONSTANTS
    Feature,     \* features; each is refined and shipped by one process
    Promoter,    \* processes that promote and clean up
    Liberties,   \* what happens beside the intended use, see LibertyNames
    NoOne,
    MaxVersion,  \* bound: releases
    MaxHot,      \* bound: hotfixes on main
    MaxTries,    \* bound: promotes
    MaxFaults    \* bound: deaths and failed fetches

LibertyNames ==
    {"late_ship",     \* a ship outlives the release it was started for
     "early_cleanup", \* somebody cleans up a release that has no pull request
     "busy_cleanup",  \* a ship is at work while an unfrozen release is cleaned up
     "busy_main",     \* a hotfix lands while a cleanup is at work
     "hasty_merge",   \* a person merges the request while a promote is at work
     "old_cleanup",   \* a cleanup is run again when the next release is open
     "stale_push",    \* a promote that missed the merge is killed after its push
     "two_promotes"}  \* a promote is started beside another one

ASSUME TrainAssumption ==
    /\ Liberties \subseteq LibertyNames
    /\ NoOne \notin Feature \cup Promoter \cup {"sync-main"}
    /\ "sync-main" \notin Feature
    /\ {MaxVersion, MaxHot, MaxTries, MaxFaults} \subseteq Nat

Version == 1..MaxVersion
SyncMain == "sync-main"           \* the worker that ships no feature
Worker == Feature \cup {SyncMain}

Entry(st, v) == [st |-> st, v |-> v]
Absent == Entry("none", 0)
Open   == Entry("open", 0)
Shipped(c, v) == {f \in Feature : c[f] = Entry("shipped", v)}

VARIABLES
    main,      \* origin/main
    tracked,   \* the last fetched origin/main
    here,      \* the main checkout: the commit it is at, its catalog, its status
    rel,       \* release/<v>: version, worktree there?, head, finalized?, origin's head
    pr,        \* the pull request: "none", "open", "merged", and the head merged
    freeze,    \* release-freeze.json
    lock,      \* who holds file_lock(_release)
    ship,      \* the ships and sync-main
    promote,   \* the promotes and cleanups
    branch,    \* features whose branch exists
    told,      \* ships answered with success
    accepted,  \* the content of the last head that Gate 1 passed or a promote synced
    left,      \* the content that a killed ship left untested since then, if one did
    gated,     \* the content that Gate 2 passed last, and was it that which was pushed?
    tries, faults

vars == <<main, tracked, here, rel, pr, freeze, lock, ship, promote, branch, told,
          accepted, left, gated, tries, faults>>
mainVars  == <<main, here>>
ghostVars == <<told, accepted, left, gated>>
boundVars == <<tries, faults>>

Commit == [feats : SUBSET Feature, hot : 0..MaxHot,
           cat : [Feature -> [st : {"none", "open", "shipped", "promoted"}, v : 0..MaxVersion]],
           bk : Nat]
Nothing == [feats |-> {}, hot |-> 0, cat |-> [f \in Feature |-> Absent], bk |-> 0]
Content(c) == [feats |-> c.feats, hot |-> c.hot]

Unfrozen == [on |-> FALSE, pushed |-> FALSE, head |-> Nothing]
NoRequest == [st |-> "none", head |-> Nothing, gated |-> FALSE]
NotAtWork == [pc |-> "idle", v |-> 0, pre |-> Nothing]
NotPromoting == [pc |-> "idle", v |-> 0, babysit |-> FALSE, pushed |-> Nothing, seen |-> 0]

\* read_release_state: the worktree is there and not finalized.
InProgress == rel.up /\ ~rel.fin

Init ==
    /\ main = Nothing /\ tracked = Nothing
    /\ here = [at |-> Nothing, cat |-> Nothing.cat, st |-> "clean"]
    /\ rel = [v |-> 0, up |-> FALSE, head |-> Nothing, fin |-> FALSE,
              pushed |-> FALSE, origin |-> Nothing]
    /\ pr = NoRequest
    /\ freeze = [v \in Version |-> Unfrozen]
    /\ lock = NoOne
    /\ ship = [w \in Worker |-> NotAtWork]
    /\ promote = [p \in Promoter |-> NotPromoting]
    /\ branch = Feature
    /\ told = {} /\ accepted = Content(Nothing) /\ left = {}
    /\ gated = [content |-> Content(Nothing), pushed |-> FALSE]
    /\ tries = 0 /\ faults = 0

(***************************************************************************)
(* main                                                                    *)
(***************************************************************************)
Cleaning(p) == promote[p].pc \in {"adopt", "strand", "sweep", "remove", "commit", "unfreeze"}

\* A hotfix is squash-merged to main from a sibling worktree; it touches no
\* bookkeeping.
Hotfix ==
    /\ main.hot < MaxHot
    /\ (\E p \in Promoter : Cleaning(p)) => "busy_main" \in Liberties
    /\ main' = [main EXCEPT !.hot = @ + 1]
    /\ UNCHANGED <<tracked, here, rel, pr, freeze, lock, ship, promote, branch, ghostVars, boundVars>>

\* resolve_main_ref: origin/main after a fetch, or as it was fetched last.
ResolveMain ==
    \/ tracked' = main /\ faults' = faults
    \/ /\ faults < MaxFaults /\ tracked # main
       /\ faults' = faults + 1 /\ tracked' = tracked

\* sync_main_into_release, refused when main's bookkeeping moved since the cut.
Syncs(c) == c.bk = tracked.bk
Synced(c) == [c EXCEPT !.hot = IF tracked.hot > @ THEN tracked.hot ELSE @]

\* A pull request is squashed onto main; it does not merge when the catalogs
\* or .release.json have moved on main.
Mergeable == pr.st = "open" /\ rel.origin.bk = main.bk
Squash ==
    /\ main' = [feats |-> main.feats \cup rel.origin.feats,
                hot   |-> IF rel.origin.hot > main.hot THEN rel.origin.hot ELSE main.hot,
                cat   |-> rel.origin.cat,
                bk    |-> main.bk + 1]
    /\ pr' = [st |-> "merged", head |-> rel.origin, gated |-> gated.pushed]

(***************************************************************************)
(* new-release and the backlog                                             *)
(***************************************************************************)
\* fetch_and_ff_main, then release/<v> and its worktree, then the start commit.
NewRelease ==
    /\ rel.v < MaxVersion /\ ~rel.up
    /\ here.st = "clean"
    /\ "late_ship" \notin Liberties => \A w \in Worker : ship[w].pc = "idle"
    /\ tracked' = main
    /\ here' = [at |-> main, cat |-> main.cat, st |-> "clean"]
    /\ rel' = [v |-> rel.v + 1, up |-> TRUE, head |-> main, fin |-> FALSE,
               pushed |-> FALSE, origin |-> Nothing]
    /\ pr' = NoRequest
    /\ accepted' = Content(main) /\ left' = {}
    /\ UNCHANGED <<main, freeze, lock, ship, promote, branch, told, gated, boundVars>>

\* The refined entry of a feature is committed on the release branch. Neither
\* the freeze nor a promote at work keeps it out.
Refine(f) ==
    /\ InProgress /\ lock = NoOne
    /\ rel.head.cat[f] = Absent
    /\ rel' = [rel EXCEPT !.head.cat[f] = Open]
    /\ UNCHANGED <<mainVars, tracked, pr, freeze, lock, ship, promote, branch, ghostVars, boundVars>>

(***************************************************************************)
(* ship and sync-main                                                      *)
(***************************************************************************)
\* The marker, a clean tree, the release in progress: read without the lock.
ShipStarts(w) ==
    /\ ship[w].pc = "idle"
    /\ InProgress
    /\ (\E p \in Promoter : Cleaning(p)) => "busy_cleanup" \in Liberties
    /\ w \in Feature => w \in branch /\ rel.head.cat[w].st = "open"
    /\ w = SyncMain => main.hot > rel.head.hot
    /\ ship' = [ship EXCEPT ![w] = [@ EXCEPT !.pc = "gate1", !.v = rel.v]]
    /\ UNCHANGED <<mainVars, tracked, rel, pr, freeze, lock, promote, branch, ghostVars, boundVars>>

\* Gate 1 on the feature worktree passes, and main is fetched once more.
FeatureGate(w) ==
    /\ ship[w].pc = "gate1"
    /\ ResolveMain
    /\ ship' = [ship EXCEPT ![w].pc = "want"]
    /\ UNCHANGED <<mainVars, rel, pr, freeze, lock, promote, branch, ghostVars, tries>>

\* Refused, in conflict, or a gate that fails: nothing has been changed.
ShipGivesUp(w) ==
    /\ \/ ship[w].pc = "gate1"
       \/ ship[w].pc = "want" /\ lock = NoOne
    /\ ship' = [ship EXCEPT ![w] = NotAtWork]
    /\ UNCHANGED <<mainVars, tracked, rel, pr, freeze, lock, promote, branch, ghostVars, boundVars>>

\* (mutant) A ship merges without the lock.
ShipMergesUnlocked(w) ==
    /\ ship[w].pc = "want" /\ rel.up /\ ~freeze[ship[w].v].on
    /\ ship' = [ship EXCEPT ![w].pc = "gate", ![w].pre = rel.head]
    /\ rel' = [rel EXCEPT !.head.feats = @ \cup ({w} \cap Feature)]
    /\ UNCHANGED <<mainVars, tracked, pr, freeze, lock, promote, branch, ghostVars, boundVars>>

\* Under the lock: the freeze is looked up for the version that was read at the
\* start, main is merged and then the feature.
\* (mutant) The freeze is not looked up.
MayMergeFrozen(w) == TRUE
MayMerge(w) == ~freeze[ship[w].v].on

ShipMerges(w) ==
    /\ ship[w].pc = "want" /\ lock = NoOne
    /\ MayMerge(w)
    /\ rel.up /\ Syncs(rel.head)
    /\ lock' = w
    /\ ship' = [ship EXCEPT ![w].pc = "gate", ![w].pre = rel.head]
    /\ rel' = [rel EXCEPT !.head = [Synced(rel.head) EXCEPT !.feats = @ \cup ({w} \cap Feature)]]
    /\ UNCHANGED <<mainVars, tracked, pr, freeze, promote, branch, ghostVars, boundVars>>

\* Gate 1 passes on the combined tree: the entry is marked shipped on the version
\* that was read, and committed. Without an entry, or with a release that is
\* finalized by now, the ship fails and the merge stays.
ShipLands(w) ==
    /\ ship[w].pc = "gate"
    /\ accepted' = Content(rel.head) /\ left' = {}
    /\ IF w \in Feature /\ InProgress /\ rel.head.cat[w].st # "none"
       THEN /\ rel' = [rel EXCEPT !.head.cat[w] = Entry("shipped", ship[w].v)]
            /\ told' = told \cup {w}
       ELSE UNCHANGED <<rel, told>>
    /\ ship' = [ship EXCEPT ![w] = NotAtWork]
    /\ lock' = NoOne
    /\ UNCHANGED <<mainVars, tracked, pr, freeze, promote, branch, gated, boundVars>>

\* Back to a head, and out of the lock.
ShipRollsBackTo(w, c) ==
    /\ ship[w].pc = "gate"
    /\ rel' = [rel EXCEPT !.head = c]
    /\ ship' = [ship EXCEPT ![w] = NotAtWork]
    /\ lock' = NoOne
    /\ UNCHANGED <<mainVars, tracked, pr, freeze, promote, branch, ghostVars, boundVars>>

\* (mutant) Back by one commit, which leaves main's.
ShipRollsBackOneCommit(w) == ShipRollsBackTo(w, [ship[w].pre EXCEPT !.hot = rel.head.hot])

\* It fails, or cannot be run: back to the head before the sync.
ShipRollsBack(w) == ShipRollsBackTo(w, ship[w].pre)

\* The lock of a process that dies is free; the merge it had made stays, and
\* Gate 1 has not passed it.
ShipDies(w) ==
    /\ ship[w].pc # "idle" /\ faults < MaxFaults
    /\ faults' = faults + 1
    /\ ship' = [ship EXCEPT ![w] = NotAtWork]
    /\ lock' = IF lock = w THEN NoOne ELSE lock
    /\ left' = IF lock = w THEN {Content(rel.head)} ELSE left
    /\ UNCHANGED <<mainVars, tracked, rel, pr, freeze, promote, branch, told, accepted, gated, tries>>

(***************************************************************************)
(* promote                                                                 *)
(***************************************************************************)
Goes(p, pc) == promote' = [promote EXCEPT ![p].pc = pc]

PromoteStarts(p) ==
    /\ promote[p].pc = "idle" /\ InProgress
    /\ tries < MaxTries
    /\ "two_promotes" \notin Liberties => \A q \in Promoter : promote[q].pc = "idle"
    /\ tries' = tries + 1
    /\ \E b \in BOOLEAN :
         promote' = [promote EXCEPT ![p] = [NotPromoting EXCEPT !.pc = "start", !.v = rel.v,
                                                                !.babysit = b]]
    /\ ResolveMain
    /\ UNCHANGED <<mainVars, rel, pr, freeze, lock, ship, branch, ghostVars>>

\* Under the lock: freeze the release and absorb main. The entry of an earlier
\* promote is kept as it is, and so is what a killed ship left.
Freezes(p) ==
    /\ promote[p].pc = "start" /\ lock = NoOne
    /\ rel.up /\ Syncs(rel.head)
    /\ freeze' = [freeze EXCEPT ![promote[p].v].on = TRUE]
    /\ rel' = [rel EXCEPT !.head = Synced(@)]
    /\ IF left = {} THEN accepted' = Content(rel'.head) /\ left' = left
                    ELSE left' = {Content(rel'.head)} /\ accepted' = accepted
    /\ Goes(p, "frozen")
    /\ UNCHANGED <<mainVars, tracked, pr, lock, ship, branch, told, gated, boundVars>>

\* The epic gate, the deploy and Gate 2, on the _release worktree.
Gate2(p) ==
    /\ promote[p].pc = "frozen" /\ rel.up
    /\ gated' = [gated EXCEPT !.content = Content(rel.head)]
    /\ Goes(p, "gated")
    /\ UNCHANGED <<mainVars, tracked, rel, pr, freeze, lock, ship, branch, told, accepted, left, boundVars>>

\* git push of the branch, whatever it is now, and the record of its head.
Pushes(p) ==
    /\ promote[p].pc = "gated"
    /\ rel.up /\ rel.v = promote[p].v
    /\ rel' = [rel EXCEPT !.pushed = TRUE, !.origin = rel.head]
    /\ freeze' = [freeze EXCEPT ![promote[p].v] = [@ EXCEPT !.pushed = TRUE, !.head = rel.head]]
    /\ promote' = [promote EXCEPT ![p] = [@ EXCEPT !.pc = "pushed", !.pushed = rel.head]]
    /\ gated' = [gated EXCEPT !.pushed = (Content(rel.head) = gated.content)]
    /\ UNCHANGED <<mainVars, tracked, pr, lock, ship, branch, told, accepted, left, boundVars>>

\* gh pr create, or the request that is open already.
OpensPR(p) ==
    /\ promote[p].pc = "pushed" /\ rel.pushed
    /\ pr' = [NoRequest EXCEPT !.st = "open"]
    /\ Goes(p, IF promote[p].babysit THEN "watch" ELSE "finalize")
    /\ UNCHANGED <<mainVars, tracked, rel, freeze, lock, ship, branch, ghostVars, boundVars>>

\* The checks are green.
ChecksPass(p) ==
    /\ promote[p].pc = "watch"
    /\ promote' = [promote EXCEPT ![p] = [@ EXCEPT !.pc = "guard", !.seen = main.hot]]
    /\ UNCHANGED <<mainVars, tracked, rel, pr, freeze, lock, ship, branch, ghostVars, boundVars>>

\* (mutant) Nobody looks at main again.
MainUnchecked == TRUE

\* The head that was checked is the local head, and main has not moved.
Unraced(p) == rel.head = promote[p].pushed
MainUnmoved == tracked'.hot <= rel.head.hot /\ tracked'.bk = rel.head.bk

Guard(p) ==
    /\ promote[p].pc = "guard" /\ rel.up
    /\ ResolveMain
    /\ Unraced(p) /\ MainUnmoved
    /\ promote' = [promote EXCEPT ![p] = [@ EXCEPT !.pc = "finalize", !.pushed = Nothing]]
    /\ UNCHANGED <<mainVars, rel, pr, freeze, lock, ship, branch, ghostVars, tries>>

\* _finalize_release_state: a commit on the release branch, without its lock.
Finalizes(p) ==
    /\ promote[p].pc = "finalize" /\ rel.up
    /\ rel' = [rel EXCEPT !.fin = TRUE]
    /\ Goes(p, "push2")
    /\ UNCHANGED <<mainVars, tracked, pr, freeze, lock, ship, branch, ghostVars, boundVars>>

\* The branch is pushed again; a promote that does not babysit ends here.
PushesAgain(p) ==
    /\ promote[p].pc = "push2" /\ rel.up /\ rel.pushed
    /\ rel' = [rel EXCEPT !.origin = rel.head]
    /\ freeze' = [freeze EXCEPT ![promote[p].v] = [@ EXCEPT !.pushed = TRUE, !.head = rel.head]]
    /\ promote' = [promote EXCEPT ![p] = IF @.babysit THEN [@ EXCEPT !.pc = "merge"] ELSE NotPromoting]
    /\ gated' = [gated EXCEPT !.pushed = (Content(rel.head) = gated.content)]
    /\ UNCHANGED <<mainVars, tracked, pr, lock, ship, branch, told, accepted, left, boundVars>>

\* gh pr merge --squash, then the cleanup.
Merges(p) ==
    /\ promote[p].pc = "merge"
    /\ Mergeable /\ Squash
    /\ promote' = [promote EXCEPT ![p] = [@ EXCEPT !.pc = "adopt", !.seen = 0]]
    /\ UNCHANGED <<tracked, here, rel, freeze, lock, ship, branch, ghostVars, boundVars>>

\* A step fails, whichever: the freeze is lifted, with the head it recorded.
PromoteFails(p) ==
    /\ promote[p].pc \in {"start", "frozen", "gated", "pushed", "watch", "guard", "finalize",
                          "push2", "merge"}
    /\ freeze' = [freeze EXCEPT ![promote[p].v] = Unfrozen]
    /\ promote' = [promote EXCEPT ![p] = NotPromoting]
    /\ UNCHANGED <<mainVars, tracked, rel, pr, lock, ship, branch, ghostVars, boundVars>>

\* A death lifts nothing.
PromoterDies(p) ==
    /\ promote[p].pc # "idle" /\ faults < MaxFaults
    /\ promote[p].pc = "pushed" /\ pr.st = "merged" => "stale_push" \in Liberties
    /\ faults' = faults + 1
    /\ promote' = [promote EXCEPT ![p] = NotPromoting]
    /\ UNCHANGED <<mainVars, tracked, rel, pr, freeze, lock, ship, branch, ghostVars, tries>>

\* A person merges the request: of a promote that ended, failed or died.
HandMerge ==
    /\ "hasty_merge" \notin Liberties => \A p \in Promoter : promote[p].pc = "idle"
    /\ Mergeable /\ Squash
    /\ UNCHANGED <<tracked, here, rel, freeze, lock, ship, promote, branch, ghostVars, boundVars>>

(***************************************************************************)
(* cleanup: by the promote that merged, or --cleanup-only                  *)
(***************************************************************************)
\* The request must be merged, or there is none; that of an older version is.
MayClean(v) ==
    \/ v = rel.v /\ pr.st = "merged"
    \/ v = rel.v /\ pr.st = "none" /\ rel.up /\ "early_cleanup" \in Liberties
    \/ v < rel.v /\ "old_cleanup" \in Liberties

CleanupStarts(p) ==
    /\ promote[p].pc = "idle" /\ rel.v > 0
    /\ (InProgress /\ \E w \in Worker : ship[w].pc # "idle") => "busy_cleanup" \in Liberties
    /\ \E v \in 1..rel.v :
         /\ MayClean(v)
         /\ promote' = [promote EXCEPT ![p] = [NotPromoting EXCEPT !.pc = "adopt", !.v = v]]
    /\ UNCHANGED <<mainVars, tracked, rel, pr, freeze, lock, ship, branch, ghostVars, boundVars>>

\* The main checkout adopts origin/main where that has more, and refuses to when
\* an earlier cleanup left changes in it.
Adopts(p) ==
    /\ promote[p].pc = "adopt"
    /\ tracked' = main
    /\ \/ here.at = main /\ here' = here
       \/ here.at # main /\ here.st # "dirty" /\ here' = [at |-> main, cat |-> main.cat, st |-> "clean"]
    /\ Goes(p, "strand")
    /\ UNCHANGED <<main, rel, pr, freeze, lock, ship, branch, ghostVars, boundVars>>

\* (mutant) The local head is taken for the one that merged.
MergedHeadLocal(v) == rel.head

\* _merged_release_head: as recorded, else the request's head, else origin's.
MergedHead(v) ==
    IF freeze[v].pushed THEN freeze[v].head
    ELSE IF pr.st = "merged" THEN pr.head
    ELSE rel.origin

Known(v) == freeze[v].pushed \/ pr.st = "merged" \/ rel.pushed

\* What the release says it shipped on this version and the head that merged
\* does not carry.
Stranded(v) == IF rel.up THEN Shipped(rel.head.cat, v) \ MergedHead(v).feats ELSE {}

\* They go back into the catalog of the main checkout, as open. Where no head is
\* known the cleanup stops.
Strands(p) ==
    /\ promote[p].pc = "strand"
    /\ rel.up /\ Shipped(rel.head.cat, promote[p].v) # {} => Known(promote[p].v)
    /\ LET S == Stranded(promote[p].v)
       IN  here' = [here EXCEPT !.cat = [f \in Feature |-> IF f \in S THEN Open ELSE @[f]],
                                !.st = IF S = {} THEN @ ELSE "dirty"]
    /\ Goes(p, "sweep")
    /\ UNCHANGED <<main, tracked, rel, pr, freeze, lock, ship, branch, ghostVars, boundVars>>

\* (mutant) The release's own catalog is swept.
SweptByRelease(v) == Shipped(rel.head.cat, v)

\* Every feature that main's catalog says was shipped on this version: promoted,
\* archived, its worktrees and branches removed.
Swept(v) == {f \in Feature : here.cat[f].st \in {"shipped", "promoted"} /\ here.cat[f].v = v}

Sweeps(p) ==
    /\ promote[p].pc = "sweep"
    /\ LET S == Swept(promote[p].v)
       IN  /\ here' = [here EXCEPT !.cat = [f \in Feature |->
                           IF f \in S THEN Entry("promoted", promote[p].v) ELSE @[f]],
                        !.st = IF \E f \in S : here.cat[f].st # "promoted" THEN "dirty" ELSE @]
           /\ branch' = branch \ S
    /\ Goes(p, "remove")
    /\ UNCHANGED <<main, tracked, rel, pr, freeze, lock, ship, ghostVars, boundVars>>

\* The _release worktree, of whatever version, and this version's branch.
Removes(p) ==
    /\ promote[p].pc = "remove"
    /\ rel' = [rel EXCEPT !.up = FALSE, !.pushed = @ /\ rel.v # promote[p].v]
    /\ pr' = IF pr.st = "open" /\ rel.v = promote[p].v THEN [pr EXCEPT !.st = "closed"] ELSE pr
    /\ Goes(p, "commit")
    /\ UNCHANGED <<mainVars, tracked, freeze, lock, ship, branch, ghostVars, boundVars>>

\* What the sweep changed is committed to main and pushed.
CommitsCleanup(p) ==
    /\ promote[p].pc = "commit"
    /\ here.st # "dirty" \/ here.at = main
    /\ IF here.st = "dirty"
       THEN /\ main' = [main EXCEPT !.cat = here.cat, !.bk = @ + 1]
            /\ here' = [at |-> main', cat |-> here.cat, st |-> "clean"]
            /\ tracked' = main'
       ELSE UNCHANGED <<mainVars, tracked>>
    /\ Goes(p, "unfreeze")
    /\ UNCHANGED <<rel, pr, freeze, lock, ship, branch, ghostVars, boundVars>>

Unfreezes(p) ==
    /\ promote[p].pc = "unfreeze"
    /\ freeze' = [freeze EXCEPT ![promote[p].v] = Unfrozen]
    /\ promote' = [promote EXCEPT ![p] = NotPromoting]
    /\ UNCHANGED <<mainVars, tracked, rel, pr, lock, ship, branch, ghostVars, boundVars>>

\* A refusal to adopt, no head to be found, or a push that main overtook: then the
\* commit stays in the main checkout. Inside a promote the failure lifts the freeze.
CleanupFails(p) ==
    /\ \/ promote[p].pc = "adopt" /\ here' = here
       \/ promote[p].pc = "strand" /\ ~freeze[promote[p].v].pushed /\ here' = here
       \/ promote[p].pc = "commit" /\ here.st = "dirty" /\ here.at # main
          /\ here' = [here EXCEPT !.st = "ahead"]
    /\ freeze' = IF promote[p].babysit THEN [freeze EXCEPT ![promote[p].v] = Unfrozen] ELSE freeze
    /\ promote' = [promote EXCEPT ![p] = NotPromoting]
    /\ UNCHANGED <<main, tracked, rel, pr, lock, ship, branch, ghostVars, boundVars>>

ShipStep(w) ==
    FeatureGate(w) \/ ShipGivesUp(w) \/ ShipMerges(w) \/ ShipLands(w) \/ ShipRollsBack(w)

PromoteStep(p) ==
    \/ Freezes(p) \/ Gate2(p) \/ Pushes(p) \/ OpensPR(p) \/ ChecksPass(p) \/ Guard(p)
    \/ Finalizes(p) \/ PushesAgain(p) \/ Merges(p) \/ PromoteFails(p)

CleanupStep(p) ==
    \/ Adopts(p) \/ Strands(p) \/ Sweeps(p) \/ Removes(p)
    \/ CommitsCleanup(p) \/ Unfreezes(p) \/ CleanupFails(p)

Next ==
    \/ Hotfix \/ NewRelease \/ HandMerge
    \/ \E f \in Feature : Refine(f)
    \/ \E w \in Worker : ShipStarts(w) \/ ShipStep(w) \/ ShipDies(w)
    \/ \E p \in Promoter : \/ PromoteStarts(p) \/ CleanupStarts(p)
                           \/ PromoteStep(p) \/ CleanupStep(p) \/ PromoterDies(p)

Spec == Init /\ [][Next]_vars

(***************************************************************************)
(* Properties                                                              *)
(***************************************************************************)
TypeOK ==
    /\ main \in Commit /\ tracked \in Commit
    /\ here.at \in Commit /\ here.st \in {"clean", "dirty", "ahead"}
    /\ rel.v \in 0..MaxVersion /\ rel.head \in Commit /\ rel.origin \in Commit
    /\ pr.st \in {"none", "open", "merged", "closed"} /\ pr.head \in Commit
    /\ lock \in Worker \cup {NoOne}
    /\ \A w \in Worker : (ship[w].pc = "gate") = (lock = w)
    /\ branch \subseteq Feature /\ told \subseteq Feature

\* Where a feature that was shipped is: on main, or on a release that is there
\* and says so, or open in a catalog that people look into.
Aboard(f) == rel.up /\ f \in rel.head.feats /\ rel.head.cat[f].st = "shipped"
IsOpen(f) == \/ Open \in {here.cat[f], main.cat[f]}
             \/ rel.up /\ rel.head.cat[f] = Open
Place(f) ==
    IF f \in main.feats THEN "arrived"
    ELSE IF Aboard(f) THEN "aboard"
    ELSE IF f \notin told \/ IsOpen(f) THEN "out"
    ELSE "lost"

\* A branch and its worktrees are deleted only when the code is on main.
CodeKept == \A f \in Feature \ branch : f \in main.feats

\* What the release head is to carry while no ship is at work on it.
Standing == IF left = {} THEN {accepted} ELSE left

\* Whenever nobody holds the lock, the release head carries what Gate 1 passed last
\* on the combined tree, or what a promote synced before its own gates: a ship that
\* fails leaves neither its feature nor main's commits behind. Not so of a ship that
\* is killed after its merge and before the result of Gate 1: the untested merge
\* stands, and ships that fail go back to exactly that, until Gate 1 passes again.
HeadIsVerified == lock = NoOne /\ rel.v > 0 => Content(rel.head) \in Standing

\* "If Gate 1 fails or any error occurs": a ship that ends without success leaves
\* the content of the release as it found it.
ShipIsAtomic ==
    [][\A w \in Feature :
          ship[w].pc = "gate" /\ ship'[w].pc = "idle" /\ w \notin told'
             => Content(rel'.head) = Content(ship[w].pre)]_vars

\* What a pull request brought to main is a tree that Gate 2 passed, whoever
\* merged it and whatever was shipped between two promotes.
MainIsGated == pr.st = "merged" => pr.gated

\* What is marked shipped on a version is aboard that version's train. Not so with
\* late_ship; in no run.
OnItsTrain ==
    \A f \in Feature : rel.up /\ rel.head.cat[f].st = "shipped" /\ rel.head.cat[f] # main.cat[f]
                       => rel.head.cat[f].v = rel.v

\* A babysitting promote merges no head that lacks a hotfix which was on main when
\* the checks turned green, unless main could not be fetched (said of behaviours
\* without a fault, so without a death as well).
BabysitIsFresh ==
    [][\A p \in Promoter : promote[p].pc = "merge" /\ promote'[p].pc = "adopt" /\ faults = 0
          => rel.origin.hot >= promote[p].seen]_vars

\* Features are delivered as Delivery says. In particular none whose ship was
\* answered with success is lost: when a release ends, what it carried is on main or
\* is open again in the catalog the next one is cut from.
Deliveries == INSTANCE Delivery WITH place <- [f \in Feature |-> Place(f)]
ImplementsDelivery == Deliveries!Spec
================================================================================
