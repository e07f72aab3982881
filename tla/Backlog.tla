------------------------------- MODULE Backlog --------------------------------
(***************************************************************************)
(* The backlog of one release and the sessions that work on it. An idea is *)
(* refined into a feature; a feature is claimed into a worktree and branch *)
(* of its own, worked on, shipped, and its worktree is torn down. What is  *)
(* known of a feature is spread over the catalog (in the _release          *)
(* worktree, written under file_lock(_release)), the ledger claims.json    *)
(* (under its own flock), the worktree and the branch. A command takes     *)
(* these one after the other, and looks at the catalog before it takes a   *)
(* lock. How a ship merges and gates is the subject of ReleaseTrain.       *)
(***************************************************************************)
EXTENDS Naturals, FiniteSets, FiniteSetsExt

CONSTANTS
    Session,
    Nobody,
    Idea,
    MaxWip,      \* PSRW_MAX_WIP; 0 disables the limit
    Liberties,   \* what happens beside the intended use, see LibertyNames
    MaxFeatures, \* bound: features minted
    MaxCommits,  \* bound: commits on a branch
    MaxFaults    \* bound: commands that fail or are killed, folders deleted by hand

LibertyNames ==
    {"slow_claim",    \* a claim waits for the ledger while its feature ships
     "unclaim_race",  \* an unclaim runs beside another command on its feature
     "reopen_race",   \* a reopen runs beside another command on its feature
     "resume_race",   \* a resume runs beside another command on its feature
     "two_refines",   \* two refines of one idea run
     "busy_teardown"} \* somebody works in a worktree that is torn down

ASSUME BacklogAssumption ==
    /\ Nobody \notin Session /\ Nobody \notin Idea
    /\ Liberties \subseteq LibertyNames
    /\ {MaxWip, MaxFeatures, MaxCommits, MaxFaults} \subseteq Nat

Feature == 1..MaxFeatures
NoFeature == 0

VARIABLES
    ideas,    \* the ideas in the idea catalog
    promoted, \* [Idea -> the feature it is promoted to, or NoFeature]
    catalog,  \* [Feature -> [st, from, sha]]; sha is what shipped
    ledger,   \* [Feature -> the owner of its row in claims.json, or Nobody]
    worktree, \* [Feature -> WorktreeStatus]
    branch,   \* [Feature -> its commits, or NoBranch]
    job,      \* [Session -> the command it runs]
    holders,  \* [Feature -> sessions that have been told it is theirs]
    lost,     \* features whose work a command has thrown away unasked
    done,     \* [Feature -> the commits ever made for it]
    broken,   \* features with a command that was killed or could not commit
    faults

vars == <<ideas, promoted, catalog, ledger, worktree, branch, job, holders, lost, done, broken,
          faults>>
ghostVars == <<lost, done, broken>>

Status == {"none", "open", "claimed", "shipped"}
\* gone: the folder is deleted and git still lists it.
WorktreeStatus == {"none", "clean", "dirty", "gone"}
NoBranch == MaxCommits + 1
Commits == 0..MaxCommits

Job(pc, f) == [pc |-> pc, f |-> f, idea |-> Nobody, made |-> {}]
Idle == Job("idle", NoFeature)
AtWork(f) == {s \in Session : job[s].f = f}
Runs(s, pc) == job' = [job EXCEPT ![s].pc = pc]
Ends(s) == job' = [job EXCEPT ![s] = Idle]
Faults == faults < MaxFaults /\ faults' = faults + 1

Minted == {f \in Feature : catalog[f].st # "none"}
Sets(f, st) == catalog' = [catalog EXCEPT ![f].st = st]
SetsRow(f, who) == ledger' = [ledger EXCEPT ![f] = who]
HasFolder(f) == worktree[f] \in {"clean", "dirty"}

Init ==
    /\ ideas = {}
    /\ promoted = [i \in Idea |-> NoFeature]
    /\ catalog = [f \in Feature |-> [st |-> "none", from |-> Nobody, sha |-> NoBranch]]
    /\ ledger = [f \in Feature |-> Nobody]
    /\ worktree = [f \in Feature |-> "none"]
    /\ branch = [f \in Feature |-> NoBranch]
    /\ job = [s \in Session |-> Idle]
    /\ holders = [f \in Feature |-> {}]
    /\ lost = {}
    /\ done = [f \in Feature |-> 0]
    /\ broken = {}
    /\ faults = 0

(***************************************************************************)
(* idea and refine                                                         *)
(***************************************************************************)
\* new_idea: entry, folder and commit under one lock.
NewIdea(i) ==
    /\ i \notin ideas
    /\ ideas' = ideas \cup {i}
    /\ UNCHANGED <<promoted, catalog, ledger, worktree, branch, job, holders, ghostVars, faults>>

Refining(i) == \E s \in Session : job[s].pc = "refine" /\ job[s].idea = i

\* The stamp and the spec are looked at before the lock.
RefineReads(s, i) ==
    /\ job[s] = Idle
    /\ i \in ideas /\ promoted[i] = NoFeature
    /\ Refining(i) => "two_refines" \in Liberties
    /\ job' = [job EXCEPT ![s] = [Job("refine", NoFeature) EXCEPT !.idea = i]]
    /\ UNCHANGED <<ideas, promoted, catalog, ledger, worktree, branch, holders, ghostVars, faults>>

\* next_id: one more than the largest.
NextId == Max(Minted \cup {0}) + 1

\* Minted, carried forward, stamped and committed under the lock.
RefineMints(s) ==
    /\ job[s].pc = "refine" /\ NextId \in Feature
    /\ catalog' = [catalog EXCEPT ![NextId] = [@ EXCEPT !.st = "open", !.from = job[s].idea]]
    /\ promoted' = [promoted EXCEPT ![job[s].idea] = NextId]
    /\ Ends(s)
    /\ UNCHANGED <<ideas, ledger, worktree, branch, holders, ghostVars, faults>>

\* (mutant) A refine that fails leaves the stamp.
RefineUndoneButStamp(s) == promoted' = [promoted EXCEPT ![job[s].idea] = NextId]

\* What was minted is dropped, and the idea is unstamped.
RefineUndone(s) == promoted' = [promoted EXCEPT ![job[s].idea] = NoFeature]

RefineFails(s) ==
    /\ job[s].pc = "refine" /\ NextId \in Feature /\ Faults
    /\ RefineUndone(s)
    /\ Ends(s)
    /\ UNCHANGED <<ideas, catalog, ledger, worktree, branch, holders, ghostVars>>

(***************************************************************************)
(* claim                                                                   *)
(***************************************************************************)
\* What a command on a feature runs into is up to the liberties.
Crowded(f) ==
    \E s \in AtWork(f) :
        \/ job[s].pc \in {"unclaim", "removed", "dropped"} /\ "unclaim_race" \notin Liberties
        \/ job[s].pc \in {"reopen", "reopened"} /\ "reopen_race" \notin Liberties
        \/ job[s].pc \in {"checked", "cleaned"} /\ "busy_teardown" \notin Liberties

ClaimReads(s, f) ==
    /\ job[s] = Idle
    /\ catalog[f].st \in {"open", "claimed"}
    /\ ~Crowded(f)
    /\ job' = [job EXCEPT ![s] = Job("claim", f)]
    /\ UNCHANGED <<ideas, promoted, catalog, ledger, worktree, branch, holders, ghostVars, faults>>

\* (mutant) Only what the catalog says is in flight.
ActiveInCatalog == {f \in Feature : catalog[f].st = "claimed"}

\* _active_features, read under the flock of the ledger.
Active == {f \in Feature : \/ catalog[f].st = "claimed"
                           \/ catalog[f].st = "open" /\ ledger[f] # Nobody}

\* (mutant) A row of somebody else's is overwritten.
TakeableByAll(f) == MaxWip = 0 \/ Cardinality(Active \ {f}) < MaxWip

Takeable(f) ==
    /\ ledger[f] = Nobody
    /\ MaxWip = 0 \/ Cardinality(Active \ {f}) < MaxWip

\* try_claim, or one of its refusals.
ClaimTakes(s) ==
    LET f == job[s].f
    IN  /\ job[s].pc = "claim"
        /\ catalog[f].st = "shipped" /\ ledger[f] = Nobody => "slow_claim" \in Liberties
        /\ IF Takeable(f) THEN SetsRow(f, s) /\ Runs(s, "taken")
                          ELSE Ends(s) /\ UNCHANGED ledger
        /\ UNCHANGED <<ideas, promoted, catalog, worktree, branch, holders, ghostVars, faults>>

Base(f) == IF catalog[f].sha = NoBranch THEN 0 ELSE catalog[f].sha

\* The folder as it is, a new one on the branch that survives, or both anew.
Cuts(s, next) ==
    LET f == job[s].f
    IN  /\ worktree[f] # "gone"
        /\ worktree' = IF HasFolder(f) THEN worktree ELSE [worktree EXCEPT ![f] = "clean"]
        /\ branch' = IF HasFolder(f) \/ branch[f] # NoBranch THEN branch
                     ELSE [branch EXCEPT ![f] = Base(f)]
        /\ job' = [job EXCEPT ![s].pc = next,
                              ![s].made = (IF HasFolder(f) THEN {} ELSE {"worktree"})
                                     \cup (IF branch[f] = NoBranch THEN {"branch"} ELSE {})]
        /\ UNCHANGED <<ideas, promoted, catalog, ledger, holders, ghostVars, faults>>

ClaimCuts(s) == job[s].pc = "taken" /\ Cuts(s, "cut")

\* Marked and committed under the lock.
ClaimMarks(s) ==
    LET f == job[s].f
    IN  /\ job[s].pc = "cut"
        /\ Sets(f, "claimed")
        /\ holders' = [holders EXCEPT ![f] = @ \cup {s}]
        /\ Ends(s)
        /\ UNCHANGED <<ideas, promoted, ledger, worktree, branch, ghostVars, faults>>

\* (mutant) A claim that fails takes down what it has only attached.
UndoneAnyway(s) == {"worktree", "branch"}

\* The rollback takes down what this claim made.
Undone(s) == job[s].made

RollsBack(s) ==
    LET f == job[s].f
    IN  /\ worktree' = IF "worktree" \in Undone(s) THEN [worktree EXCEPT ![f] = "none"] ELSE worktree
        /\ lost' = IF "worktree" \in Undone(s) /\ worktree[f] = "dirty" THEN lost \cup {f} ELSE lost
        /\ branch' = IF "branch" \in Undone(s) THEN [branch EXCEPT ![f] = NoBranch] ELSE branch
        /\ SetsRow(f, Nobody)
        /\ Ends(s)
        /\ UNCHANGED <<ideas, promoted, holders, done>>

\* Any exception after the row is written; git always refuses a folder it lists
\* and that is gone.
ClaimFails(s) ==
    /\ job[s].pc \in {"taken", "cut", "reopen", "reopened"}
    /\ \/ job[s].pc \in {"taken", "reopen"} /\ worktree[job[s].f] = "gone" /\ UNCHANGED faults
       \/ Faults
    /\ RollsBack(s)
    /\ UNCHANGED <<catalog, broken>>

\* The catalog says claimed and git cannot commit it: the rollback leaves it so.
ClaimCommitFails(s) ==
    /\ job[s].pc = "cut" /\ Faults
    /\ Sets(job[s].f, "claimed")
    /\ broken' = broken \cup {job[s].f}
    /\ RollsBack(s)

\* --reopen: a shipped feature, whoever has it; the catalog stays.
ReopenTakes(s, f) ==
    /\ job[s] = Idle
    /\ catalog[f].st = "shipped"
    /\ ~Crowded(f)
    /\ AtWork(f) # {} => "reopen_race" \in Liberties
    /\ SetsRow(f, s)
    /\ job' = [job EXCEPT ![s] = Job("reopen", f)]
    /\ UNCHANGED <<ideas, promoted, catalog, worktree, branch, holders, ghostVars, faults>>

ReopenCuts(s) == job[s].pc = "reopen" /\ Cuts(s, "reopened")

ReopenEnds(s) ==
    /\ job[s].pc = "reopened"
    /\ holders' = [holders EXCEPT ![job[s].f] = @ \cup {s}]
    /\ Ends(s)
    /\ UNCHANGED <<ideas, promoted, catalog, ledger, worktree, branch, ghostVars, faults>>

(***************************************************************************)
(* resume and unclaim                                                      *)
(***************************************************************************)
\* (mutant) A branch that survives is cut anew.
ResumedBranchAnew(f) == 0

ResumedBranch(f) == IF branch[f] = NoBranch THEN 0 ELSE branch[f]

\* Folder, marker and row become this session's; whoever held it is out.
Resume(s, f) ==
    /\ job[s] = Idle
    /\ catalog[f].st = "claimed"
    /\ AtWork(f) # {} => "resume_race" \in Liberties
    /\ worktree' = [worktree EXCEPT ![f] = IF HasFolder(f) THEN @ ELSE "clean"]
    /\ branch' = IF HasFolder(f) THEN branch ELSE [branch EXCEPT ![f] = ResumedBranch(f)]
    /\ SetsRow(f, s)
    /\ holders' = [holders EXCEPT ![f] = {s}]
    /\ UNCHANGED <<ideas, promoted, catalog, job, ghostVars, faults>>

\* (mutant) Whatever has a row can be unclaimed.
MayUnclaimAny(f) == ledger[f] # Nobody

MayUnclaim(f) == catalog[f].st = "claimed"

UnclaimReads(s, f) ==
    /\ job[s] = Idle
    /\ MayUnclaim(f)
    /\ AtWork(f) # {} => "unclaim_race" \in Liberties
    /\ job' = [job EXCEPT ![s] = Job("unclaim", f)]
    /\ UNCHANGED <<ideas, promoted, catalog, ledger, worktree, branch, holders, ghostVars, faults>>

MayRemove(f, force) == worktree[f] = "dirty" => force

\* The folder goes, or is pruned where it is gone; the branch stays. Work that
\* is not committed stops it, unless it is told to throw it away.
UnclaimRemoves(s, force) ==
    LET f == job[s].f
    IN  /\ job[s].pc = "unclaim"
        /\ IF MayRemove(f, force)
           THEN /\ worktree' = [worktree EXCEPT ![f] = "none"]
                /\ lost' = IF worktree[f] = "dirty" /\ ~force THEN lost \cup {f} ELSE lost
                /\ holders' = [holders EXCEPT ![f] = {}]
                /\ Runs(s, "removed")
           ELSE Ends(s) /\ UNCHANGED <<worktree, lost, holders>>
        /\ UNCHANGED <<ideas, promoted, catalog, ledger, branch, done, broken, faults>>

\* (mutant) The row stays in the ledger.
UnclaimDropsNot(s) ==
    /\ job[s].pc = "removed"
    /\ Runs(s, "dropped")
    /\ UNCHANGED <<ideas, promoted, catalog, ledger, worktree, branch, holders, ghostVars, faults>>

UnclaimDrops(s) ==
    /\ job[s].pc = "removed"
    /\ SetsRow(job[s].f, Nobody)
    /\ Runs(s, "dropped")
    /\ UNCHANGED <<ideas, promoted, catalog, worktree, branch, holders, ghostVars, faults>>

\* Open, whatever the entry says by now.
UnclaimWrites(s) ==
    /\ job[s].pc = "dropped"
    /\ Sets(job[s].f, "open")
    /\ Ends(s)
    /\ UNCHANGED <<ideas, promoted, ledger, worktree, branch, holders, ghostVars, faults>>

(***************************************************************************)
(* ship, teardown and gc                                                   *)
(***************************************************************************)
\* From a clean folder with a marker; the entry is marked whatever it says, with
\* the commit that was merged. The teardown, where asked for, comes next.
Ship(s, f, teardown) ==
    /\ job[s] = Idle
    /\ worktree[f] = "clean" /\ s \in holders[f] /\ branch[f] # NoBranch
    /\ ~Crowded(f)
    /\ catalog' = [catalog EXCEPT ![f].st = "shipped", ![f].sha = branch[f]]
    /\ job' = [job EXCEPT ![s] = IF teardown THEN Job("tear", f) ELSE Idle]
    /\ UNCHANGED <<ideas, promoted, ledger, worktree, branch, holders, ghostVars, faults>>

\* removable: it has shipped, nothing was committed or changed since. Ignored
\* files, locks, operations under way and live processes only add refusals.
Removable(f) ==
    /\ catalog[f].st = "shipped"
    /\ worktree[f] = "clean"
    /\ branch[f] <= catalog[f].sha

\* teardown_worktree, and the last check of gc --apply. A refusal ends it.
Checks(s, f) ==
    \/ Removable(f) /\ job' = [job EXCEPT ![s] = Job("checked", f)]
    \/ job[s] # Idle /\ Ends(s)

TearChecks(s) ==
    /\ job[s].pc = "tear"
    /\ Checks(s, job[s].f)
    /\ UNCHANGED <<ideas, promoted, catalog, ledger, worktree, branch, holders, ghostVars, faults>>

GcChecks(s, f) ==
    /\ job[s] = Idle
    /\ AtWork(f) # {} => "busy_teardown" \in Liberties
    /\ Checks(s, f)
    /\ UNCHANGED <<ideas, promoted, catalog, ledger, worktree, branch, holders, ghostVars, faults>>

\* worktree remove --force.
TearRemoves(s) ==
    LET f == job[s].f
    IN  /\ job[s].pc = "checked"
        /\ worktree' = [worktree EXCEPT ![f] = "none"]
        /\ lost' = IF worktree[f] = "dirty" THEN lost \cup {f} ELSE lost
        /\ holders' = [holders EXCEPT ![f] = {}]
        /\ Runs(s, "cleaned")
        /\ UNCHANGED <<ideas, promoted, catalog, ledger, branch, done, broken, faults>>

TearDrops(s) ==
    /\ job[s].pc = "cleaned"
    /\ SetsRow(job[s].f, Nobody)
    /\ Ends(s)
    /\ UNCHANGED <<ideas, promoted, catalog, worktree, branch, holders, ghostVars, faults>>

(***************************************************************************)
(* Beside the commands                                                     *)
(***************************************************************************)
\* The holder edits and commits.
Works(s, f) ==
    /\ s \in holders[f] /\ HasFolder(f)
    /\ \A r \in AtWork(f) : /\ job[r].pc = "checked" => "busy_teardown" \in Liberties
                            /\ job[r].pc = "reopened" => "reopen_race" \in Liberties
    /\ \/ /\ worktree[f] = "clean" /\ branch[f] < MaxCommits
          /\ worktree' = [worktree EXCEPT ![f] = "dirty"]
          /\ UNCHANGED <<branch, done>>
       \/ /\ worktree[f] = "dirty" /\ branch[f] < MaxCommits
          /\ worktree' = [worktree EXCEPT ![f] = "clean"]
          /\ branch' = [branch EXCEPT ![f] = @ + 1]
          /\ done' = [done EXCEPT ![f] = branch'[f]]
    /\ UNCHANGED <<ideas, promoted, catalog, ledger, job, holders, lost, broken, faults>>

DeletedByHand(f) ==
    /\ HasFolder(f) /\ AtWork(f) = {} /\ Faults
    /\ worktree' = [worktree EXCEPT ![f] = "gone"]
    /\ UNCHANGED <<ideas, promoted, catalog, ledger, branch, job, holders, ghostVars>>

\* Killed between two steps: no rollback.
Dies(s) ==
    /\ job[s] # Idle /\ Faults
    /\ Ends(s)
    /\ broken' = broken \cup ({job[s].f} \ {NoFeature})
    /\ UNCHANGED <<ideas, promoted, catalog, ledger, worktree, branch, holders, lost, done>>

Next ==
    \/ \E i \in Idea : NewIdea(i)
    \/ \E s \in Session :
         \/ \E i \in Idea : RefineReads(s, i)
         \/ RefineMints(s) \/ RefineFails(s)
         \/ ClaimTakes(s) \/ ClaimCuts(s) \/ ClaimMarks(s)
         \/ ClaimFails(s) \/ ClaimCommitFails(s) \/ ReopenCuts(s) \/ ReopenEnds(s)
         \/ \E force \in BOOLEAN : UnclaimRemoves(s, force)
         \/ UnclaimDrops(s) \/ UnclaimWrites(s)
         \/ TearChecks(s) \/ TearRemoves(s) \/ TearDrops(s)
         \/ Dies(s)
         \/ \E f \in Feature :
              \/ ClaimReads(s, f) \/ ReopenTakes(s, f) \/ Resume(s, f) \/ UnclaimReads(s, f)
              \/ GcChecks(s, f) \/ Works(s, f)
              \/ \E teardown \in BOOLEAN : Ship(s, f, teardown)
    \/ \E f \in Feature : DeletedByHand(f)

Spec == Init /\ [][Next]_vars

(***************************************************************************)
(* Properties                                                              *)
(***************************************************************************)
TypeOK ==
    /\ ideas \subseteq Idea /\ promoted \in [Idea -> Feature \cup {NoFeature}]
    /\ catalog \in [Feature -> [st : Status, from : Idea \cup {Nobody}, sha : Commits \cup {NoBranch}]]
    /\ ledger \in [Feature -> Session \cup {Nobody}]
    /\ worktree \in [Feature -> WorktreeStatus]
    /\ branch \in [Feature -> Commits \cup {NoBranch}]
    /\ \A s \in Session : job[s].f \in Feature \cup {NoFeature} /\ job[s].made \subseteq {"worktree", "branch"}
    /\ \A f \in Feature : HasFolder(f) => branch[f] # NoBranch
    /\ \A f \in Feature : (catalog[f].st = "shipped") = (catalog[f].sha # NoBranch)

\* However claims interleave, no more features are in work than the limit says.
WipKept == MaxWip > 0 => Cardinality({f \in Feature : catalog[f].st = "claimed"}) <= MaxWip

\* No two sessions have been told that a feature is theirs to work on.
OneHolder == \A f \in Feature : catalog[f].st # "shipped" => Cardinality(holders[f]) <= 1

\* Nothing that a session has not committed is thrown away by a rollback, a
\* teardown or an unclaim that was not told to.
NothingLost == lost = {}

\* What was committed for a feature stays on its branch, through unclaims, failed
\* claims, resumes of a deleted folder, and reopens.
CommitsKept == \A f \in Feature : done[f] > 0 => branch[f] = done[f]

\* Whatever came in between, a feature that no command is at work on is either in
\* both the catalog and the ledger as claimed, held by the owner in the ledger and
\* with a folder that only a hand may have deleted, or in neither. An idea becomes
\* one feature, and says which.
NoDrift ==
    /\ \A f \in Feature : AtWork(f) = {} /\ f \notin broken =>
          IF catalog[f].st = "claimed"
          THEN ledger[f] # Nobody /\ holders[f] = {ledger[f]} /\ worktree[f] # "none"
          ELSE catalog[f].st = "open" => ledger[f] = Nobody
    /\ \A i \in Idea : {f \in Feature : catalog[f].from = i} = {promoted[i]} \ {NoFeature}

\* A claim that fails leaves no half-state: what the catalog calls claimed is in
\* the ledger, or an unclaim is at work on it.
FailedClaimLeavesNothing ==
    \A f \in Feature : catalog[f].st = "claimed" => ledger[f] # Nobody \/ AtWork(f) # {}
================================================================================
