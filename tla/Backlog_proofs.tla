---------------------------- MODULE Backlog_proofs ----------------------------
(***************************************************************************)
(* What Backlog keeps, proved for any sessions, ideas, features, commits,  *)
(* limit and faults, where nothing is done beside the intended use.        *)
(***************************************************************************)
EXTENDS Backlog, FiniteSetTheorems, TLAPS

Calm == Liberties = {}

(***************************************************************************)
(* The parts of the inductive invariant                                    *)
(***************************************************************************)
Stages == {"idle", "refine", "claim", "taken", "cut", "reopen", "reopened",
           "unclaim", "removed", "dropped", "tear", "checked", "cleaned"}
Jobs == [pc : Stages, f : Feature \cup {NoFeature}, idea : Idea \cup {Nobody},
         made : SUBSET {"worktree", "branch"}]
Entries == [st : Status, from : Idea \cup {Nobody}, sha : Commits \cup {NoBranch}]

Shape ==
    /\ ideas \subseteq Idea /\ promoted \in [Idea -> Feature \cup {NoFeature}]
    /\ catalog \in [Feature -> Entries]
    /\ ledger \in [Feature -> Session \cup {Nobody}]
    /\ worktree \in [Feature -> WorktreeStatus]
    /\ branch \in [Feature -> Commits \cup {NoBranch}]
    /\ job \in [Session -> Jobs]
    /\ holders \in [Feature -> SUBSET Session]
    /\ done \in [Feature -> Commits]
    /\ broken \subseteq Feature /\ faults \in Nat

\* What a command has in hand: nothing, an idea or a minted feature; and what it has
\* made, which a rollback takes down together.
JobOK(j) ==
    /\ j.pc = "idle" => j = Idle
    /\ j.pc = "refine" => j.f = NoFeature /\ j.idea \in ideas
    /\ j.pc \notin {"idle", "refine"} => j.f \in Feature /\ catalog[j.f].st # "none"
    /\ j.made # {} => j.pc \in {"cut", "reopened"}
    /\ "branch" \in j.made => "worktree" \in j.made
JobsOK == \A s \in Session : JobOK(job[s])

\* An unclaim and a reopen have their feature for themselves.
Undisturbed ==
    \A s, r \in Session :
        job[s].pc \in {"unclaim", "removed", "dropped", "reopen", "reopened"} /\ job[r].f = job[s].f
            => r = s

\* What each step of a command may rely on, of its feature f: the one that has taken it
\* has the row, and nobody works on it; what has shipped stays so.
Relies(s, pc, made, f) ==
    /\ pc \in {"taken", "cut"} =>
           /\ ledger[f] = s /\ holders[f] = {}
           /\ catalog[f].st \in {"open", "claimed"} /\ (f \notin broken => catalog[f].st = "open")
    /\ pc = "cut" => worktree[f] # "none"
    /\ pc \in {"unclaim", "removed", "dropped"} => catalog[f].st = "claimed"
    /\ pc \in {"removed", "dropped"} => holders[f] = {}
    /\ pc = "dropped" => ledger[f] = Nobody
    /\ pc \in {"reopen", "reopened", "tear", "checked", "cleaned"} => catalog[f].st = "shipped"
    /\ pc = "checked" \/ "worktree" \in made => worktree[f] # "dirty"
    /\ "branch" \in made => done[f] = 0
Reliance == \A s \in Session : Relies(s, job[s].pc, job[s].made, job[s].f)

\* Until it ships, only the owner of the row can have been told to work on a feature;
\* of what is not minted nobody knows.
FeatureOK(f) ==
    /\ catalog[f].st # "shipped" => \A h \in holders[f] : ledger[f] = h
    /\ catalog[f].st = "none" => ledger[f] = Nobody /\ catalog[f].from = Nobody
    /\ HasFolder(f) => branch[f] # NoBranch
    /\ (catalog[f].st = "shipped") = (catalog[f].sha # NoBranch)
    /\ done[f] > 0 => branch[f] = done[f]
FeaturesOK == \A f \in Feature : FeatureOK(f)

\* A feature is settled in catalog, ledger and folder, unless a claim or an unclaim is
\* half way with it or has broken it.
Settled(f) ==
    IF catalog[f].st = "claimed"
    THEN ledger[f] # Nobody /\ holders[f] = {ledger[f]} /\ worktree[f] # "none"
    ELSE catalog[f].st = "open" => ledger[f] = Nobody
HalfWay(f) == \E s \in Session : job[s].f = f /\ job[s].pc \in {"taken", "cut", "removed", "dropped"}
SettledInv == \A f \in Feature : f \in broken \/ HalfWay(f) \/ Settled(f)

\* Features are numbered without a gap, and an idea has the one it says.
Numbered == \E n \in 0..MaxFeatures : Minted = 1..n
OneFeature == \A i \in Idea : {f \in Feature : catalog[f].from = i} = {promoted[i]} \ {NoFeature}
RefineInv ==
    \A s \in Session : job[s].pc = "refine" =>
        /\ promoted[job[s].idea] = NoFeature
        /\ \A r \in Session : job[r].pc = "refine" /\ job[r].idea = job[s].idea => r = s

\* What the limit counts never exceeds it.
WipInv == MaxWip > 0 => Cardinality(Active) <= MaxWip

IInv ==
    /\ Shape /\ JobsOK /\ Undisturbed /\ Reliance /\ FeaturesOK /\ SettledInv
    /\ Numbered /\ OneFeature /\ RefineInv /\ WipInv /\ NothingLost

(***************************************************************************)
(* Types                                                                   *)
(***************************************************************************)
LEMMA Bounds ==
    /\ MaxWip \in Nat /\ MaxFeatures \in Nat /\ MaxCommits \in Nat /\ MaxFaults \in Nat
    /\ Nobody \notin Session /\ Nobody \notin Idea
    /\ NoFeature \notin Feature /\ NoBranch \notin Commits /\ NoBranch \in Nat
BY BacklogAssumption DEF Feature, NoFeature, NoBranch, Commits

LEMMA SomeJobs ==
    /\ Idle \in Jobs /\ Idle.pc = "idle" /\ Idle.f = NoFeature /\ Idle.made = {}
    /\ \A f \in Feature, pc \in Stages :
         /\ Job(pc, f) \in Jobs /\ Job(pc, f).pc = pc /\ Job(pc, f).f = f /\ Job(pc, f).made = {}
BY DEF Idle, Job, Jobs, Stages

LEMMA ShapeInit == Init => Shape
<1> SUFFICES ASSUME Init PROVE Shape
  OBVIOUS
<1>1. catalog \in [Feature -> Entries]
  BY DEF Init, Entries, Status
<1>2. promoted \in [Idea -> Feature \cup {NoFeature}] /\ ledger \in [Feature -> Session \cup {Nobody}]
      /\ worktree \in [Feature -> WorktreeStatus] /\ branch \in [Feature -> Commits \cup {NoBranch}]
  BY DEF Init, WorktreeStatus
<1>3. job \in [Session -> Jobs] /\ holders \in [Feature -> SUBSET Session] /\ done \in [Feature -> Commits]
  BY SomeJobs, Bounds DEF Init, Commits
<1> QED
  BY <1>1, <1>2, <1>3 DEF Init, Shape

LEMMA ShapeIdeas ==
    ASSUME Shape, NEW s \in Session, NEW i \in Idea,
           NewIdea(i) \/ RefineReads(s, i) \/ RefineMints(s) \/ RefineFails(s)
    PROVE  Shape'
<1> USE DEF Shape, ghostVars
<1>1. CASE NewIdea(i)
  BY <1>1 DEF NewIdea
<1>2. CASE RefineReads(s, i)
  <2>1. [Job("refine", NoFeature) EXCEPT !.idea = i] \in Jobs
    BY DEF Job, Jobs, Stages
  <2>2. job' \in [Session -> Jobs]
    BY <1>2, <2>1 DEF RefineReads
  <2> QED
    BY <1>2, <2>2 DEF RefineReads
<1>3. CASE RefineMints(s)
  <2>1. job' \in [Session -> Jobs]
    BY <1>3, SomeJobs DEF RefineMints, Ends
  <2>2. [catalog[NextId] EXCEPT !.st = "open", !.from = job[s].idea] \in Entries
    <3>1. catalog[NextId] \in Entries /\ job[s].idea \in Idea \cup {Nobody}
      BY <1>3 DEF RefineMints, Jobs
    <3> QED
      BY <3>1 DEF Entries, Status
  <2>3. catalog' \in [Feature -> Entries]
    BY <1>3, <2>2 DEF RefineMints
  <2>4. promoted' \in [Idea -> Feature \cup {NoFeature}]
    BY <1>3 DEF RefineMints
  <2> QED
    BY <1>3, <2>1, <2>3, <2>4 DEF RefineMints
<1>4. CASE RefineFails(s)
  <2>1. job' \in [Session -> Jobs]
    BY <1>4, SomeJobs DEF RefineFails, Ends
  <2>2. promoted' \in [Idea -> Feature \cup {NoFeature}]
    BY <1>4 DEF RefineFails, RefineUndone
  <2> QED
    BY <1>4, <2>1, <2>2 DEF RefineFails, Faults
<1> QED
  BY <1>1, <1>2, <1>3, <1>4

\* The feature that a command has in hand.
LEMMA InHand ==
    ASSUME Shape, JobsOK, NEW s \in Session, job[s].pc \notin {"idle", "refine"}
    PROVE  job[s].f \in Feature
BY DEF JobsOK, JobOK

LEMMA NextStage ==
    ASSUME Shape, NEW s \in Session, NEW pc \in Stages, job' = [job EXCEPT ![s].pc = pc]
    PROVE  /\ job' \in [Session -> Jobs]
           /\ job'[s].pc = pc /\ job'[s].f = job[s].f /\ job'[s].idea = job[s].idea
           /\ job'[s].made = job[s].made
           /\ \A r \in Session \ {s} : job'[r] = job[r]
BY DEF Shape, Jobs

LEMMA NewStatus ==
    ASSUME Shape, NEW f \in Feature, NEW st \in Status, Sets(f, st)
    PROVE  /\ catalog' \in [Feature -> Entries]
           /\ catalog'[f].st = st /\ catalog'[f].from = catalog[f].from /\ catalog'[f].sha = catalog[f].sha
           /\ \A g \in Feature \ {f} : catalog'[g] = catalog[g]
BY DEF Shape, Entries, Sets

LEMMA ShapeCuts ==
    ASSUME Shape, JobsOK, NEW s \in Session, ClaimCuts(s) \/ ReopenCuts(s)
    PROVE  Shape'
<1> DEFINE f == job[s].f
<1> USE DEF Shape, ghostVars
<1>1. PICK pc \in Stages : Cuts(s, pc)
  BY DEF ClaimCuts, ReopenCuts, Stages
<1>2. worktree' \in [Feature -> WorktreeStatus]
  BY <1>1 DEF Cuts, WorktreeStatus
<1>3. Base(f) \in Commits
  BY InHand, Bounds DEF Base, ClaimCuts, ReopenCuts, Entries, Commits
<1>4. branch' \in [Feature -> Commits \cup {NoBranch}]
  BY <1>1, <1>3 DEF Cuts
<1>5. job' \in [Session -> Jobs]
  <2>1. PICK made \in SUBSET {"worktree", "branch"} :
          job' = [job EXCEPT ![s].pc = pc, ![s].made = made]
    BY <1>1 DEF Cuts
  <2>2. job[s] \in Jobs
    OBVIOUS
  <2>3. [job[s] EXCEPT !.pc = pc, !.made = made] \in Jobs
    BY <2>2 DEF Jobs
  <2> QED
    BY <2>1, <2>3
<1> QED
  BY <1>1, <1>2, <1>4, <1>5 DEF Cuts

LEMMA ShapeBack ==
    ASSUME Shape, JobsOK, NEW s \in Session, RollsBack(s)
    PROVE  /\ worktree' \in [Feature -> WorktreeStatus] /\ branch' \in [Feature -> Commits \cup {NoBranch}]
           /\ ledger' \in [Feature -> Session \cup {Nobody}] /\ job' \in [Session -> Jobs]
           /\ UNCHANGED <<ideas, promoted, holders, done>>
BY SomeJobs DEF Shape, RollsBack, WorktreeStatus, SetsRow, Ends

LEMMA ShapeClaim ==
    ASSUME Shape, JobsOK, NEW s \in Session, NEW f \in Feature,
           \/ ClaimReads(s, f) \/ ClaimTakes(s) \/ ClaimMarks(s) \/ ClaimFails(s) \/ ClaimCommitFails(s)
           \/ ReopenTakes(s, f) \/ ReopenEnds(s) \/ Resume(s, f)
    PROVE  Shape'
<1> USE DEF Shape, ghostVars
<1>1. CASE ClaimReads(s, f)
  BY <1>1, SomeJobs DEF ClaimReads, Stages
<1>2. CASE ClaimTakes(s)
  <2>1. job' \in [Session -> Jobs]
    <3>1. job' = [job EXCEPT ![s].pc = "taken"] \/ job' = [job EXCEPT ![s] = Idle]
      BY <1>2 DEF ClaimTakes, Runs, Ends
    <3>2. "taken" \in Stages /\ "removed" \in Stages
      BY DEF Stages
    <3> QED
      BY <3>1, <3>2, SomeJobs, NextStage
  <2>2. ledger' \in [Feature -> Session \cup {Nobody}]
    BY <1>2 DEF ClaimTakes, SetsRow
  <2> QED
    BY <1>2, <2>1, <2>2 DEF ClaimTakes
<1>3. CASE ClaimMarks(s)
  <2>1. catalog' \in [Feature -> Entries]
    BY <1>3, InHand, NewStatus DEF ClaimMarks, Status
  <2>2. holders' \in [Feature -> SUBSET Session]
    BY <1>3 DEF ClaimMarks
  <2>3. job' \in [Session -> Jobs]
    BY <1>3, SomeJobs DEF ClaimMarks, Ends
  <2> QED
    BY <1>3, <2>1, <2>2, <2>3 DEF ClaimMarks
<1>4. CASE ClaimFails(s)
  BY <1>4, ShapeBack DEF ClaimFails, Faults
<1>5. CASE ClaimCommitFails(s)
  <2>1. catalog' \in [Feature -> Entries]
    BY <1>5, InHand, NewStatus DEF ClaimCommitFails, Status
  <2>2. broken' \subseteq Feature
    BY <1>5, InHand DEF ClaimCommitFails
  <2> QED
    BY <1>5, <2>1, <2>2, ShapeBack DEF ClaimCommitFails, Faults
<1>6. CASE ReopenTakes(s, f)
  BY <1>6, SomeJobs DEF ReopenTakes, SetsRow, Stages
<1>7. CASE ReopenEnds(s)
  <2>1. holders' \in [Feature -> SUBSET Session]
    BY <1>7 DEF ReopenEnds
  <2> QED
    BY <1>7, <2>1, SomeJobs DEF ReopenEnds, Ends
<1>8. CASE Resume(s, f)
  <2>1. worktree' \in [Feature -> WorktreeStatus]
    BY <1>8 DEF Resume, WorktreeStatus
  <2>2. ResumedBranch(f) \in Commits
    BY Bounds DEF ResumedBranch, Commits
  <2>3. branch' \in [Feature -> Commits \cup {NoBranch}]
    BY <1>8, <2>2 DEF Resume
  <2>4. ledger' \in [Feature -> Session \cup {Nobody}] /\ holders' \in [Feature -> SUBSET Session]
    BY <1>8 DEF Resume, SetsRow
  <2> QED
    BY <1>8, <2>1, <2>3, <2>4 DEF Resume
<1> QED
  BY <1>1, <1>2, <1>3, <1>4, <1>5, <1>6, <1>7, <1>8

LEMMA ShapeEnd ==
    ASSUME Shape, JobsOK, NEW s \in Session, NEW f \in Feature, NEW b \in BOOLEAN,
           \/ UnclaimReads(s, f) \/ UnclaimRemoves(s, b) \/ UnclaimDrops(s) \/ UnclaimWrites(s)
           \/ Ship(s, f, b) \/ TearChecks(s) \/ GcChecks(s, f) \/ TearRemoves(s) \/ TearDrops(s)
           \/ Works(s, f) \/ DeletedByHand(f) \/ Dies(s)
    PROVE  Shape'
<1> USE DEF Shape, ghostVars
<1>1. CASE UnclaimReads(s, f)
  BY <1>1, SomeJobs DEF UnclaimReads, Stages
<1>2. CASE UnclaimRemoves(s, b)
  <2>1. job' \in [Session -> Jobs]
    <3>1. job' = [job EXCEPT ![s].pc = "removed"] \/ job' = [job EXCEPT ![s] = Idle]
      BY <1>2 DEF UnclaimRemoves, Runs, Ends
    <3>2. "taken" \in Stages /\ "removed" \in Stages
      BY DEF Stages
    <3> QED
      BY <3>1, <3>2, SomeJobs, NextStage
  <2>2. worktree' \in [Feature -> WorktreeStatus] /\ holders' \in [Feature -> SUBSET Session]
    BY <1>2 DEF UnclaimRemoves, WorktreeStatus
  <2> QED
    BY <1>2, <2>1, <2>2 DEF UnclaimRemoves
<1>3. CASE UnclaimDrops(s)
  <2>1. job' \in [Session -> Jobs]
    BY <1>3, NextStage DEF UnclaimDrops, Runs, Stages
  <2> QED
    BY <1>3, <2>1 DEF UnclaimDrops, SetsRow
<1>4. CASE UnclaimWrites(s)
  <2>1. catalog' \in [Feature -> Entries]
    BY <1>4, InHand, NewStatus DEF UnclaimWrites, Status
  <2> QED
    BY <1>4, <2>1, SomeJobs DEF UnclaimWrites, Ends
<1>5. CASE Ship(s, f, b)
  <2>1. [catalog[f] EXCEPT !.st = "shipped", !.sha = branch[f]] \in Entries
    <3>1. catalog[f] \in Entries /\ branch[f] \in Commits \cup {NoBranch}
      OBVIOUS
    <3> QED
      BY <3>1 DEF Entries, Status
  <2>2. catalog' \in [Feature -> Entries]
    BY <1>5, <2>1 DEF Ship, Entries, Status
  <2>3. job' \in [Session -> Jobs]
    BY <1>5, SomeJobs DEF Ship, Stages
  <2> QED
    BY <1>5, <2>2, <2>3 DEF Ship
<1>6. CASE TearChecks(s) \/ GcChecks(s, f)
  <2>1. PICK g \in Feature : Checks(s, g)
    BY <1>6, InHand DEF TearChecks, GcChecks
  <2>2. job' \in [Session -> Jobs]
    <3>1. Job("checked", g) \in Jobs
      BY SomeJobs DEF Stages
    <3> QED
      BY <2>1, <3>1, SomeJobs DEF Checks, Ends
  <2> QED
    BY <1>6, <2>2 DEF TearChecks, GcChecks
<1>7. CASE TearRemoves(s)
  <2>1. job' \in [Session -> Jobs]
    BY <1>7, NextStage DEF TearRemoves, Runs, Stages
  <2>2. worktree' \in [Feature -> WorktreeStatus] /\ holders' \in [Feature -> SUBSET Session]
    BY <1>7 DEF TearRemoves, WorktreeStatus
  <2> QED
    BY <1>7, <2>1, <2>2 DEF TearRemoves
<1>8. CASE TearDrops(s)
  BY <1>8, SomeJobs DEF TearDrops, SetsRow, Ends
<1>9. CASE Works(s, f)
  <2>1. worktree' \in [Feature -> WorktreeStatus]
    BY <1>9 DEF Works, WorktreeStatus
  <2>2. branch' \in [Feature -> Commits \cup {NoBranch}] /\ done' \in [Feature -> Commits]
    <3>1. CASE UNCHANGED <<branch, done>>
      BY <3>1
    <3>2. CASE branch[f] < MaxCommits /\ branch' = [branch EXCEPT ![f] = @ + 1]
               /\ done' = [done EXCEPT ![f] = branch'[f]]
      <4>1. branch[f] + 1 \in Commits
        BY <3>2, Bounds DEF Commits, NoBranch
      <4> QED
        BY <3>2, <4>1
    <3> QED
      BY <1>9, <3>1, <3>2 DEF Works
  <2> QED
    BY <1>9, <2>1, <2>2 DEF Works
<1>10. CASE DeletedByHand(f)
  <2>1. worktree' \in [Feature -> WorktreeStatus]
    BY <1>10 DEF DeletedByHand, WorktreeStatus
  <2> QED
    BY <1>10, <2>1 DEF DeletedByHand, Faults
<1>11. CASE Dies(s)
  <2>1. broken' \subseteq Feature
    BY <1>11 DEF Dies, Jobs
  <2> QED
    BY <1>11, <2>1, SomeJobs DEF Dies, Ends, Faults
<1> QED
  BY <1>1, <1>2, <1>3, <1>4, <1>5, <1>6, <1>7, <1>8, <1>9, <1>10, <1>11

(***************************************************************************)
(* One command and one feature                                             *)
(***************************************************************************)
Steady == JobsOK /\ Undisturbed /\ Reliance /\ FeaturesOK /\ SettledInv

Sole == {"unclaim", "removed", "dropped", "reopen", "reopened"}

Same(g) ==
    /\ catalog'[g] = catalog[g] /\ ledger'[g] = ledger[g] /\ worktree'[g] = worktree[g]
    /\ branch'[g] = branch[g] /\ holders'[g] = holders[g] /\ done'[g] = done[g]
    /\ (g \in broken') = (g \in broken)

\* What a step of s with f does leaves everybody else and every other feature alone: it
\* is enough to look at f, at s, and at who else has f in hand.
LEMMA LocalStep ==
    ASSUME Shape, Steady, NEW s \in Session, NEW f \in Feature,
           ideas \subseteq ideas',
           \A r \in Session \ {s} : job'[r] = job[r],
           job[s].f \in {f, NoFeature}, job'[s].f \in {f, NoFeature},
           \A g \in Feature \ {f} : Same(g),
           catalog'[f].st # "none",
           JobOK(job[s])',
           \A r \in Session \ {s} : job[r].f = f => Relies(r, job[r].pc, job[r].made, f)',
           job'[s].f = f => Relies(s, job[s].pc, job[s].made, f)',
           job'[s].f = f => \A r \in Session \ {s} : job[r].f = f => job'[s].pc \notin Sole /\ job[r].pc \notin Sole,
           FeatureOK(f)',
           f \in broken' \/ HalfWay(f)' \/ Settled(f)'
    PROVE  Steady'
<1>1. JobsOK'
  <2>1. ASSUME NEW r \in Session, r # s PROVE JobOK(job[r])'
    <3>1. job'[r] = job[r] /\ JobOK(job[r])
      BY <2>1 DEF Steady, JobsOK
    <3>2. \A g \in Feature : catalog[g].st # "none" => catalog'[g].st # "none"
      BY DEF Same
    <3> QED
      BY <3>1, <3>2 DEF JobOK
  <2> QED
    BY <2>1 DEF JobsOK
<1>2. Undisturbed'
  <2>1. ASSUME NEW q \in Session, NEW r \in Session, job'[q].pc \in Sole, job'[r].f = job'[q].f
        PROVE  r = q
    <3>1. job'[q].f \in Feature
      BY <1>1, <2>1 DEF JobsOK, JobOK, Sole
    <3>2. CASE q # s /\ r # s
      BY <2>1, <3>2 DEF Steady, Undisturbed, Sole
    <3>3. CASE q = s /\ r # s
      BY <2>1, <3>1, <3>3, Bounds
    <3>4. CASE q # s /\ r = s
      BY <2>1, <3>1, <3>4, Bounds
    <3> QED
      BY <3>2, <3>3, <3>4
  <2> QED
    BY <2>1 DEF Undisturbed, Sole
<1>3. Reliance'
  <2>1. ASSUME NEW r \in Session, r # s PROVE Relies(r, job[r].pc, job[r].made, job[r].f)'
    <3>1. job'[r] = job[r] /\ Relies(r, job[r].pc, job[r].made, job[r].f) /\ JobOK(job[r])
      BY <2>1 DEF Steady, Reliance, JobsOK
    <3>2. CASE job[r].f = f
      BY <2>1, <3>1, <3>2
    <3>3. CASE job[r].f \in Feature /\ job[r].f # f
      BY <3>1, <3>3 DEF Relies, Same
    <3>4. CASE job[r].f \notin Feature
      BY <3>1, <3>4 DEF Relies, JobOK
    <3> QED
      BY <3>2, <3>3, <3>4
  <2>2. Relies(s, job[s].pc, job[s].made, job[s].f)'
    <3>1. CASE job'[s].f = f
      BY <3>1
    <3>2. CASE job'[s].f = NoFeature
      <4>1. job'[s].pc \in {"idle", "refine"} /\ job'[s].made = {}
        BY <3>2, Bounds DEF JobOK
      <4> QED
        BY <4>1 DEF Relies
    <3> QED
      BY <3>1, <3>2
  <2> QED
    BY <2>1, <2>2 DEF Reliance
<1>4. FeaturesOK'
  <2>1. ASSUME NEW g \in Feature, g # f PROVE FeatureOK(g)'
    BY <2>1 DEF Steady, FeaturesOK, FeatureOK, Same, HasFolder
  <2> QED
    BY <2>1 DEF FeaturesOK
<1>5. SettledInv'
  <2>1. ASSUME NEW g \in Feature, g # f PROVE g \in broken' \/ HalfWay(g)' \/ Settled(g)'
    <3>1. g \in broken \/ HalfWay(g) \/ Settled(g)
      BY DEF Steady, SettledInv
    <3>2. Same(g)
      BY <2>1
    <3>3. CASE HalfWay(g)
      <4>1. PICK r \in Session : job[r].f = g /\ job[r].pc \in {"taken", "cut", "removed", "dropped"}
        BY <3>3 DEF HalfWay
      <4>2. r # s
        BY <2>1, <4>1, Bounds
      <4> QED
        BY <4>1, <4>2 DEF HalfWay
    <3>4. CASE Settled(g)
      BY <3>2, <3>4 DEF Settled, Same
    <3> QED
      BY <3>1, <3>2, <3>3, <3>4 DEF Same
  <2> QED
    BY <2>1 DEF SettledInv
<1> QED
  BY <1>1, <1>2, <1>3, <1>4, <1>5 DEF Steady

\* A command that starts on, goes on with, or lets go of a feature nobody has half way,
\* and changes nothing else.
LEMMA OnlyItsJob ==
    ASSUME Shape, Steady, NEW s \in Session, NEW f \in Feature,
           UNCHANGED <<ideas, catalog, ledger, worktree, branch, holders, done>>,
           broken' = broken \/ broken' = broken \cup {f},
           \A r \in Session \ {s} : job'[r] = job[r],
           job[s].f \in {f, NoFeature}, job'[s].f \in {f, NoFeature},
           catalog[f].st # "none",
           JobOK(job[s])',
           job'[s].f = f => Relies(s, job[s].pc, job[s].made, f)',
           job'[s].f = f => \A r \in Session \ {s} : job[r].f = f => job'[s].pc \notin Sole /\ job[r].pc \notin Sole,
           job[s].f = f /\ job[s].pc \in {"taken", "cut", "removed", "dropped"} => f \in broken'
    PROVE  Steady'
<1>1. \A g \in Feature \ {f} : Same(g)
  BY DEF Same
<1>2. \A r \in Session \ {s} : job[r].f = f => Relies(r, job[r].pc, job[r].made, f)'
  BY DEF Steady, Reliance, Relies
<1>3. FeatureOK(f)'
  BY DEF Steady, FeaturesOK, FeatureOK, HasFolder
<1>4. f \in broken' \/ HalfWay(f)' \/ Settled(f)'
  <2>1. f \in broken \/ HalfWay(f) \/ Settled(f)
    BY DEF Steady, SettledInv
  <2>2. CASE HalfWay(f)
    <3>1. PICK r \in Session : job[r].f = f /\ job[r].pc \in {"taken", "cut", "removed", "dropped"}
      BY <2>2 DEF HalfWay
    <3>2. CASE r = s
      BY <3>1, <3>2
    <3>3. CASE r # s
      BY <3>1, <3>3 DEF HalfWay
    <3> QED
      BY <3>2, <3>3
  <2>3. CASE Settled(f)
    BY <2>3 DEF Settled
  <2> QED
    BY <2>1, <2>2, <2>3
<1> QED
  BY <1>1, <1>2, <1>3, <1>4, LocalStep

LEMMA IdleJob ==
    ASSUME JobsOK, NEW s \in Session, job[s].pc = "idle" \/ job[s] = Idle
    PROVE  job[s] = Idle /\ job[s].f = NoFeature /\ job[s].pc = "idle"
BY SomeJobs DEF JobsOK, JobOK

\* Ending is always allowed, where nothing is left half way.
LEMMA IdleOK == JobOK(Idle) /\ JobOK(Idle)'
BY SomeJobs DEF JobOK

LEMMA SteadyBegins ==
    ASSUME Shape, Steady, Calm, NEW s \in Session, NEW f \in Feature, NEW b \in BOOLEAN,
           ClaimReads(s, f) \/ UnclaimReads(s, f) \/ GcChecks(s, f)
    PROVE  Steady'
<1> USE DEF ghostVars
<1>1. JobsOK /\ job[s] = Idle
  BY DEF Steady, ClaimReads, UnclaimReads, GcChecks
<1>2. PICK pc \in {"claim", "unclaim", "checked"} : job' = [job EXCEPT ![s] = Job(pc, f)]
  BY <1>1, IdleJob DEF ClaimReads, UnclaimReads, GcChecks, Checks
<1>3. /\ UNCHANGED <<ideas, catalog, ledger, worktree, branch, holders, done, broken>>
      /\ catalog[f].st # "none"
  BY <1>1 DEF ClaimReads, UnclaimReads, GcChecks, Checks, Removable, MayUnclaim
<1>4. job'[s] = Job(pc, f) /\ \A r \in Session \ {s} : job'[r] = job[r]
  BY <1>2 DEF Shape
<1>5. Job(pc, f).pc = pc /\ Job(pc, f).f = f /\ Job(pc, f).made = {}
  BY SomeJobs DEF Stages
<1>6. JobOK(job[s])'
  BY <1>3, <1>4, <1>5 DEF JobOK
<1>7. /\ pc = "unclaim" => catalog[f].st = "claimed"
      /\ pc = "checked" => catalog[f].st = "shipped" /\ worktree[f] = "clean"
  <2>1. CASE ClaimReads(s, f)
    <3>1. job'[s] = Job("claim", f) /\ Job("claim", f).pc = "claim"
      BY <2>1, SomeJobs DEF ClaimReads, Shape, Stages
    <3> QED
      BY <1>4, <1>5, <3>1
  <2>2. CASE UnclaimReads(s, f)
    <3>1. job'[s] = Job("unclaim", f) /\ Job("unclaim", f).pc = "unclaim" /\ catalog[f].st = "claimed"
      BY <2>2, SomeJobs DEF UnclaimReads, MayUnclaim, Shape, Stages
    <3> QED
      BY <1>4, <1>5, <3>1
  <2>3. CASE GcChecks(s, f)
    <3>1. job'[s] = Job("checked", f) /\ Job("checked", f).pc = "checked"
          /\ catalog[f].st = "shipped" /\ worktree[f] = "clean"
      BY <1>1, <2>3, SomeJobs DEF GcChecks, Checks, Removable, Shape, Stages
    <3> QED
      BY <1>4, <1>5, <3>1
  <2> QED
    BY <2>1, <2>2, <2>3
<1>8. Relies(s, job[s].pc, job[s].made, f)'
  BY <1>2, <1>3, <1>4, <1>5, <1>7 DEF Relies
<1>9. \A r \in Session \ {s} : job[r].f = f => pc \notin Sole /\ job[r].pc \notin Sole
  <2>1. CASE ClaimReads(s, f)
    <3>1. pc = "claim"
      <4>1. job'[s] = Job("claim", f) /\ Job("claim", f).pc = "claim"
        BY <2>1, SomeJobs DEF ClaimReads, Shape, Stages
      <4> QED
        BY <1>4, <1>5, <4>1
    <3>2. ~Crowded(f)
      BY <2>1 DEF ClaimReads
    <3> QED
      BY <3>1, <3>2 DEF Crowded, AtWork, Calm, Sole
  <2>2. CASE UnclaimReads(s, f) \/ GcChecks(s, f)
    BY <2>2 DEF UnclaimReads, GcChecks, AtWork, Calm
  <2> QED
    BY <2>1, <2>2
<1> QED
  BY ZenonT(20), <1>1, <1>3, <1>4, <1>5, <1>6, <1>8, <1>9, IdleJob, OnlyItsJob

LEMMA SteadyReopens ==
    ASSUME Shape, Steady, Calm, NEW s \in Session, NEW f \in Feature, ReopenTakes(s, f)
    PROVE  Steady'
<1> USE DEF ghostVars
<1>1. /\ job[s] = Idle /\ catalog[f].st = "shipped" /\ \A r \in Session : job[r].f # f
      /\ ledger' = [ledger EXCEPT ![f] = s] /\ job' = [job EXCEPT ![s] = Job("reopen", f)]
      /\ UNCHANGED <<ideas, catalog, worktree, branch, holders, done, broken>>
  BY DEF ReopenTakes, SetsRow, AtWork, Calm
<1>2. job'[s] = Job("reopen", f) /\ \A r \in Session \ {s} : job'[r] = job[r]
  BY <1>1 DEF Shape
<1>3. Job("reopen", f).pc = "reopen" /\ Job("reopen", f).f = f /\ Job("reopen", f).made = {}
  BY SomeJobs DEF Stages
<1>4. \A g \in Feature \ {f} : Same(g)
  BY <1>1 DEF Same, Shape
<1>5. JobOK(job[s])'
  BY <1>1, <1>2, <1>3 DEF JobOK
<1>6. Relies(s, job[s].pc, job[s].made, f)'
  BY <1>1, <1>2, <1>3 DEF Relies
<1>7. FeatureOK(f)'
  BY <1>1 DEF Steady, FeaturesOK, FeatureOK, HasFolder
<1>8. Settled(f)'
  BY <1>1 DEF Settled
<1> QED
  BY <1>1, <1>2, <1>3, <1>4, <1>5, <1>6, <1>7, <1>8, SomeJobs, LocalStep

\* The row is free, so nobody else is half way with the feature, and nobody was told
\* that it is theirs.
LEMMA SteadyTakes ==
    ASSUME Shape, Steady, Calm, NEW s \in Session, NEW f \in Feature, job[s].f = f, ClaimTakes(s)
    PROVE  Steady'
<1> USE DEF ghostVars
<1>1. /\ job[s].pc = "claim" /\ JobOK(job[s]) /\ JobsOK
      /\ catalog[f].st = "shipped" => ledger[f] # Nobody
      /\ UNCHANGED <<ideas, catalog, worktree, branch, holders, done, broken>>
  BY DEF ClaimTakes, Calm, Steady, JobsOK
<1>2. catalog[f].st # "none" /\ job[s].made = {}
  BY <1>1 DEF JobOK
<1>3. CASE ~Takeable(f)
  <2>1. job' = [job EXCEPT ![s] = Idle] /\ UNCHANGED ledger
    BY <1>3 DEF ClaimTakes, Ends
  <2>2. job'[s] = Idle /\ \A r \in Session \ {s} : job'[r] = job[r]
    BY <2>1 DEF Shape
  <2>3. job'[s].f = NoFeature /\ JobOK(job[s])'
    BY <2>2, SomeJobs, IdleOK DEF JobOK
  <2> QED
    BY <1>1, <1>2, <2>1, <2>2, <2>3, Bounds, OnlyItsJob
<1>4. CASE Takeable(f)
  <2>1. /\ ledger[f] = Nobody /\ ledger' = [ledger EXCEPT ![f] = s]
        /\ job' = [job EXCEPT ![s].pc = "taken"]
    BY <1>4 DEF ClaimTakes, Takeable, SetsRow, Runs
  <2>2. /\ job'[s].pc = "taken" /\ job'[s].f = f /\ job'[s].made = {}
        /\ \A r \in Session \ {s} : job'[r] = job[r]
    BY <1>2, <2>1, NextStage DEF Stages
  <2>3. ledger'[f] = s /\ \A g \in Feature \ {f} : Same(g)
    BY <1>1, <2>1 DEF Same, Shape
  <2>4. holders[f] = {}
    BY <1>1, <2>1, Bounds DEF Steady, FeaturesOK, FeatureOK, Shape
  <2>5. catalog[f].st \in {"open", "claimed"}
    BY <1>1, <1>2, <2>1 DEF Shape, Entries, Status
  <2>6. \A r \in Session \ {s} : job[r].f = f => job[r].pc \notin Sole \cup {"taken", "cut"}
    BY <2>1, Bounds DEF Steady, Undisturbed, Reliance, Relies, Sole
  <2>7. f \in broken \/ catalog[f].st = "open"
    <3>1. ~HalfWay(f)
      BY <1>1, <2>6 DEF HalfWay, Sole
    <3>2. f \in broken \/ Settled(f)
      BY <3>1 DEF Steady, SettledInv
    <3> QED
      BY <2>1, <2>5, <3>2 DEF Settled
  <2>8. JobOK(job[s])'
    BY <1>1, <1>2, <2>2 DEF JobOK
  <2>9. Relies(s, job[s].pc, job[s].made, f)'
    BY <1>1, <2>2, <2>3, <2>4, <2>5, <2>7 DEF Relies
  <2>10. \A r \in Session \ {s} : job[r].f = f => Relies(r, job[r].pc, job[r].made, f)'
    BY <1>1, <2>2, <2>6 DEF Steady, Reliance, Relies, Sole
  <2>11. FeatureOK(f)'
    BY <1>1, <1>2, <2>4 DEF Steady, FeaturesOK, FeatureOK, HasFolder
  <2>12. HalfWay(f)'
    BY <2>2 DEF HalfWay
  <2> QED
    BY <1>1, <1>2, <2>2, <2>3, <2>6, <2>8, <2>9, <2>10, <2>11, <2>12, LocalStep DEF Sole
<1> QED
  BY <1>3, <1>4

\* Beside a claim that has its row, a reopen and an unclaim, there are at most claims
\* that still wait for the ledger.
LEMMA OnlyClaims ==
    ASSUME Shape, Steady, NEW s \in Session, NEW f \in Feature, job[s].f = f,
           job[s].pc \in Sole \cup {"taken", "cut"}
    PROVE  \A r \in Session \ {s} : job[r].f = f =>
               job[r].pc = "claim" /\ job[r].made = {} /\ job[s].pc \in {"taken", "cut"}
<1> SUFFICES ASSUME NEW r \in Session, r # s, job[r].f = f
             PROVE  job[r].pc = "claim" /\ job[r].made = {} /\ job[s].pc \in {"taken", "cut"}
  OBVIOUS
<1>1. job[s].pc \in {"taken", "cut"} /\ job[r].pc \notin Sole
  BY DEF Steady, Undisturbed, Sole
<1>2. ledger[f] = s /\ catalog[f].st \in {"open", "claimed"}
  BY <1>1 DEF Steady, Reliance, Relies
<1>3. job[r].pc \notin {"taken", "cut", "tear", "checked", "cleaned"}
  BY <1>2 DEF Steady, Reliance, Relies
<1>4. job[r].pc \notin {"idle", "refine"} /\ (job[r].made # {} => job[r].pc \in {"cut", "reopened"})
  BY Bounds, SomeJobs DEF Steady, JobsOK, JobOK
<1>5. job[r].pc \in Stages
  BY DEF Shape, Jobs
<1> QED
  BY <1>1, <1>3, <1>4, <1>5 DEF Sole, Stages

LEMMA OthersWait ==
    ASSUME Shape, Steady, NEW s \in Session, NEW f \in Feature, job[s].f = f,
           job[s].pc \in Sole \cup {"taken", "cut"},
           \A r \in Session \ {s} : job'[r] = job[r]
    PROVE  \A r \in Session \ {s} : job[r].f = f =>
               /\ Relies(r, job[r].pc, job[r].made, f)'
               /\ job[r].pc \notin Sole /\ job[s].pc \in {"taken", "cut"}
<1> SUFFICES ASSUME NEW r \in Session \ {s}, job[r].f = f
             PROVE  /\ Relies(r, job[r].pc, job[r].made, f)'
                    /\ job[r].pc \notin Sole /\ job[s].pc \in {"taken", "cut"}
  OBVIOUS
<1>1. job'[r].pc = "claim" /\ job'[r].made = {} /\ job[r].pc = "claim" /\ job[s].pc \in {"taken", "cut"}
  BY OnlyClaims
<1>2. Relies(r, job[r].pc, job[r].made, f)'
  BY <1>1 DEF Relies
<1> QED
  BY <1>1, <1>2 DEF Sole

LEMMA SteadyCuts ==
    ASSUME Shape, Steady, NEW s \in Session, NEW f \in Feature, job[s].f = f,
           ClaimCuts(s) \/ ReopenCuts(s)
    PROVE  Steady'
<1> USE DEF ghostVars
<1> DEFINE made == (IF HasFolder(f) THEN {} ELSE {"worktree"})
                      \cup (IF branch[f] = NoBranch THEN {"branch"} ELSE {})
<1>1. PICK pc \in {"cut", "reopened"} :
         Cuts(s, pc) /\ (pc = "cut" => job[s].pc = "taken") /\ (pc = "reopened" => job[s].pc = "reopen")
  BY DEF ClaimCuts, ReopenCuts
<1>2. /\ worktree[f] # "gone"
      /\ worktree' = IF HasFolder(f) THEN worktree ELSE [worktree EXCEPT ![f] = "clean"]
      /\ branch' = IF HasFolder(f) \/ branch[f] # NoBranch THEN branch
                   ELSE [branch EXCEPT ![f] = Base(f)]
      /\ job' = [job EXCEPT ![s].pc = pc, ![s].made = made]
      /\ UNCHANGED <<ideas, catalog, ledger, holders, done, broken>>
  BY <1>1 DEF Cuts
<1>3. job'[s].pc = pc /\ job'[s].f = f /\ job'[s].made = made /\ \A r \in Session \ {s} : job'[r] = job[r]
  BY <1>2 DEF Shape, Jobs
<1>4. \A g \in Feature \ {f} : Same(g)
  BY <1>2 DEF Same, Shape
<1>5. FeatureOK(f) /\ catalog[f].st # "none" /\ Relies(s, job[s].pc, job[s].made, f)
  BY <1>1 DEF Steady, FeaturesOK, JobsOK, JobOK, Reliance
<1>6. Base(f) \in Commits
  BY Bounds DEF Base, Shape, Entries, Commits
<1>7. worktree'[f] \in {"clean", "dirty"} /\ (~HasFolder(f) => worktree'[f] = "clean")
  BY <1>2 DEF HasFolder, Shape
<1>8. branch'[f] # NoBranch /\ (branch[f] # NoBranch => branch'[f] = branch[f])
  BY <1>2, <1>5, <1>6, Bounds DEF FeatureOK, Shape
<1>9. branch[f] = NoBranch => done[f] = 0 /\ ~HasFolder(f)
  BY <1>5, Bounds DEF FeatureOK, Shape, Commits
<1>10. JobOK(job[s])'
  BY <1>1, <1>2, <1>3, <1>5, <1>9 DEF JobOK
<1>11. Relies(s, job[s].pc, job[s].made, f)'
  BY <1>1, <1>2, <1>3, <1>5, <1>7, <1>9 DEF Relies
<1>12. \A r \in Session \ {s} : job[r].f = f =>
          Relies(r, job[r].pc, job[r].made, f)' /\ job'[s].pc \notin Sole /\ job[r].pc \notin Sole
  BY <1>1, <1>3, OthersWait DEF Sole
<1>13. FeatureOK(f)'
  BY <1>2, <1>5, <1>8, <1>9 DEF FeatureOK
<1>14. HalfWay(f)' \/ Settled(f)'
  BY <1>1, <1>2, <1>3, <1>5 DEF HalfWay, Settled, Relies
<1> QED
  BY <1>2, <1>3, <1>4, <1>5, <1>10, <1>11, <1>12, <1>13, <1>14, LocalStep

\* A rollback takes down a folder that is clean and a branch without work, both made by
\* this very command, and leaves nothing behind.
LEMMA BackLocal ==
    ASSUME Shape, Steady, NEW s \in Session, NEW f \in Feature, job[s].f = f,
           job[s].pc \in {"taken", "cut", "reopen", "reopened"}, RollsBack(s)
    PROVE  /\ job'[s] = Idle /\ \A r \in Session \ {s} : job'[r] = job[r]
           /\ \A g \in Feature \ {f} : /\ ledger'[g] = ledger[g] /\ worktree'[g] = worktree[g]
                                       /\ branch'[g] = branch[g]
           /\ ledger'[f] = Nobody /\ lost' = lost
           /\ HasFolder(f)' => branch'[f] # NoBranch
           /\ done[f] > 0 => branch'[f] = done[f]
           /\ UNCHANGED <<ideas, promoted, holders, done>>
<1>1. /\ worktree' = IF "worktree" \in job[s].made THEN [worktree EXCEPT ![f] = "none"] ELSE worktree
      /\ lost' = IF "worktree" \in job[s].made /\ worktree[f] = "dirty" THEN lost \cup {f} ELSE lost
      /\ branch' = IF "branch" \in job[s].made THEN [branch EXCEPT ![f] = NoBranch] ELSE branch
      /\ ledger' = [ledger EXCEPT ![f] = Nobody]
      /\ job' = [job EXCEPT ![s] = Idle]
      /\ UNCHANGED <<ideas, promoted, holders, done>>
  BY DEF RollsBack, Undone, SetsRow, Ends
<1>2. /\ "worktree" \in job[s].made => worktree[f] # "dirty"
      /\ "branch" \in job[s].made => done[f] = 0
  BY DEF Steady, Reliance, Relies
<1>3. "branch" \in job[s].made => "worktree" \in job[s].made
  BY DEF Steady, JobsOK, JobOK
<1>4. FeatureOK(f)
  BY DEF Steady, FeaturesOK
<1>5. HasFolder(f)' => branch'[f] # NoBranch
  BY <1>1, <1>3, <1>4 DEF FeatureOK, HasFolder, Shape
<1> QED
  BY <1>1, <1>2, <1>4, <1>5 DEF FeatureOK, Shape

LEMMA SteadyFails ==
    ASSUME Shape, Steady, NEW s \in Session, NEW f \in Feature, job[s].f = f,
           ClaimFails(s) \/ ClaimCommitFails(s)
    PROVE  Steady'
<1> USE DEF ghostVars
<1>1. job[s].pc \in {"taken", "cut", "reopen", "reopened"} /\ RollsBack(s)
  BY DEF ClaimFails, ClaimCommitFails
<1>2. FeatureOK(f) /\ Relies(s, job[s].pc, job[s].made, f)
  BY DEF Steady, FeaturesOK, Reliance
<1>3. \A r \in Session \ {s} : job[r].f = f => Relies(r, job[r].pc, job[r].made, f)'
  BY <1>1, BackLocal, OthersWait DEF Sole
<1>4. JobOK(job[s])' /\ job'[s].f = NoFeature
  BY <1>1, BackLocal, IdleOK, SomeJobs DEF JobOK
<1>5. CASE ClaimFails(s)
  <2>1. UNCHANGED <<catalog, broken>>
    BY <1>5 DEF ClaimFails
  <2>2. \A g \in Feature \ {f} : Same(g)
    BY <1>1, <2>1, BackLocal DEF Same
  <2>3. FeatureOK(f)'
    BY <1>1, <1>2, <2>1, BackLocal DEF FeatureOK, Relies
  <2>4. f \in broken' \/ Settled(f)'
    BY <1>1, <1>2, <2>1, BackLocal DEF Relies, Settled
  <2>5. catalog'[f].st # "none"
    BY <1>1, <1>2, <2>1 DEF Relies
  <2> QED
    BY <1>1, <1>3, <1>4, <2>2, <2>3, <2>4, <2>5, Bounds, BackLocal, LocalStep
<1>6. CASE ClaimCommitFails(s)
  <2>1. job[s].pc = "cut" /\ Sets(f, "claimed") /\ broken' = broken \cup {f}
    BY <1>6 DEF ClaimCommitFails
  <2>2. /\ catalog'[f].st = "claimed" /\ catalog'[f].from = catalog[f].from
        /\ catalog'[f].sha = catalog[f].sha
        /\ \A g \in Feature \ {f} : catalog'[g] = catalog[g]
    BY <2>1, NewStatus DEF Status
  <2>3. \A g \in Feature \ {f} : Same(g)
    BY <1>1, <2>1, <2>2, BackLocal DEF Same
  <2>4. FeatureOK(f)'
    BY <1>1, <1>2, <2>1, <2>2, BackLocal DEF FeatureOK, Relies
  <2> QED
    BY <1>1, <1>3, <1>4, <2>1, <2>2, <2>3, <2>4, Bounds, BackLocal, LocalStep
<1> QED
  BY <1>5, <1>6

LEMMA SteadyMarks ==
    ASSUME Shape, Steady, NEW s \in Session, NEW f \in Feature, job[s].f = f,
           ClaimMarks(s) \/ ReopenEnds(s)
    PROVE  Steady'
<1> USE DEF ghostVars
<1>1. /\ job[s].pc \in {"cut", "reopened"} /\ job' = [job EXCEPT ![s] = Idle]
      /\ holders' = [holders EXCEPT ![f] = @ \cup {s}]
      /\ UNCHANGED <<ideas, ledger, worktree, branch, done, broken>>
  BY DEF ClaimMarks, ReopenEnds, Ends
<1>2. FeatureOK(f) /\ Relies(s, job[s].pc, job[s].made, f)
  BY DEF Steady, FeaturesOK, Reliance
<1>3. job'[s] = Idle /\ (\A r \in Session \ {s} : job'[r] = job[r]) /\ holders'[f] = holders[f] \cup {s}
      /\ \A g \in Feature \ {f} : holders'[g] = holders[g]
  BY <1>1 DEF Shape
<1>4. \A r \in Session \ {s} : job[r].f = f => Relies(r, job[r].pc, job[r].made, f)'
  BY <1>1, <1>3, OthersWait DEF Sole
<1>5. JobOK(job[s])' /\ job'[s].f = NoFeature
  BY <1>3, IdleOK, SomeJobs DEF JobOK
<1>6. CASE ClaimMarks(s)
  <2>1. job[s].pc = "cut" /\ Sets(f, "claimed")
    BY <1>6 DEF ClaimMarks
  <2>2. /\ catalog'[f].st = "claimed" /\ catalog'[f].from = catalog[f].from
        /\ catalog'[f].sha = catalog[f].sha
        /\ \A g \in Feature \ {f} : catalog'[g] = catalog[g]
    BY <2>1, NewStatus DEF Status
  <2>3. holders'[f] = {s} /\ ledger'[f] = s /\ worktree'[f] # "none"
    BY <1>1, <1>2, <1>3, <2>1 DEF Relies
  <2>4. \A g \in Feature \ {f} : Same(g)
    BY <1>1, <1>3, <2>2 DEF Same
  <2>5. FeatureOK(f)'
    BY <1>1, <1>2, <2>1, <2>2, <2>3 DEF FeatureOK, Relies, HasFolder
  <2>6. Settled(f)'
    BY <2>2, <2>3, Bounds DEF Settled
  <2> QED
    BY <1>1, <1>3, <1>4, <1>5, <2>2, <2>4, <2>5, <2>6, Bounds, LocalStep
<1>7. CASE ReopenEnds(s)
  <2>1. job[s].pc = "reopened" /\ UNCHANGED catalog
    BY <1>7 DEF ReopenEnds
  <2>2. catalog'[f].st = "shipped"
    BY <1>2, <2>1 DEF Relies
  <2>3. \A g \in Feature \ {f} : Same(g)
    BY <1>1, <1>3, <2>1 DEF Same
  <2>4. FeatureOK(f)'
    BY <1>1, <1>2, <2>1, <2>2 DEF FeatureOK, HasFolder
  <2>5. Settled(f)'
    BY <2>2 DEF Settled
  <2> QED
    BY <1>1, <1>3, <1>4, <1>5, <2>2, <2>3, <2>4, <2>5, Bounds, LocalStep
<1> QED
  BY <1>6, <1>7

LEMMA SteadyResumes ==
    ASSUME Shape, Steady, Calm, NEW s \in Session, NEW f \in Feature, Resume(s, f)
    PROVE  Steady'
<1> USE DEF ghostVars
<1>1. /\ job[s] = Idle /\ catalog[f].st = "claimed" /\ \A r \in Session : job[r].f # f
      /\ worktree' = [worktree EXCEPT ![f] = IF HasFolder(f) THEN @ ELSE "clean"]
      /\ branch' = IF HasFolder(f) THEN branch ELSE [branch EXCEPT ![f] = ResumedBranch(f)]
      /\ ledger' = [ledger EXCEPT ![f] = s] /\ holders' = [holders EXCEPT ![f] = {s}]
      /\ UNCHANGED <<ideas, catalog, job, done, broken>>
  BY DEF Resume, SetsRow, AtWork, Calm
<1>2. FeatureOK(f)
  BY DEF Steady, FeaturesOK
<1>3. /\ ledger'[f] = s /\ holders'[f] = {s}
      /\ worktree'[f] \in {"clean", "dirty"} /\ (HasFolder(f) => worktree'[f] = worktree[f])
      /\ \A g \in Feature \ {f} : Same(g)
  BY <1>1 DEF Same, HasFolder, Shape
<1>4. branch'[f] # NoBranch /\ (branch[f] # NoBranch => branch'[f] = branch[f])
  BY <1>1, <1>2, Bounds DEF FeatureOK, ResumedBranch, Shape, Commits
<1>5. done[f] > 0 => branch[f] # NoBranch
  BY <1>2, Bounds DEF FeatureOK, Shape
<1>6. FeatureOK(f)'
  BY <1>1, <1>2, <1>3, <1>4, <1>5 DEF FeatureOK
<1>7. Settled(f)'
  BY <1>1, <1>3, Bounds DEF Settled
<1>8. JobOK(job[s])' /\ job'[s].f = NoFeature
  BY <1>1, IdleOK, SomeJobs DEF JobOK
<1> QED
  BY <1>1, <1>3, <1>6, <1>7, <1>8, SomeJobs, Bounds, LocalStep

LEMMA SteadyUnclaims ==
    ASSUME Shape, Steady, NEW s \in Session, NEW f \in Feature, NEW b \in BOOLEAN, job[s].f = f,
           UnclaimRemoves(s, b) \/ UnclaimDrops(s) \/ UnclaimWrites(s)
    PROVE  Steady' /\ lost' = lost
<1> USE DEF ghostVars
<1>1. job[s].pc \in {"unclaim", "removed", "dropped"}
  BY DEF UnclaimRemoves, UnclaimDrops, UnclaimWrites
<1>2. \A r \in Session \ {s} : job[r].f # f
  BY <1>1 DEF Steady, Undisturbed
<1>3. /\ FeatureOK(f) /\ catalog[f].st = "claimed" /\ job[s].made = {}
      /\ job[s].pc \in {"removed", "dropped"} => holders[f] = {}
      /\ job[s].pc = "dropped" => ledger[f] = Nobody
  BY <1>1 DEF Steady, FeaturesOK, Reliance, Relies, JobsOK, JobOK
<1>4. CASE UnclaimRemoves(s, b) /\ MayRemove(f, b)
  <2>1. /\ worktree' = [worktree EXCEPT ![f] = "none"] /\ holders' = [holders EXCEPT ![f] = {}]
        /\ lost' = IF worktree[f] = "dirty" /\ ~b THEN lost \cup {f} ELSE lost
        /\ job' = [job EXCEPT ![s].pc = "removed"]
        /\ UNCHANGED <<ideas, catalog, ledger, branch, done, broken>>
    BY <1>4 DEF UnclaimRemoves, Runs
  <2>2. /\ job'[s].pc = "removed" /\ job'[s].f = f /\ job'[s].made = {}
        /\ \A r \in Session \ {s} : job'[r] = job[r]
    BY <1>3, <2>1, NextStage DEF Stages
  <2>3. worktree'[f] = "none" /\ holders'[f] = {} /\ \A g \in Feature \ {f} : Same(g)
    BY <2>1 DEF Same, Shape
  <2>4. JobOK(job[s])' /\ Relies(s, job[s].pc, job[s].made, f)'
    BY <1>3, <2>1, <2>2, <2>3 DEF JobOK, Relies
  <2>5. FeatureOK(f)'
    BY <1>3, <2>1, <2>3 DEF FeatureOK, HasFolder
  <2>6. HalfWay(f)'
    BY <2>2 DEF HalfWay
  <2>7. lost' = lost
    BY <1>4, <2>1 DEF MayRemove
  <2> QED
    BY <1>2, <1>3, <2>1, <2>2, <2>3, <2>4, <2>5, <2>6, <2>7, LocalStep
<1>5. CASE UnclaimRemoves(s, b) /\ ~MayRemove(f, b)
  <2>1. /\ job[s].pc = "unclaim" /\ job' = [job EXCEPT ![s] = Idle]
        /\ UNCHANGED <<ideas, catalog, ledger, worktree, branch, holders, lost, done, broken>>
    BY <1>5 DEF UnclaimRemoves, Ends
  <2>2. job'[s] = Idle /\ \A r \in Session \ {s} : job'[r] = job[r]
    BY <2>1 DEF Shape
  <2>3. job'[s].f = NoFeature /\ JobOK(job[s])'
    BY <2>2, SomeJobs, IdleOK DEF JobOK
  <2> QED
    BY <1>3, <2>1, <2>2, <2>3, Bounds, OnlyItsJob
<1>6. CASE UnclaimDrops(s)
  <2>1. /\ job[s].pc = "removed" /\ ledger' = [ledger EXCEPT ![f] = Nobody]
        /\ job' = [job EXCEPT ![s].pc = "dropped"]
        /\ UNCHANGED <<ideas, catalog, worktree, branch, holders, lost, done, broken>>
    BY <1>6 DEF UnclaimDrops, SetsRow, Runs
  <2>2. /\ job'[s].pc = "dropped" /\ job'[s].f = f /\ job'[s].made = {}
        /\ \A r \in Session \ {s} : job'[r] = job[r]
    BY <1>3, <2>1, NextStage DEF Stages
  <2>3. ledger'[f] = Nobody /\ \A g \in Feature \ {f} : Same(g)
    BY <2>1 DEF Same, Shape
  <2>4. JobOK(job[s])' /\ Relies(s, job[s].pc, job[s].made, f)'
    BY <1>3, <2>1, <2>2, <2>3 DEF JobOK, Relies
  <2>5. FeatureOK(f)'
    BY <1>3, <2>1, <2>3 DEF FeatureOK, HasFolder
  <2>6. HalfWay(f)'
    BY <2>2 DEF HalfWay
  <2> QED
    BY <1>2, <1>3, <2>1, <2>2, <2>3, <2>4, <2>5, <2>6, LocalStep
<1>7. CASE UnclaimWrites(s)
  <2>1. /\ job[s].pc = "dropped" /\ Sets(f, "open") /\ job' = [job EXCEPT ![s] = Idle]
        /\ UNCHANGED <<ideas, ledger, worktree, branch, holders, lost, done, broken>>
    BY <1>7 DEF UnclaimWrites, Ends
  <2>2. job'[s] = Idle /\ \A r \in Session \ {s} : job'[r] = job[r]
    BY <2>1 DEF Shape
  <2>3. job'[s].f = NoFeature /\ JobOK(job[s])'
    BY <2>2, SomeJobs, IdleOK DEF JobOK
  <2>4. /\ catalog'[f].st = "open" /\ catalog'[f].from = catalog[f].from
        /\ catalog'[f].sha = catalog[f].sha
        /\ \A g \in Feature \ {f} : catalog'[g] = catalog[g]
    BY <2>1, NewStatus DEF Status
  <2>5. \A g \in Feature \ {f} : Same(g)
    BY <2>1, <2>4 DEF Same
  <2>6. FeatureOK(f)'
    BY <1>3, <2>1, <2>4 DEF FeatureOK, HasFolder
  <2>7. Settled(f)'
    BY <1>3, <2>1, <2>4 DEF Settled
  <2> QED
    BY <1>2, <1>3, <2>1, <2>2, <2>3, <2>4, <2>5, <2>6, <2>7, Bounds, LocalStep
<1> QED
  BY <1>4, <1>5, <1>6, <1>7

\* A session that was told a feature is its own is right that it is minted, and nobody
\* who has taken it or is removing it is at work there.
LEMMA Held ==
    ASSUME Shape, Steady, NEW s \in Session, NEW f \in Feature, s \in holders[f]
    PROVE  /\ catalog[f].st # "none"
           /\ \A r \in Session : job[r].f = f => job[r].pc \notin {"taken", "cut", "removed", "dropped"}
<1>1. catalog[f].st # "none"
  BY Bounds DEF Steady, FeaturesOK, FeatureOK
<1>2. \A r \in Session : job[r].f = f => job[r].pc \notin {"taken", "cut", "removed", "dropped"}
  BY DEF Steady, Reliance, Relies
<1> QED
  BY <1>1, <1>2

LEMMA SteadyShips ==
    ASSUME Shape, Steady, Calm, NEW s \in Session, NEW f \in Feature, NEW b \in BOOLEAN, Ship(s, f, b)
    PROVE  Steady'
<1> USE DEF ghostVars
<1>1. /\ job[s] = Idle /\ s \in holders[f] /\ branch[f] # NoBranch
      /\ catalog' = [catalog EXCEPT ![f].st = "shipped", ![f].sha = branch[f]]
      /\ job' = [job EXCEPT ![s] = IF b THEN Job("tear", f) ELSE Idle]
      /\ UNCHANGED <<ideas, ledger, worktree, branch, holders, done, broken>>
  BY DEF Ship
<1>2. \A r \in Session : job[r].f = f => job[r].pc \notin {"unclaim", "removed", "dropped", "reopen",
                                                          "reopened", "checked", "cleaned"}
  BY DEF Ship, Crowded, AtWork, Calm
<1>3. /\ catalog'[f].st = "shipped" /\ catalog'[f].sha = branch[f] /\ catalog'[f].from = catalog[f].from
      /\ \A g \in Feature \ {f} : catalog'[g] = catalog[g]
  BY <1>1 DEF Shape, Entries
<1>4. \A g \in Feature \ {f} : Same(g)
  BY <1>1, <1>3 DEF Same
<1>5. job'[s] = (IF b THEN Job("tear", f) ELSE Idle) /\ \A r \in Session \ {s} : job'[r] = job[r]
  BY <1>1 DEF Shape
<1>6. ASSUME NEW r \in Session \ {s}, job[r].f = f
      PROVE  Relies(r, job[r].pc, job[r].made, f)' /\ job[r].pc \notin Sole
  <2>1. job[r].made = {}
    BY <1>1, <1>2, <1>6, Held DEF Steady, JobsOK, JobOK
  <2>2. job'[r] = job[r]
    BY <1>5
  <2> QED
    BY <1>1, <1>2, <1>3, <1>6, <2>1, <2>2, Held DEF Relies, Sole
<1>7. FeatureOK(f)'
  <2>1. FeatureOK(f)
    BY DEF Steady, FeaturesOK
  <2> QED
    BY <1>1, <1>3, <2>1 DEF FeatureOK, HasFolder
<1>8. Settled(f)'
  BY <1>3 DEF Settled
<1>9. /\ JobOK(job[s])' /\ job'[s].f \in {f, NoFeature}
      /\ job'[s].f = f => Relies(s, job[s].pc, job[s].made, f)' /\ job'[s].pc \notin Sole
  <2>1. CASE b
    <3>1. job'[s].pc = "tear" /\ job'[s].f = f /\ job'[s].made = {}
      BY <1>5, <2>1, SomeJobs DEF Stages
    <3> QED
      BY <1>3, <3>1 DEF JobOK, Relies, Sole
  <2>2. CASE ~b
    BY <1>5, <2>2, SomeJobs, IdleOK, Bounds DEF JobOK
  <2> QED
    BY <2>1, <2>2
<1> QED
  BY <1>1, <1>3, <1>4, <1>5, <1>6, <1>7, <1>8, <1>9, SomeJobs, LocalStep

LEMMA SteadyTears ==
    ASSUME Shape, Steady, NEW s \in Session, NEW f \in Feature, job[s].f = f,
           TearChecks(s) \/ TearRemoves(s) \/ TearDrops(s)
    PROVE  Steady' /\ lost' = lost
<1> USE DEF ghostVars
<1>1. /\ FeatureOK(f) /\ catalog[f].st = "shipped" /\ job[s].made = {}
      /\ job[s].pc \in {"tear", "checked", "cleaned"}
      /\ job[s].pc = "checked" => worktree[f] # "dirty"
  BY DEF TearChecks, TearRemoves, TearDrops, Steady, FeaturesOK, Reliance, Relies, JobsOK, JobOK
<1>2. ASSUME NEW r \in Session \ {s}, job[r].f = f
      PROVE  job[r].pc \notin Sole \cup {"taken", "cut"} /\ job[r].made = {}
  <2>1. job[r].pc \notin Sole
    BY <1>1, <1>2 DEF Steady, Undisturbed, Sole
  <2>2. job[r].pc \notin {"taken", "cut"}
    BY <1>1, <1>2 DEF Steady, Reliance, Relies
  <2>3. job[r].made = {}
    BY <2>1, <2>2 DEF Steady, JobsOK, JobOK, Sole
  <2> QED
    BY <2>1, <2>2, <2>3
<1>3. CASE TearChecks(s)
  <2>1. /\ \/ job' = [job EXCEPT ![s] = Idle]
           \/ Removable(f) /\ job' = [job EXCEPT ![s] = Job("checked", f)]
        /\ UNCHANGED <<ideas, catalog, ledger, worktree, branch, holders, lost, done, broken>>
    <3>1. Checks(s, f) /\ UNCHANGED <<ideas, catalog, ledger, worktree, branch, holders, lost, done, broken>>
      BY <1>3 DEF TearChecks
    <3> QED
      BY <3>1 DEF Checks, Ends
  <2>2. \A r \in Session \ {s} : job'[r] = job[r]
    BY <2>1 DEF Shape
  <2>3. CASE job' = [job EXCEPT ![s] = Idle]
    <3>1. job'[s].f = NoFeature /\ JobOK(job[s])'
      BY <2>3, SomeJobs, IdleOK DEF JobOK, Shape
    <3> QED
      BY <1>1, <2>1, <2>2, <3>1, Bounds, OnlyItsJob
  <2>4. CASE Removable(f) /\ job' = [job EXCEPT ![s] = Job("checked", f)]
    <3>1. job'[s].pc = "checked" /\ job'[s].f = f /\ job'[s].made = {}
      BY <2>4, SomeJobs DEF Shape, Stages
    <3>2. JobOK(job[s])' /\ Relies(s, job[s].pc, job[s].made, f)'
      BY <1>1, <2>1, <2>4, <3>1 DEF JobOK, Relies, Removable
    <3>3. \A r \in Session \ {s} : job[r].f = f => job'[s].pc \notin Sole /\ job[r].pc \notin Sole
      BY <1>2, <3>1 DEF Sole
    <3> QED
      BY <1>1, <2>1, <2>2, <3>1, <3>2, <3>3, OnlyItsJob
  <2> QED
    BY <2>1, <2>3, <2>4
<1>4. CASE TearRemoves(s)
  <2>1. /\ job[s].pc = "checked"
        /\ worktree' = [worktree EXCEPT ![f] = "none"] /\ holders' = [holders EXCEPT ![f] = {}]
        /\ lost' = IF worktree[f] = "dirty" THEN lost \cup {f} ELSE lost
        /\ job' = [job EXCEPT ![s].pc = "cleaned"]
        /\ UNCHANGED <<ideas, catalog, ledger, branch, done, broken>>
    BY <1>4 DEF TearRemoves, Runs
  <2>2. /\ job'[s].pc = "cleaned" /\ job'[s].f = f /\ job'[s].made = {}
        /\ \A r \in Session \ {s} : job'[r] = job[r]
    BY <1>1, <2>1, NextStage DEF Stages
  <2>3. worktree'[f] = "none" /\ holders'[f] = {} /\ \A g \in Feature \ {f} : Same(g)
    BY <2>1 DEF Same, Shape
  <2>4. JobOK(job[s])' /\ Relies(s, job[s].pc, job[s].made, f)'
    BY <1>1, <2>1, <2>2 DEF JobOK, Relies
  <2>5. ASSUME NEW r \in Session \ {s}, job[r].f = f
        PROVE  Relies(r, job[r].pc, job[r].made, f)' /\ job[r].pc \notin Sole
    BY <1>2, <2>1, <2>2, <2>3, <2>5 DEF Relies, Steady, Reliance
  <2>6. FeatureOK(f)' /\ Settled(f)'
    BY <1>1, <2>1, <2>3 DEF FeatureOK, HasFolder, Settled
  <2>7. lost' = lost
    BY <1>1, <2>1
  <2> QED
    BY <1>1, <2>1, <2>2, <2>3, <2>4, <2>5, <2>6, <2>7, LocalStep DEF Sole
<1>5. CASE TearDrops(s)
  <2>1. /\ job[s].pc = "cleaned" /\ ledger' = [ledger EXCEPT ![f] = Nobody]
        /\ job' = [job EXCEPT ![s] = Idle]
        /\ UNCHANGED <<ideas, catalog, worktree, branch, holders, lost, done, broken>>
    BY <1>5 DEF TearDrops, SetsRow, Ends
  <2>2. job'[s] = Idle /\ \A r \in Session \ {s} : job'[r] = job[r]
    BY <2>1 DEF Shape
  <2>3. job'[s].f = NoFeature /\ JobOK(job[s])'
    BY <2>2, SomeJobs, IdleOK DEF JobOK
  <2>4. ledger'[f] = Nobody /\ \A g \in Feature \ {f} : Same(g)
    BY <2>1 DEF Same, Shape
  <2>5. ASSUME NEW r \in Session \ {s}, job[r].f = f
        PROVE  Relies(r, job[r].pc, job[r].made, f)'
    BY <1>2, <2>1, <2>2, <2>4, <2>5 DEF Relies, Steady, Reliance
  <2>6. FeatureOK(f)' /\ Settled(f)'
    BY <1>1, <2>1, <2>4 DEF FeatureOK, HasFolder, Settled
  <2> QED
    BY <1>1, <2>1, <2>2, <2>3, <2>4, <2>5, <2>6, Bounds, LocalStep
<1> QED
  BY <1>3, <1>4, <1>5

\* A step beside the commands, or of one that has no feature yet.
LEMMA FeatureStep ==
    ASSUME Shape, Steady, NEW f \in Feature \cup {NoFeature},
           ideas \subseteq ideas',
           \A r \in Session : \/ job'[r] = job[r]
                              \/ job[r].f = NoFeature /\ job'[r].f = NoFeature /\ JobOK(job[r])',
           \A g \in Feature \ {f} : Same(g),
           f \in Feature =>
               /\ catalog[f].st # "none" => catalog'[f].st # "none"
               /\ FeatureOK(f)'
               /\ f \in broken' \/ HalfWay(f)' \/ Settled(f)'
               /\ \A r \in Session : job[r].f = f => Relies(r, job[r].pc, job[r].made, f)'
    PROVE  Steady'
<1>1. JobsOK'
  <2>1. ASSUME NEW r \in Session, job'[r] = job[r] PROVE JobOK(job[r])'
    <3>1. JobOK(job[r])
      BY DEF Steady, JobsOK
    <3>2. \A g \in Feature : catalog[g].st # "none" => catalog'[g].st # "none"
      BY DEF Same
    <3> QED
      BY <2>1, <3>1, <3>2 DEF JobOK
  <2> QED
    BY <2>1 DEF JobsOK
<1>2. \A r \in Session : job'[r] # job[r] => job[r].f = NoFeature /\ job'[r].f = NoFeature
                                          /\ job'[r].pc \in {"idle", "refine"} /\ job'[r].made = {}
  BY <1>1, Bounds DEF JobsOK, JobOK
<1>3. Undisturbed'
  <2>1. ASSUME NEW q \in Session, NEW r \in Session, job'[q].pc \in Sole, job'[r].f = job'[q].f
        PROVE  r = q
    <3>1. job'[q] = job[q] /\ job'[q].f \in Feature
      BY <1>1, <1>2, <2>1 DEF JobsOK, JobOK, Sole
    <3>2. job'[r] = job[r]
      BY <1>2, <2>1, <3>1, Bounds
    <3> QED
      BY <2>1, <3>1, <3>2 DEF Steady, Undisturbed, Sole
  <2> QED
    BY <2>1 DEF Undisturbed, Sole
<1>4. Reliance'
  <2>1. ASSUME NEW r \in Session PROVE Relies(r, job[r].pc, job[r].made, job[r].f)'
    <3>1. Relies(r, job[r].pc, job[r].made, job[r].f) /\ JobOK(job[r])
      BY DEF Steady, Reliance, JobsOK
    <3>2. CASE job'[r] # job[r] \/ job[r].f \notin Feature
      <4>1. job'[r].pc \in {"idle", "refine"} /\ job'[r].made = {}
        BY <1>2, <3>1, <3>2 DEF JobOK
      <4> QED
        BY <4>1 DEF Relies
    <3>3. CASE job'[r] = job[r] /\ job[r].f = f /\ f \in Feature
      BY <3>3
    <3>4. CASE job'[r] = job[r] /\ job[r].f \in Feature /\ job[r].f # f
      BY <3>1, <3>4 DEF Relies, Same
    <3> QED
      BY <3>2, <3>3, <3>4
  <2> QED
    BY <2>1 DEF Reliance
<1>5. FeaturesOK'
  <2>1. ASSUME NEW g \in Feature, g # f PROVE FeatureOK(g)'
    BY <2>1 DEF Steady, FeaturesOK, FeatureOK, Same, HasFolder
  <2> QED
    BY <2>1 DEF FeaturesOK
<1>6. SettledInv'
  <2>1. ASSUME NEW g \in Feature, g # f PROVE g \in broken' \/ HalfWay(g)' \/ Settled(g)'
    <3>1. g \in broken \/ HalfWay(g) \/ Settled(g)
      BY DEF Steady, SettledInv
    <3>2. Same(g)
      BY <2>1
    <3>3. CASE HalfWay(g)
      BY <1>2, <3>3, Bounds DEF HalfWay
    <3>4. CASE Settled(g)
      BY <3>2, <3>4 DEF Settled, Same
    <3> QED
      BY <3>1, <3>2, <3>3, <3>4 DEF Same
  <2> QED
    BY <2>1 DEF SettledInv
<1> QED
  BY <1>1, <1>3, <1>4, <1>5, <1>6 DEF Steady

LEMMA SteadyWorks ==
    ASSUME Shape, Steady, Calm, NEW s \in Session, NEW f \in Feature, Works(s, f)
    PROVE  Steady'
<1> USE DEF ghostVars
<1>1. /\ s \in holders[f] /\ UNCHANGED <<ideas, catalog, ledger, job, holders, broken>>
      /\ \A r \in Session : job[r].f = f => job[r].pc \notin {"checked", "reopened"}
  BY DEF Works, AtWork, Calm
<1>2. /\ \A g \in Feature \ {f} : Same(g)
      /\ worktree'[f] \in {"clean", "dirty"} /\ branch'[f] # NoBranch
      /\ done'[f] > 0 => branch'[f] = done'[f]
  <2>1. FeatureOK(f)
    BY DEF Steady, FeaturesOK
  <2>2. branch[f] \in Nat
    BY Bounds DEF Shape, Commits
  <2>3. CASE /\ worktree[f] = "clean" /\ branch[f] < MaxCommits
             /\ worktree' = [worktree EXCEPT ![f] = "dirty"]
             /\ UNCHANGED <<branch, done>>
    BY <1>1, <2>1, <2>2, <2>3, Bounds DEF Same, Shape, FeatureOK, NoBranch
  <2>4. CASE /\ worktree[f] = "dirty" /\ branch[f] < MaxCommits
             /\ worktree' = [worktree EXCEPT ![f] = "clean"]
             /\ branch' = [branch EXCEPT ![f] = @ + 1]
             /\ done' = [done EXCEPT ![f] = branch'[f]]
    <3>1. branch'[f] = branch[f] + 1 /\ done'[f] = branch'[f] /\ worktree'[f] = "clean"
      BY <2>4 DEF Shape
    <3>2. \A g \in Feature \ {f} : Same(g)
      BY <1>1, <2>4 DEF Shape, Same
    <3> QED
      BY <2>2, <2>4, <3>1, <3>2, Bounds DEF NoBranch
  <2> QED
    BY <2>3, <2>4 DEF Works
<1>3. catalog[f].st # "none" /\ \A r \in Session : job[r].f = f => job[r].pc \notin {"taken", "cut"}
  BY <1>1, Held
<1>4. ASSUME NEW r \in Session, job[r].f = f PROVE Relies(r, job[r].pc, job[r].made, f)'
  <2>1. job[r].made = {} /\ Relies(r, job[r].pc, job[r].made, f)
    BY <1>1, <1>3, <1>4 DEF Steady, JobsOK, JobOK, Reliance
  <2> QED
    BY <1>1, <1>3, <1>4, <2>1 DEF Relies
<1>5. FeatureOK(f)'
  BY <1>1, <1>2 DEF Steady, FeaturesOK, FeatureOK
<1>6. f \in broken' \/ HalfWay(f)' \/ Settled(f)'
  BY <1>1, <1>2 DEF Steady, SettledInv, HalfWay, Settled
<1> QED
  BY <1>1, <1>2, <1>3, <1>4, <1>5, <1>6, FeatureStep

LEMMA SteadyByHand ==
    ASSUME Shape, Steady, NEW f \in Feature, DeletedByHand(f)
    PROVE  Steady'
<1> USE DEF ghostVars
<1>1. /\ \A r \in Session : job[r].f # f
      /\ worktree' = [worktree EXCEPT ![f] = "gone"]
      /\ UNCHANGED <<ideas, catalog, ledger, branch, job, holders, done, broken>>
  BY DEF DeletedByHand, AtWork
<1>2. worktree'[f] = "gone" /\ \A g \in Feature \ {f} : Same(g)
  BY <1>1 DEF Same, Shape
<1>3. FeatureOK(f)' /\ (f \in broken' \/ HalfWay(f)' \/ Settled(f)')
  BY <1>1, <1>2 DEF Steady, FeaturesOK, FeatureOK, HasFolder, SettledInv, HalfWay, Settled
<1> QED
  BY <1>1, <1>2, <1>3, FeatureStep

LEMMA SteadyDies ==
    ASSUME Shape, Steady, NEW s \in Session, Dies(s)
    PROVE  Steady'
<1> USE DEF ghostVars
<1>1. /\ job' = [job EXCEPT ![s] = Idle] /\ broken' = broken \cup ({job[s].f} \ {NoFeature})
      /\ UNCHANGED <<ideas, catalog, ledger, worktree, branch, holders, done>>
  BY DEF Dies, Ends
<1>2. job'[s] = Idle /\ \A r \in Session \ {s} : job'[r] = job[r]
  BY <1>1 DEF Shape
<1>3. job'[s].f = NoFeature /\ JobOK(job[s])'
  BY <1>2, SomeJobs, IdleOK DEF JobOK
<1>4. CASE job[s].f = NoFeature
  <2>1. \A g \in Feature : Same(g)
    BY <1>1, <1>4 DEF Same
  <2> QED
    BY <1>1, <1>2, <1>3, <1>4, <2>1, Bounds, FeatureStep
<1>5. CASE job[s].f # NoFeature
  <2>1. job[s].f \in Feature /\ catalog[job[s].f].st # "none" /\ broken' = broken \cup {job[s].f}
    <3>1. job[s].pc \notin {"idle", "refine"}
      BY <1>5, SomeJobs DEF Steady, JobsOK, JobOK
    <3> QED
      BY <1>1, <1>5, <3>1 DEF Steady, JobsOK, JobOK
  <2> QED
    BY <1>1, <1>2, <1>3, <2>1, Bounds, OnlyItsJob
<1> QED
  BY <1>4, <1>5

(***************************************************************************)
(* What every step leaves alone, but the ones of an idea                   *)
(***************************************************************************)
\* The features have their numbers and ideas, no refine begins, no work is lost, and
\* no more features are in flight.
Minds ==
    /\ promoted' = promoted
    /\ \A g \in Feature : /\ (catalog'[g].st = "none") = (catalog[g].st = "none")
                          /\ catalog'[g].from = catalog[g].from
    /\ \A r \in Session : job'[r].pc = "refine" => job'[r] = job[r]
    /\ lost' = lost
InFlight(g) == catalog[g].st = "claimed" \/ (catalog[g].st = "open" /\ ledger[g] # Nobody)
NoMore == \A g \in Feature : InFlight(g)' => InFlight(g)

LEMMA Kept ==
    ASSUME Shape, Numbered, OneFeature, RefineInv, NothingLost, Minds
    PROVE  Numbered' /\ OneFeature' /\ RefineInv' /\ NothingLost'
<1>1. Minted' = Minted
  BY DEF Minted, Minds
<1>2. Numbered'
  BY <1>1 DEF Numbered
<1>3. \A i \in Idea : {f \in Feature : catalog'[f].from = i} = {f \in Feature : catalog[f].from = i}
  BY DEF Minds
<1>4. OneFeature'
  BY <1>3 DEF OneFeature, Minds
<1>5. RefineInv'
  BY DEF RefineInv, Minds
<1>6. NothingLost'
  BY DEF NothingLost, Minds
<1> QED
  BY <1>2, <1>4, <1>5, <1>6

LEMMA FeaturesFinite == IsFiniteSet(Feature)
BY Bounds, FS_Interval DEF Feature

LEMMA FewerInFlight ==
    ASSUME WipInv, NoMore
    PROVE  WipInv'
<1>1. IsFiniteSet(Active)
  <2>1. IsFiniteSet(Feature)
    BY FeaturesFinite
  <2> QED
    BY <2>1, FS_Subset DEF Active
<1>2. Active' \subseteq Active
  BY DEF NoMore, InFlight, Active
<1>3. IsFiniteSet(Active') /\ Cardinality(Active') <= Cardinality(Active)
  BY <1>1, <1>2, FS_Subset
<1>4. Cardinality(Active') \in Nat /\ Cardinality(Active) \in Nat
  BY <1>1, <1>3, FS_CardinalityType
<1> QED
  BY <1>3, <1>4, Bounds DEF WipInv

\* One more row is written only under the limit.
LEMMA WipTakes ==
    ASSUME Shape, WipInv, NEW s \in Session, ClaimTakes(s), job[s].f \in Feature
    PROVE  WipInv'
<1> DEFINE f == job[s].f
<1>1. CASE ~Takeable(f)
  BY <1>1, FewerInFlight DEF ClaimTakes, NoMore, InFlight
<1>2. CASE Takeable(f)
  <2>1. IsFiniteSet(Feature)
    BY FeaturesFinite
  <2>2. IsFiniteSet(Active \ {f})
    BY <2>1, FS_Subset DEF Active
  <2>3. Active' \subseteq (Active \ {f}) \cup {f}
    BY <1>2 DEF ClaimTakes, SetsRow, Active, Shape
  <2>4. /\ IsFiniteSet((Active \ {f}) \cup {f})
        /\ Cardinality((Active \ {f}) \cup {f}) = Cardinality(Active \ {f}) + 1
    BY <2>2, FS_AddElement
  <2>5. IsFiniteSet(Active') /\ Cardinality(Active') <= Cardinality((Active \ {f}) \cup {f})
    BY <2>3, <2>4, FS_Subset
  <2>6. Cardinality(Active') \in Nat /\ Cardinality(Active \ {f}) \in Nat
    BY <2>2, <2>5, FS_CardinalityType
  <2>7. MaxWip > 0 => Cardinality(Active \ {f}) < MaxWip
    BY <1>2, Bounds DEF Takeable
  <2> QED
    BY <2>4, <2>5, <2>6, <2>7, Bounds DEF WipInv
<1> QED
  BY <1>1, <1>2

\* The steps that leave the catalog alone.
LEMMA MindsMost ==
    ASSUME Shape, NEW s \in Session, NEW f \in Feature,
           \/ ClaimReads(s, f) \/ ClaimTakes(s) \/ ClaimCuts(s) \/ ReopenTakes(s, f) \/ ReopenCuts(s)
           \/ ReopenEnds(s) \/ Resume(s, f) \/ UnclaimReads(s, f) \/ UnclaimDrops(s)
           \/ GcChecks(s, f) \/ Works(s, f) \/ DeletedByHand(f) \/ Dies(s)
    PROVE  Minds /\ catalog' = catalog
<1> USE DEF ghostVars
<1>1. UNCHANGED <<promoted, catalog, lost>>
  BY DEF ClaimReads, ClaimTakes, ClaimCuts, ReopenTakes, ReopenCuts, Cuts, ReopenEnds, Resume,
         UnclaimReads, UnclaimDrops, GcChecks, Works, DeletedByHand, Dies
<1>2. \E j : j.pc # "refine" /\ (job' = job \/ job' = [job EXCEPT ![s] = j])
  <2>1. CASE Resume(s, f) \/ Works(s, f) \/ DeletedByHand(f)
    BY <2>1, SomeJobs DEF Resume, Works, DeletedByHand
  <2>2. CASE \/ ClaimReads(s, f) \/ ReopenTakes(s, f) \/ UnclaimReads(s, f)
    BY <2>2, SomeJobs DEF ClaimReads, ReopenTakes, UnclaimReads, Stages
  <2>3. CASE ReopenEnds(s) \/ Dies(s)
    BY <2>3, SomeJobs DEF ReopenEnds, Dies, Ends
  <2>4. CASE GcChecks(s, f)
    BY <2>4, SomeJobs DEF GcChecks, Checks, Ends, Stages
  <2>5. CASE UnclaimDrops(s)
    <3>1. job' = [job EXCEPT ![s] = [job[s] EXCEPT !.pc = "dropped"]]
      BY <2>5 DEF UnclaimDrops, Runs
    <3>2. [job[s] EXCEPT !.pc = "dropped"].pc # "refine"
      BY DEF Shape, Jobs
    <3> QED
      BY <3>1, <3>2
  <2>6. CASE ClaimTakes(s)
    <3>1. job' = [job EXCEPT ![s] = [job[s] EXCEPT !.pc = "taken"]] \/ job' = [job EXCEPT ![s] = Idle]
      BY <2>6 DEF ClaimTakes, Runs, Ends
    <3>2. [job[s] EXCEPT !.pc = "taken"].pc # "refine"
      BY DEF Shape, Jobs
    <3> QED
      BY <3>1, <3>2, SomeJobs
  <2>7. CASE ClaimCuts(s) \/ ReopenCuts(s)
    <3>1. PICK pc \in {"cut", "reopened"} : Cuts(s, pc)
      BY <2>7 DEF ClaimCuts, ReopenCuts
    <3>2. PICK made : job' = [job EXCEPT ![s] = [job[s] EXCEPT !.pc = pc, !.made = made]]
      BY <3>1 DEF Cuts
    <3>3. [job[s] EXCEPT !.pc = pc, !.made = made].pc # "refine"
      BY DEF Shape, Jobs
    <3> QED
      BY <3>2, <3>3
  <2> QED
    BY <2>1, <2>2, <2>3, <2>4, <2>5, <2>6, <2>7
<1>3. \A r \in Session : job'[r].pc = "refine" => job'[r] = job[r]
  BY <1>2 DEF Shape
<1> QED
  BY <1>1, <1>3 DEF Minds

\* The steps that write the catalog or roll back.
LEMMA MindsWrites ==
    ASSUME Shape, Steady, NEW s \in Session, NEW f \in Feature, NEW b \in BOOLEAN, job[s].f = f,
           \/ ClaimMarks(s) \/ ClaimFails(s) \/ ClaimCommitFails(s)
           \/ UnclaimRemoves(s, b) \/ UnclaimWrites(s)
           \/ TearChecks(s) \/ TearRemoves(s) \/ TearDrops(s)
    PROVE  Minds /\ NoMore
<1> USE DEF ghostVars
<1>1. JobOK(job[s]) /\ Relies(s, job[s].pc, job[s].made, f)
  BY DEF Steady, JobsOK, Reliance
<1>2. CASE ClaimMarks(s) \/ UnclaimWrites(s)
  <2>1. PICK st \in {"claimed", "open"} : Sets(f, st) /\ (ClaimMarks(s) => st = "claimed")
    BY <1>2 DEF ClaimMarks, UnclaimWrites
  <2>2. /\ catalog'[f].st # "none" /\ catalog'[f].from = catalog[f].from
        /\ \A g \in Feature \ {f} : catalog'[g] = catalog[g]
    BY <2>1, NewStatus DEF Status
  <2>3. UNCHANGED <<promoted, ledger, lost>> /\ job' = [job EXCEPT ![s] = Idle]
    BY <1>2 DEF ClaimMarks, UnclaimWrites, Ends
  <2>4. InFlight(f) /\ catalog[f].st # "none"
    BY <1>1, <1>2, Bounds DEF ClaimMarks, UnclaimWrites, Relies, InFlight
  <2>5. \A r \in Session : job'[r].pc = "refine" => job'[r] = job[r]
    BY <2>3, SomeJobs DEF Shape
  <2> QED
    BY <2>2, <2>3, <2>4, <2>5 DEF Minds, NoMore, InFlight
<1>3. CASE ClaimFails(s) \/ ClaimCommitFails(s)
  <2>1. job[s].pc \in {"taken", "cut", "reopen", "reopened"} /\ RollsBack(s)
    BY <1>3 DEF ClaimFails, ClaimCommitFails
  <2>2. /\ \/ catalog'[f].st = catalog[f].st
           \/ job[s].pc = "cut" /\ catalog'[f].st = "claimed"
        /\ catalog'[f].from = catalog[f].from
        /\ \A g \in Feature \ {f} : catalog'[g] = catalog[g]
    <3>1. CASE ClaimFails(s)
      BY <3>1 DEF ClaimFails
    <3>2. CASE ClaimCommitFails(s)
      <4>1. Sets(f, "claimed") /\ job[s].pc = "cut"
        BY <3>2 DEF ClaimCommitFails
      <4> QED
        BY <4>1, NewStatus DEF Status
    <3> QED
      BY <1>3, <3>1, <3>2
  <2>3. job[s].pc = "cut" => InFlight(f) /\ catalog[f].st # "none"
    BY <1>1, Bounds DEF Relies, InFlight
  <2>4. /\ job'[s] = Idle /\ \A r \in Session \ {s} : job'[r] = job[r]
        /\ ledger'[f] = Nobody /\ \A g \in Feature \ {f} : ledger'[g] = ledger[g]
        /\ promoted' = promoted /\ lost' = lost
    BY <2>1, BackLocal
  <2>5. \A r \in Session : job'[r].pc = "refine" => job'[r] = job[r]
    BY <2>4, SomeJobs
  <2>6. Minds
    BY <2>2, <2>3, <2>4, <2>5 DEF Minds
  <2>7. NoMore
    BY <2>2, <2>3, <2>4 DEF NoMore, InFlight
  <2> QED
    BY <2>6, <2>7
<1>4. CASE UnclaimRemoves(s, b) \/ TearChecks(s) \/ TearRemoves(s) \/ TearDrops(s)
  <2>1. lost' = lost
    BY <1>4, SteadyUnclaims, SteadyTears
  <2>2. /\ UNCHANGED <<promoted, catalog>>
        /\ \A g \in Feature : ledger'[g] \in {ledger[g], Nobody}
    BY <1>4 DEF UnclaimRemoves, TearChecks, TearRemoves, TearDrops, SetsRow, Shape
  <2>3. \E j : j.pc # "refine" /\ (job' = job \/ job' = [job EXCEPT ![s] = j])
    <3>1. CASE TearChecks(s) \/ TearDrops(s)
      BY <3>1, SomeJobs DEF TearChecks, Checks, TearDrops, Ends, Stages
    <3>2. CASE UnclaimRemoves(s, b) \/ TearRemoves(s)
      <4>1. PICK pc \in {"removed", "cleaned"} :
               job' = [job EXCEPT ![s] = [job[s] EXCEPT !.pc = pc]] \/ job' = [job EXCEPT ![s] = Idle]
        BY <3>2 DEF UnclaimRemoves, TearRemoves, Runs, Ends
      <4>2. [job[s] EXCEPT !.pc = pc].pc # "refine"
        BY DEF Shape, Jobs
      <4> QED
        BY <4>1, <4>2, SomeJobs
    <3> QED
      BY <1>4, <3>1, <3>2
  <2>4. \A r \in Session : job'[r].pc = "refine" => job'[r] = job[r]
    BY <2>3 DEF Shape
  <2> QED
    BY <2>1, <2>2, <2>4 DEF Minds, NoMore, InFlight
<1> QED
  BY <1>2, <1>3, <1>4

LEMMA MindsShips ==
    ASSUME Shape, Steady, NEW s \in Session, NEW f \in Feature, NEW b \in BOOLEAN, Ship(s, f, b)
    PROVE  Minds /\ NoMore
<1>1. /\ s \in holders[f] /\ UNCHANGED <<promoted, ledger, lost>>
      /\ catalog' = [catalog EXCEPT ![f].st = "shipped", ![f].sha = branch[f]]
      /\ job' = [job EXCEPT ![s] = IF b THEN Job("tear", f) ELSE Idle]
  BY DEF Ship, ghostVars
<1>2. catalog[f].st # "none"
  BY <1>1, Held
<1>3. /\ catalog'[f].st = "shipped" /\ catalog'[f].from = catalog[f].from
      /\ \A g \in Feature \ {f} : catalog'[g] = catalog[g]
  BY <1>1 DEF Shape, Entries
<1>4. \A r \in Session : job'[r].pc = "refine" => job'[r] = job[r]
  BY <1>1, SomeJobs DEF Shape, Stages
<1> QED
  BY <1>1, <1>2, <1>3, <1>4 DEF Minds, NoMore, InFlight

\* Nor does any of them that leaves the catalog alone write a row, but a claim and
\* those that have a feature already.
LEMMA NoMoreMost ==
    ASSUME Shape, Steady, NEW s \in Session, NEW f \in Feature,
           \/ ClaimReads(s, f) \/ ClaimCuts(s) \/ ReopenTakes(s, f) \/ ReopenCuts(s)
           \/ ReopenEnds(s) \/ Resume(s, f) \/ UnclaimReads(s, f) \/ UnclaimDrops(s)
           \/ GcChecks(s, f) \/ Works(s, f) \/ DeletedByHand(f) \/ Dies(s)
    PROVE  NoMore
<1>1. catalog' = catalog
  BY MindsMost
<1>2. \A g \in Feature : ledger'[g] \in {ledger[g], Nobody} \/ catalog[g].st \in {"shipped", "claimed"}
  BY DEF ClaimReads, ClaimCuts, ReopenTakes, ReopenCuts, Cuts, ReopenEnds, Resume, UnclaimReads,
         UnclaimDrops, GcChecks, Works, DeletedByHand, Dies, SetsRow, Shape
<1> QED
  BY <1>1, <1>2 DEF NoMore, InFlight

(***************************************************************************)
(* Ideas                                                                   *)
(***************************************************************************)
LEMMA NewNumber ==
    ASSUME Shape, NEW n \in 0..MaxFeatures, Minted = 1..n
    PROVE  NextId = n + 1
<1>1. n \in Minted \cup {0} /\ \A x \in Minted \cup {0} : n >= x
  OBVIOUS
<1>2. Max(Minted \cup {0}) \in Minted \cup {0} /\ \A x \in Minted \cup {0} : Max(Minted \cup {0}) >= x
  BY <1>1 DEF Max
<1>3. Max(Minted \cup {0}) = n
  <2>1. Max(Minted \cup {0}) \in Nat /\ n \in Nat
    BY <1>2
  <2>2. n >= Max(Minted \cup {0}) /\ Max(Minted \cup {0}) >= n
    BY <1>1, <1>2
  <2> QED
    BY <2>1, <2>2
<1> QED
  BY <1>3 DEF NextId

\* An idea that is new, looked at, or whose refine fails: as if nothing had been.
LEMMA IdeasQuiet ==
    ASSUME Shape, Steady, RefineInv, Calm, NEW s \in Session, NEW i \in Idea,
           NewIdea(i) \/ RefineReads(s, i) \/ RefineFails(s)
    PROVE  /\ Steady' /\ RefineInv' /\ NoMore
           /\ UNCHANGED <<promoted, catalog, lost>>
<1> USE DEF ghostVars
<1>1. UNCHANGED <<catalog, ledger, worktree, branch, holders, lost, done, broken>> /\ ideas \subseteq ideas'
  BY DEF NewIdea, RefineReads, RefineFails
<1>2. \A g \in Feature : Same(g)
  BY <1>1 DEF Same
<1>3. NoMore
  BY <1>1 DEF NoMore, InFlight
<1>4. CASE NewIdea(i)
  <2>1. UNCHANGED <<promoted, job>>
    BY <1>4 DEF NewIdea
  <2>2. RefineInv'
    BY <2>1 DEF RefineInv
  <2> QED
    BY <1>1, <1>2, <1>3, <2>1, <2>2, Bounds, FeatureStep
<1>5. CASE RefineReads(s, i)
  <2> DEFINE j == [Job("refine", NoFeature) EXCEPT !.idea = i]
  <2>1. /\ job[s] = Idle /\ i \in ideas /\ promoted[i] = NoFeature /\ job' = [job EXCEPT ![s] = j]
        /\ \A r \in Session : ~(job[r].pc = "refine" /\ job[r].idea = i)
        /\ promoted' = promoted
    BY <1>5 DEF RefineReads, Refining, Calm
  <2>2. j.pc = "refine" /\ j.f = NoFeature /\ j.idea = i /\ j.made = {}
    BY DEF Job
  <2>3. job'[s] = j /\ \A r \in Session \ {s} : job'[r] = job[r]
    BY <2>1 DEF Shape
  <2>4. JobOK(job[s])' /\ job[s].f = NoFeature
    BY <1>1, <2>1, <2>2, <2>3, SomeJobs DEF JobOK
  <2>5. RefineInv'
    BY <2>1, <2>2, <2>3 DEF RefineInv
  <2> HIDE DEF j
  <2> QED
    BY <1>1, <1>2, <1>3, <2>1, <2>2, <2>3, <2>4, <2>5, Bounds, FeatureStep
<1>6. CASE RefineFails(s)
  <2>1. /\ job[s].pc = "refine" /\ job' = [job EXCEPT ![s] = Idle]
        /\ promoted' = [promoted EXCEPT ![job[s].idea] = NoFeature]
    BY <1>6 DEF RefineFails, RefineUndone, Ends
  <2>2. promoted[job[s].idea] = NoFeature
    BY <2>1 DEF RefineInv
  <2>3. promoted' = promoted
    BY <2>1, <2>2 DEF Shape
  <2>4. job'[s] = Idle /\ \A r \in Session \ {s} : job'[r] = job[r]
    BY <2>1 DEF Shape
  <2>5. JobOK(job[s])' /\ job'[s].f = NoFeature /\ job[s].f = NoFeature
    BY <2>1, <2>4, SomeJobs, IdleOK DEF JobOK, Steady, JobsOK
  <2>6. RefineInv'
    BY <2>3, <2>4, SomeJobs DEF RefineInv
  <2> QED
    BY <1>1, <1>2, <1>3, <2>3, <2>4, <2>5, <2>6, Bounds, FeatureStep
<1> QED
  BY <1>4, <1>5, <1>6

\* The next number is one that nobody knows of; the idea had none, and gets it.
LEMMA IdeaMints ==
    ASSUME Shape, Steady, Numbered, OneFeature, RefineInv, NEW s \in Session, RefineMints(s),
           NEW f \in Feature, f = NextId, NEW i \in Idea \cup {Nobody}, i = job[s].idea
    PROVE  /\ Steady' /\ Numbered' /\ OneFeature' /\ RefineInv' /\ NoMore
           /\ lost' = lost
<1>1. /\ job[s].pc = "refine" /\ f \in Feature
      /\ catalog' = [catalog EXCEPT ![f] = [@ EXCEPT !.st = "open", !.from = i]]
      /\ promoted' = [promoted EXCEPT ![i] = f]
      /\ job' = [job EXCEPT ![s] = Idle]
      /\ UNCHANGED <<ideas, ledger, worktree, branch, holders, lost, done, broken>>
  BY DEF RefineMints, Ends, ghostVars
<1>2. i \in Idea /\ promoted[i] = NoFeature /\ job[s].f = NoFeature
      /\ \A r \in Session : job[r].pc = "refine" /\ job[r].idea = i => r = s
  BY <1>1 DEF Steady, JobsOK, JobOK, RefineInv, Shape
<1>3. PICK n \in 0..MaxFeatures : Minted = 1..n
  BY DEF Numbered
<1>4. f = n + 1
  BY <1>3, NewNumber
<1>5. catalog[f].st = "none"
  <2>1. f \notin Minted
    BY <1>3, <1>4
  <2> QED
    BY <1>1, <2>1 DEF Minted
<1>6. /\ catalog'[f].st = "open" /\ catalog'[f].from = i /\ catalog'[f].sha = catalog[f].sha
      /\ \A g \in Feature \ {f} : catalog'[g] = catalog[g]
  BY <1>1 DEF Shape, Entries
<1>7. FeatureOK(f) /\ ledger[f] = Nobody /\ catalog[f].from = Nobody
  BY <1>1, <1>5 DEF Steady, FeaturesOK, FeatureOK
<1>8. job'[s] = Idle /\ \A r \in Session \ {s} : job'[r] = job[r]
  BY <1>1 DEF Shape
<1>9. \A r \in Session : job[r].f # f
  <2>1. f # NoFeature
    BY <1>1, Bounds
  <2> QED
    BY <1>5, <2>1, SomeJobs DEF Steady, JobsOK, JobOK
<1>10. Steady'
  <2>1. \A g \in Feature \ {f} : Same(g)
    BY <1>1, <1>6 DEF Same
  <2>2. JobOK(job[s])' /\ job'[s].f = NoFeature
    BY <1>8, SomeJobs, IdleOK DEF JobOK
  <2>3. FeatureOK(f)' /\ Settled(f)'
    <3>1. catalog[f].sha = NoBranch
      BY <1>5, <1>7 DEF FeatureOK
    <3>2. FeatureOK(f)'
      BY <1>1, <1>5, <1>6, <1>7, <3>1 DEF FeatureOK, HasFolder
    <3> QED
      BY <1>1, <1>6, <1>7, <3>2 DEF Settled
  <2>4. \A r \in Session : \/ job'[r] = job[r]
                           \/ job[r].f = NoFeature /\ job'[r].f = NoFeature /\ JobOK(job[r])'
    BY <1>2, <1>8, <2>2
  <2>5. ideas \subseteq ideas' /\ f \in Feature /\ catalog'[f].st # "none"
    BY <1>1, <1>6
  <2> QED
    BY <1>9, <2>1, <2>3, <2>4, <2>5, FeatureStep
<1>11. Numbered'
  <2>1. Minted' = Minted \cup {f}
    BY <1>1, <1>6 DEF Minted
  <2>2. n + 1 \in 0..MaxFeatures /\ Minted' = 1..(n + 1)
    BY <1>1, <1>3, <1>4, <2>1, Bounds DEF Feature
  <2> QED
    BY <2>2 DEF Numbered
<1>12. OneFeature'
  <2> SUFFICES ASSUME NEW k \in Idea
               PROVE  {g \in Feature : catalog'[g].from = k} = {promoted'[k]} \ {NoFeature}
    BY DEF OneFeature
  <2>1. {g \in Feature : catalog[g].from = k} = {promoted[k]} \ {NoFeature}
    BY DEF OneFeature
  <2>2. CASE k = i
    <3>1. promoted'[k] = f /\ f # NoFeature
      BY <1>1, <1>2, <2>2, Bounds DEF Shape
    <3>2. \A g \in Feature : catalog[g].from # k
      BY <1>2, <2>1, <2>2
    <3> QED
      BY <1>1, <1>6, <2>2, <3>1, <3>2
  <2>3. CASE k # i
    <3>1. promoted'[k] = promoted[k]
      BY <1>1, <2>3 DEF Shape
    <3>2. \A g \in Feature : (catalog'[g].from = k) = (catalog[g].from = k)
      BY <1>6, <1>7, <2>3, Bounds
    <3> QED
      BY <2>1, <3>1, <3>2
  <2> QED
    BY <2>2, <2>3
<1>13. RefineInv'
  <2> SUFFICES ASSUME NEW r \in Session, job'[r].pc = "refine"
               PROVE  /\ promoted'[job'[r].idea] = NoFeature
                      /\ \A q \in Session : job'[q].pc = "refine" /\ job'[q].idea = job'[r].idea => q = r
    BY DEF RefineInv
  <2>1. r # s /\ job'[r] = job[r]
    BY <1>8, SomeJobs
  <2>2. job[r].idea # i /\ promoted[job[r].idea] = NoFeature
    BY <1>2, <2>1 DEF RefineInv
  <2>3. promoted'[job[r].idea] = promoted[job[r].idea]
    <3>1. job[r].idea \in Idea
      BY <2>1 DEF Steady, JobsOK, JobOK, Shape
    <3> QED
      BY <1>1, <2>2, <3>1 DEF Shape
  <2>4. \A q \in Session : job'[q].pc = "refine" => job'[q] = job[q]
    BY <1>8, SomeJobs
  <2> QED
    BY <2>1, <2>2, <2>3, <2>4 DEF RefineInv
<1>14. NoMore
  BY <1>1, <1>6, <1>7 DEF NoMore, InFlight
<1> QED
  BY <1>1, <1>10, <1>11, <1>12, <1>13, <1>14

(***************************************************************************)
(* The invariant                                                           *)
(***************************************************************************)
LEMMA InitIInv == Init => IInv
<1> SUFFICES ASSUME Init PROVE IInv
  OBVIOUS
<1>1. /\ \A s \in Session : job[s] = Idle
      /\ \A f \in Feature : /\ catalog[f].st = "none" /\ catalog[f].from = Nobody
                            /\ catalog[f].sha = NoBranch /\ ledger[f] = Nobody
                            /\ holders[f] = {} /\ done[f] = 0 /\ worktree[f] = "none"
      /\ \A i \in Idea : promoted[i] = NoFeature
      /\ lost = {}
  BY DEF Init
<1>2. JobsOK /\ Undisturbed /\ Reliance /\ RefineInv
  BY <1>1, SomeJobs, IdleOK DEF JobsOK, Undisturbed, Reliance, Relies, RefineInv
<1>3. FeaturesOK /\ SettledInv
  BY <1>1 DEF FeaturesOK, FeatureOK, HasFolder, SettledInv, Settled
<1>4. Numbered
  <2>1. Minted = 1..0
    BY <1>1 DEF Minted
  <2> QED
    BY <2>1, Bounds DEF Numbered
<1>5. OneFeature
  <2>1. \A i \in Idea : {f \in Feature : catalog[f].from = i} = {}
    BY <1>1, Bounds
  <2> QED
    BY <1>1, <2>1 DEF OneFeature
<1>6. WipInv
  <2>1. Active = {}
    BY <1>1 DEF Active
  <2> QED
    BY <2>1, FS_EmptySet, Bounds DEF WipInv
<1> QED
  BY <1>1, <1>2, <1>3, <1>4, <1>5, <1>6, ShapeInit DEF IInv, NothingLost

LEMMA KeptBy ==
    ASSUME IInv, Shape', Steady', Minds, WipInv'
    PROVE  IInv'
BY Kept DEF IInv, Steady

LEMMA StepIdeas ==
    ASSUME IInv, Calm, NEW s \in Session, NEW i \in Idea,
           NewIdea(i) \/ RefineReads(s, i) \/ RefineMints(s) \/ RefineFails(s)
    PROVE  IInv'
<1>1. Shape /\ Steady /\ Numbered /\ OneFeature /\ RefineInv /\ WipInv /\ NothingLost
  BY DEF IInv, Steady
<1>2. Shape'
  BY <1>1, ShapeIdeas
<1>3. CASE NewIdea(i) \/ RefineReads(s, i) \/ RefineFails(s)
  <2>1. Steady' /\ RefineInv' /\ NoMore /\ UNCHANGED <<promoted, catalog, lost>>
    BY <1>1, <1>3, IdeasQuiet
  <2>2. Numbered' /\ OneFeature' /\ NothingLost'
    BY <1>1, <2>1 DEF Numbered, Minted, OneFeature, NothingLost
  <2>3. WipInv'
    BY <1>1, <2>1, FewerInFlight
  <2> QED
    BY <1>2, <2>1, <2>2, <2>3 DEF IInv, Steady
<1>4. CASE RefineMints(s)
  <2>1. PICK f \in Feature, k \in Idea \cup {Nobody} : f = NextId /\ k = job[s].idea
    BY <1>1, <1>4 DEF RefineMints, Shape, Jobs
  <2>2. Steady' /\ Numbered' /\ OneFeature' /\ RefineInv' /\ NoMore /\ lost' = lost
    BY <1>1, <1>4, <2>1, IdeaMints
  <2>3. WipInv' /\ NothingLost'
    BY <1>1, <2>2, FewerInFlight DEF NothingLost
  <2> QED
    BY <1>2, <2>2, <2>3 DEF IInv, Steady
<1> QED
  BY <1>3, <1>4

\* The commands that have a feature in hand.
LEMMA StepInHand ==
    ASSUME IInv, Calm, NEW s \in Session, NEW b \in BOOLEAN,
           \/ ClaimTakes(s) \/ ClaimCuts(s) \/ ClaimMarks(s) \/ ClaimFails(s) \/ ClaimCommitFails(s)
           \/ ReopenCuts(s) \/ ReopenEnds(s)
           \/ UnclaimRemoves(s, b) \/ UnclaimDrops(s) \/ UnclaimWrites(s)
           \/ TearChecks(s) \/ TearRemoves(s) \/ TearDrops(s)
    PROVE  IInv'
<1>1. Shape /\ JobsOK /\ Steady /\ WipInv
  BY DEF IInv, Steady
<1>2. job[s].pc \notin {"idle", "refine"}
  BY DEF ClaimTakes, ClaimCuts, ClaimMarks, ClaimFails, ClaimCommitFails, ReopenCuts, ReopenEnds,
         UnclaimRemoves, UnclaimDrops, UnclaimWrites, TearChecks, TearRemoves, TearDrops
<1>3. PICK f \in Feature : job[s].f = f
  BY <1>1, <1>2, InHand
<1>4. Shape'
  BY <1>1, ShapeCuts, ShapeClaim, ShapeEnd
<1>5. Steady'
  BY <1>1, <1>3, SteadyTakes, SteadyCuts, SteadyMarks, SteadyFails, SteadyUnclaims, SteadyTears
<1>6. CASE ClaimTakes(s)
  BY <1>1, <1>3, <1>4, <1>5, <1>6, MindsMost, WipTakes, KeptBy
<1>7. CASE ClaimCuts(s) \/ ReopenCuts(s) \/ ReopenEnds(s) \/ UnclaimDrops(s)
  BY <1>1, <1>3, <1>4, <1>5, <1>7, MindsMost, NoMoreMost, FewerInFlight, KeptBy
<1>8. CASE \/ ClaimMarks(s) \/ ClaimFails(s) \/ ClaimCommitFails(s)
           \/ UnclaimRemoves(s, b) \/ UnclaimWrites(s)
           \/ TearChecks(s) \/ TearRemoves(s) \/ TearDrops(s)
  BY <1>1, <1>3, <1>4, <1>5, <1>8, MindsWrites, FewerInFlight, KeptBy
<1> QED
  BY <1>6, <1>7, <1>8

\* The commands that begin with a feature, or do all there is to do, and what happens
\* beside them.
LEMMA StepAnew ==
    ASSUME IInv, Calm, NEW s \in Session, NEW f \in Feature, NEW b \in BOOLEAN,
           \/ ClaimReads(s, f) \/ ReopenTakes(s, f) \/ Resume(s, f) \/ UnclaimReads(s, f)
           \/ GcChecks(s, f) \/ Works(s, f) \/ Ship(s, f, b) \/ Dies(s)
    PROVE  IInv'
<1>1. Shape /\ JobsOK /\ Steady /\ WipInv
  BY DEF IInv, Steady
<1>2. Shape'
  BY <1>1, ShapeClaim, ShapeEnd
<1>3. Steady'
  BY <1>1, SteadyBegins, SteadyReopens, SteadyResumes, SteadyWorks, SteadyShips, SteadyDies
<1>4. Minds /\ NoMore
  BY <1>1, MindsMost, NoMoreMost, MindsShips
<1> QED
  BY <1>1, <1>2, <1>3, <1>4, FewerInFlight, KeptBy

\* Also where no session is.
LEMMA StepBeside ==
    ASSUME IInv, Calm,
           \/ \E i \in Idea : NewIdea(i)
           \/ \E f \in Feature : DeletedByHand(f)
    PROVE  IInv'
<1>1. Shape /\ JobsOK /\ Steady /\ Numbered /\ OneFeature /\ RefineInv /\ WipInv /\ NothingLost
  BY DEF IInv, Steady
<1>2. CASE \E i \in Idea : NewIdea(i)
  <2>1. PICK i \in Idea : NewIdea(i)
    BY <1>2
  <2>2. /\ ideas' = ideas \cup {i}
        /\ UNCHANGED <<promoted, catalog, ledger, worktree, branch, job, holders, lost, done, broken, faults>>
    BY <2>1 DEF NewIdea, ghostVars
  <2>3. Shape'
    BY <1>1, <2>2 DEF Shape
  <2>4. \A g \in Feature : Same(g)
    BY <2>2 DEF Same
  <2>5. Steady'
    BY <1>1, <2>2, <2>4, Bounds, FeatureStep
  <2>6. Minds /\ NoMore
    BY <2>2 DEF Minds, NoMore, InFlight
  <2> QED
    BY <1>1, <2>3, <2>5, <2>6, FewerInFlight, KeptBy
<1>3. CASE \E f \in Feature : DeletedByHand(f)
  <2>1. PICK f \in Feature : DeletedByHand(f)
    BY <1>3
  <2>2. /\ worktree' = [worktree EXCEPT ![f] = "gone"] /\ faults' = faults + 1
        /\ UNCHANGED <<ideas, promoted, catalog, ledger, branch, job, holders, lost, done, broken>>
    BY <2>1 DEF DeletedByHand, Faults, ghostVars
  <2>3. Shape'
    BY <1>1, <2>2 DEF Shape, WorktreeStatus
  <2>4. Steady'
    BY <1>1, <2>1, SteadyByHand
  <2>5. Minds /\ NoMore
    BY <2>2 DEF Minds, NoMore, InFlight
  <2> QED
    BY <1>1, <2>3, <2>4, <2>5, FewerInFlight, KeptBy
<1> QED
  BY <1>2, <1>3

LEMMA StepIInv == Calm /\ IInv /\ [Next]_vars => IInv'
<1> SUFFICES ASSUME Calm, IInv, [Next]_vars PROVE IInv'
  OBVIOUS
<1>1. CASE UNCHANGED vars
  BY <1>1 DEF vars, IInv, Shape, JobsOK, JobOK, Undisturbed, Reliance, Relies, FeaturesOK, FeatureOK,
              HasFolder, SettledInv, HalfWay, Settled, Numbered, Minted, OneFeature, RefineInv,
              WipInv, Active, NothingLost
<1>2. CASE Next
  <2>1. CASE (\E i \in Idea : NewIdea(i)) \/ (\E f \in Feature : DeletedByHand(f))
    BY <2>1, StepBeside
  <2>2. ASSUME NEW s \in Session, RefineMints(s) \/ RefineFails(s)
        PROVE  IInv'
    <3>1. PICK i \in Idea : i = job[s].idea
      BY <2>2 DEF RefineMints, RefineFails, IInv, Shape, JobsOK, JobOK
    <3> QED
      BY <2>2, <3>1, StepIdeas
  <2>3. ASSUME NEW s \in Session, NEW i \in Idea, RefineReads(s, i)
        PROVE  IInv'
    BY <2>3, StepIdeas
  <2>4. ASSUME NEW s \in Session, NEW b \in BOOLEAN,
               \/ ClaimTakes(s) \/ ClaimCuts(s) \/ ClaimMarks(s) \/ ClaimFails(s) \/ ClaimCommitFails(s)
               \/ ReopenCuts(s) \/ ReopenEnds(s)
               \/ UnclaimRemoves(s, b) \/ UnclaimDrops(s) \/ UnclaimWrites(s)
               \/ TearChecks(s) \/ TearRemoves(s) \/ TearDrops(s)
        PROVE  IInv'
    BY <2>4, StepInHand
  <2>5. ASSUME NEW s \in Session, NEW f \in Feature, NEW b \in BOOLEAN,
               \/ ClaimReads(s, f) \/ ReopenTakes(s, f) \/ Resume(s, f) \/ UnclaimReads(s, f)
               \/ GcChecks(s, f) \/ Works(s, f) \/ Ship(s, f, b)
        PROVE  IInv'
    BY <2>5, StepAnew
  <2>6. ASSUME NEW s \in Session, Dies(s)
        PROVE  IInv'
    <3>1. CASE Feature # {}
      BY <2>6, <3>1, StepAnew
    <3>2. CASE Feature = {}
      <4>1. Shape /\ JobsOK /\ Steady
        BY DEF IInv, Steady
      <4>2. Steady'
        BY <2>6, <4>1, SteadyDies
      <4>3. /\ job' = [job EXCEPT ![s] = Idle] /\ faults' = faults + 1
            /\ broken' = broken \cup ({job[s].f} \ {NoFeature})
            /\ UNCHANGED <<ideas, promoted, catalog, ledger, worktree, branch, holders, lost, done>>
        BY <2>6 DEF Dies, Ends, Faults
      <4>4. Shape'
        <5>1. broken' \subseteq Feature
          BY <4>1, <4>3 DEF Shape, Jobs
        <5> QED
          BY <4>1, <4>3, <5>1, SomeJobs DEF Shape
      <4>5. Minds
        BY <4>1, <4>3, SomeJobs DEF Minds, Shape
      <4>6. WipInv'
        BY <4>3, FewerInFlight DEF NoMore, InFlight, IInv
      <4> QED
        BY <4>2, <4>4, <4>5, <4>6, KeptBy
    <3> QED
      BY <3>1, <3>2
  <2> QED
    BY <1>2, <2>1, <2>2, <2>3, <2>4, <2>5, <2>6 DEF Next
<1> QED
  BY <1>1, <1>2

(***************************************************************************)
(* Theorems                                                                *)
(***************************************************************************)
\* Catalog, ledger, folders and branches keep their types: in particular a feature has
\* shipped exactly when the catalog names the commit, and every folder has its branch.
THEOREM TypeCorrect ==
    ASSUME Calm
    PROVE  Spec => []TypeOK
<1>1. IInv => TypeOK
  <2> SUFFICES ASSUME IInv PROVE TypeOK
    OBVIOUS
  <2>1. Shape /\ FeaturesOK
    BY DEF IInv
  <2>2. \A f \in Feature : /\ HasFolder(f) => branch[f] # NoBranch
                           /\ (catalog[f].st = "shipped") = (catalog[f].sha # NoBranch)
    BY <2>1 DEF FeaturesOK, FeatureOK
  <2>3. \A s \in Session : job[s].f \in Feature \cup {NoFeature}
                           /\ job[s].made \subseteq {"worktree", "branch"}
    BY <2>1 DEF Shape, Jobs
  <2> QED
    BY <2>1, <2>2, <2>3 DEF TypeOK, Shape, Entries
<1> QED
  BY <1>1, InitIInv, StepIInv, PTL DEF Spec

\* However many sessions claim at once, by a catalog that they read before they locked
\* the ledger, no more features are claimed than the limit says.
THEOREM LimitHolds ==
    ASSUME Calm
    PROVE  Spec => []WipKept
<1>1. IInv => WipKept
  <2> SUFFICES ASSUME IInv, MaxWip > 0
               PROVE  Cardinality({f \in Feature : catalog[f].st = "claimed"}) <= MaxWip
    BY DEF WipKept
  <2> DEFINE C == {f \in Feature : catalog[f].st = "claimed"}
  <2>1. C \subseteq Active /\ Active \subseteq Feature
    BY DEF Active
  <2>2. IsFiniteSet(Active)
    BY <2>1, FeaturesFinite, FS_Subset
  <2>3. IsFiniteSet(C) /\ Cardinality(C) <= Cardinality(Active)
    BY <2>1, <2>2, FS_Subset
  <2>4. Cardinality(C) \in Nat /\ Cardinality(Active) \in Nat
    BY <2>2, <2>3, FS_CardinalityType
  <2>5. Cardinality(Active) <= MaxWip
    BY DEF IInv, WipInv
  <2> HIDE DEF C
  <2>6. Cardinality(C) <= MaxWip
    BY <2>3, <2>4, <2>5, Bounds
  <2> QED
    BY <2>6 DEF C
<1> QED
  BY <1>1, InitIInv, StepIInv, PTL DEF Spec

\* Until a feature has shipped, one session at most has been told that it is its own.
THEOREM OneSession ==
    ASSUME Calm
    PROVE  Spec => []OneHolder
<1>1. IInv => OneHolder
  <2> SUFFICES ASSUME IInv, NEW f \in Feature, catalog[f].st # "shipped"
               PROVE  Cardinality(holders[f]) <= 1
    BY DEF OneHolder
  <2>1. holders[f] \subseteq {ledger[f]}
    BY DEF IInv, FeaturesOK, FeatureOK
  <2>2. holders[f] = {} \/ holders[f] = {ledger[f]}
    BY <2>1
  <2>3. Cardinality(holders[f]) \in {0, 1}
    BY <2>2, FS_EmptySet, FS_Singleton
  <2> QED
    BY <2>3
<1> QED
  BY <1>1, InitIInv, StepIInv, PTL DEF Spec

\* No rollback, teardown or unclaim throws away what a session has not committed.
THEOREM NoWorkLost ==
    ASSUME Calm
    PROVE  Spec => []NothingLost
<1>1. IInv => NothingLost
  BY DEF IInv
<1> QED
  BY <1>1, InitIInv, StepIInv, PTL DEF Spec

\* Every commit made for a feature stays on its branch, whatever is undone, unclaimed,
\* resumed or reopened.
THEOREM CommitsAreKept ==
    ASSUME Calm
    PROVE  Spec => []CommitsKept
<1>1. IInv => CommitsKept
  BY DEF IInv, FeaturesOK, FeatureOK, CommitsKept
<1> QED
  BY <1>1, InitIInv, StepIInv, PTL DEF Spec

\* Where no command is at work, and none was killed, catalog, ledger, folder and what
\* the sessions were told agree; an idea and its feature name one another.
THEOREM Agreement ==
    ASSUME Calm
    PROVE  Spec => []NoDrift
<1>1. IInv => NoDrift
  <2> SUFFICES ASSUME IInv PROVE NoDrift
    OBVIOUS
  <2>1. ASSUME NEW f \in Feature, AtWork(f) = {}, f \notin broken PROVE Settled(f)
    <3>1. ~HalfWay(f)
      BY <2>1 DEF HalfWay, AtWork
    <3> QED
      BY <2>1, <3>1 DEF IInv, SettledInv
  <2> QED
    BY <2>1 DEF IInv, OneFeature, NoDrift, Settled
<1> QED
  BY <1>1, InitIInv, StepIInv, PTL DEF Spec
===============================================================================
