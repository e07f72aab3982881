# A TLA+ verification of ps-skills

`ps-skills` is a repository of agent skills and of the programs behind them. Three groups
of those programs keep state that several processes, several machines or a person and a
program change at the same time: the **agentic vault** (a Go engine, `src/tools/vault-engine`),
the **release workflow engine** (Python, `src/engine/ps-release-workflow`) and the **agent
tools** (mesh, handoff hooks, worker dispatch; `src/bin` and `src/skills`). This directory
holds specifications of the parts of each that are hard to get right, what TLC checks of
them and what TLAPS proves, the inventory of the whole, and the plan for the rest.

1. [Inventory](#1-inventory) - the parts of the system and where they are hard
2. [Modules](#2-modules) - what is modelled, and how state and actions correspond to code
3. [Runs](#3-runs) - what TLC checks, with which bounds, and why they are enough
4. [Fairness](#4-fairness)
5. [Proofs](#5-proofs) - what TLAPS proves, from what, along which argument
6. [Findings](#6-findings)
7. [Not modelled](#7-not-modelled)
8. [Plan](#8-plan)

To repeat a run: `tlc -config <cfg> <module>` (`PROJECT.json` lists both); to repeat the
proofs: `tlapm <module>_proofs.tla`, and `tlapm VaultSync_refines.tla`.

## 1. Inventory

### 1.1 Vault sync (`src/tools/vault-engine/pkg/vaultsync`) - modelled

Several *places* (working copies of one notes vault, on several machines) share one bare
repository, the *hub*, over git and ssh.

| | |
|---|---|
| State per place | branch head, remote-tracking ref, working files, folder lock (flock), `_meta/guards/save-in-progress.json` (the marker), `_quarantine/<place>/` |
| State of the hub | `refs/heads/main`, daily usage per place, limits |
| Operations | `Syncer.Save` (commit, capture, publish-knowledge, ingest): lock, `Recover`, then up to `MaxRetries` tries of `Update`, key check, inbox file, operation, commit, push; `Daemon.Pass`; `Repo.Begin/Undo/End/Recover/Update`; `PreReceive` and `chargeDaily` on the hub |
| Interaction | a place talks only to the hub: fetch, `ls-remote`, push. Saves and the daemon of one place exclude one another by the folder lock; people edit the same folder without any lock; `read-record` takes no lock |
| Hard | a push whose answer is lost; a process killed between any two steps; marker files that cannot be removed; a retry of a command that did arrive; a fingerprint taken from a version that is undone afterwards; hand edits during a save; an inbox file that is sent, ingested and deleted while another place holds it |
| Correct when | the last line of a save is true (`SAVED` and the definite refusals); no update is lost; no request is carried out twice; no text of a person is lost or sent unasked; every marker is settled and all places converge |

### 1.2 Vault engine (`pkg/vault`) - partly modelled

Notes as files with a sha256 fingerprint; `CommitRecord` (optimistic concurrency control),
`RecordCapture` (append-only ledger), `IngestFile` and `NextIdeaID`, `PublishKnowledge`,
a journal with multi-file rollback, proposals, and reporting (health, buckets, contracts,
privacy, router). The four operations that a save runs are modelled as far as the save
depends on them: what they read, what they write, when they refuse. Journal and proposals
are planned; reporting is a pure function of the notes.

### 1.3 Workflow runner, inbox watcher, agent registry (`pkg/workflow`, `pkg/daemon`, `pkg/agent`) - not yet

A workflow instance (current state, status, attempts, artifacts) stepped through a DAG,
saved by write-and-rename; parallel branches run as goroutines over the same instance.
The watcher moves inbox files into workflows and is refused in a shared folder. Correct
when an instance that is loaded again continues where it stopped, a cycle is refused and
an inbox file is handled once.

### 1.4 Release train (`src/engine/ps-release-workflow`: ship, sync-main, promote, cleanup) - modelled but for bypass flags

| | |
|---|---|
| State | `main` and the last fetched `origin/main`; the main checkout with the catalogs; the `_release` worktree with `release/<v>` and `.release.json`; origin's `release/<v>` and its pull request; `release-freeze.json`; the branches and worktrees of the features |
| Operations | `new-release`; `ship` (gates on the feature, merge of main and of the feature, gates on the combined tree, catalog, or a reset); `sync-main`; `hotfix`; `promote` (freeze, Gate 2, push, pull request; with `--babysit` the wait for checks, a guard, the finalizing commit and the merge); `cleanup` (adopt main, find stranded features, sweep, remove, commit, unfreeze) |
| Interaction | every command is a process of its own; ships exclude one another and a freeze by `file_lock(_release)`; a promote and a cleanup hold it only for the freeze, and talk to ships through `release-freeze.json` |
| Hard | a ship that waits for its gates while a promote freezes, a hotfix that lands between checks and merge, a merge whose gates fail, a death between merge and catalog write, a cleanup that ends half way and is repeated, a request that is merged by hand |
| Correct when | what reaches `main` is what the gates passed; a feature answered with success is on `main`, on a release, or open again; nothing that has not arrived is deleted |

### 1.5 Epics (`lib/epic.py`, `lib/epic_gate.py`, `scripts/epic.py`) - partly modelled

An epic is one outcome of several features. Its entry in the epic catalog goes through
`open`, `verifying` (with the commit that is being checked), `verified` (with the commit
that was), `failed` and `promoted`. A check runs for minutes outside every lock; the claim
before it and the verdict after it are compare-and-set steps under the lock. It is started by
the ship that completes the epic, by `epic verify` (with `--force` over a run believed
dead), or by a promote for every epic it touches. Hard: a forced run beside the one it
takes over, a ship that is rolled back with another one's claim in the catalog, an
unclaim while a check runs, a promote whose sweep fails after it has approved a
split. Correct when one run decides, and a promote pushes only epics that were checked on
the very code it pushes, or whose split was approved.

### 1.6 Backlog, claims and worktree collection (`lib/catalog.py`, `lib/worktree_gc.py`, `init_work_refined_backlog.py`, `unclaim.py`, ...) - partly modelled

What is known of a feature is spread over the catalog (committed in `_release`, one
lock), `claims.json` (a lock of its own), a worktree and a branch. `idea`, `refine`,
`claim`, `claim --reopen`, `claim --resume`, `unclaim`, `ship`, `teardown`, `gc --apply`
take them one after the other and look at the catalog before they lock. Hard: two claims
of one feature, the limit on work in progress, a failure after any of a claim's writes,
a folder deleted by hand, a collector beside somebody who edits. Correct when the limit
holds, one session holds a feature, no uncommitted work and no commit is thrown away, and
catalog and ledger agree whenever nobody is at work.

### 1.7 Mesh (`src/bin/mesh`) - leases modelled; messages, ideas, supervisor not

One SQLite file: agents with heartbeats, leases on resources with a fence number, tasks,
messages. Each command is its own process and one transaction; `now` is read before the
transaction starts and is up to `busy_timeout` (10 s) old when it runs. Correct when at
most one agent works on a thing, fences grow when the holder changes, and a task is
finished by the agent that has it.

### 1.8 Handoff hooks (`src/skills/handoff/hooks`) - modelled but for the low-quota notice

Two hooks beside a session: the Stop hook, which may keep the session from stopping and
gives it one of five orders, and the mid-turn hook, which adds notes before tool calls. Their
memory is a handful of marker files per session and a shared log. Hard: the mid-turn hook has to
predict what the Stop hook will do; markers outlive compactions; another hook's block or a full
disk hides what was said; each hook measures the context and reads its settings in its own
way. Correct when a session hands off once, is never left over
the threshold in silence, and is never kept going for ever.

### 1.9 Worker dispatch (`src/bin/dispatch-agy-worker`, `claude-or-agy`) - not yet

Job records as JSON files, worker slots by flock, quota observations, isolated worktrees
that are merged back, a resume after a kill, a fallback to another agent. Correct when a
slot is never lost, a fallback never runs over half-done work, a job ends in one final
state, and an isolated result is merged once or kept.

### 1.10 Gate slots, gate cache, guards, reports, other tools, skills - not modelled

`gate_lock.py` counts gate runs by slot files, `gate_cache.py` keeps passes by content key
(both planned); `status`, `guard_check` and `release_git_guard` only read. The other tools
in `src/bin` are one-shot scripts over files and other programs. Skills, documents and
research are prompts without state.

## 2. Modules

| Module | Role |
|---|---|
| `History` | branch histories as sequences of commits, and what an operation can read of one: note versions, next idea number, same request, inbox files in the tree |
| `VaultSync` | the protocol of many places and the hub |
| `SharedLog` | abstract specification of `VaultSync`: one log, one verdict per save |
| `PlaceFolder` | the files of one place: the same operations, file by file, beside people who edit |
| `ReleaseTrain` | releases from their cut to their cleanup, beside ships, hotfixes and people |
| `Delivery` | abstract specification of `ReleaseTrain`: where a feature is |
| `EpicGate` | epics, their checks and the promote's sweep over them |
| `Backlog` | features from idea to collected worktree, over catalog, ledger, worktree and branch |
| `Handoff` | the two hooks, the session and its background tasks |
| `Mesh` | leases on resources and tasks, by stale clocks |
| `MC...` | small instances of the module of that name, for TLC |
| `..._proofs`, `VaultSync_refines` | theorems |

The release modules share their subject and cut it so that each is small enough to check:
`ReleaseTrain` has the branches and releases and no claims, `Backlog` the claims
and no merges, `EpicGate` the epics of one release. What one of them leaves to another it
lets happen at any time: a feature of `ReleaseTrain` may be shipped whenever it is refined, a
ship of `EpicGate` lands or is rolled back by gates that say what they like.

Definitions whose comment says *(mutant)* are not part of `Next`: each is the code with one
plausible mistake, kept to show that a property notices it (`PROJECT.json`, "mutants").

### 2.1 `VaultSync`

The working tree is left out except for inbox files; a commit keeps who made it, on which
try, which inbox files it adds and *what its operation had read* (`saw`). A history is the
whole sequence of commits, so "ancestor of" is `IsPrefix`.

| Variable | Code |
|---|---|
| `hub`, `net` | `refs/heads/main` on the hub; pushes under way, each `<old, new>` as git sends it. A push is on its own: the hub may take it after the sender stopped waiting |
| `head`, `remote` | `HEAD` and `refs/remotes/origin/main` of a place |
| `marker` | `save-in-progress.json`: which step opened it and its base commit |
| `disk` | files below `_inbox/` in the folder |
| `run` | program counter and local variables of whoever holds the folder lock; lost when it dies |
| `answer`, `seen` | last line printed by a save; the version its fingerprint names |
| `expired` | which hub commits `--since=24.hours.ago` no longer shows |

`Next` has one action per step of the code between two points at which the process can
die or another process can act: `Recover` (`RecoverNothing`, `RecoverUncommitted`,
`RecoverCommitted`), `Undo` (`UndoFolder`, `EndUndo`), `Update` (`UpdateStarts`,
`FastForward`, `UpdateEnds`), one attempt of `saveLoop` (`AlreadySaved`, `SetAsideBad`,
`BeginInbox`, `BeginOp`, `OpFails`, `NothingChanged`, `OpWrites`, `MakesCommit`, `Pushes`),
`record` (`Hears`, `GivesUp`, `AsksHub`), the hub (`HubTakes`, `HubLosesRace`,
`HubRefuses`), a lost push (`RequestLost`), and what goes wrong (`NoConnection`, `Stops`,
a marker that `End` cannot remove).

Properties: `SavedIsOnHub`, `RefusedNeverLands`, `NoLostUpdate`, `DoneOnce`,
`UnsentIsMarked`, `DropKept`; liveness `EveryoneAnswered`, `Converges`; refinement
`ImplementsSharedLog`. The answers `no-connection` and `engine-error` promise nothing: the
save may be on the hub or arrive later. `RefusedNeverLands` is about the definite refusals
only, and that is what makes it hard: `busy` must not be said while a push may still be taken.

**`SharedLog`** is what those who save are promised: one log that grows at the end; a save
enters it once and only while what it read is still true; `saved` is said of saves the log has
carried out, `refused` of saves that are not in it and never will be.

### 2.2 `PlaceFolder`

One place, three files that stand for the three ways a file is treated (changed by an
operation, added by one, in the inbox), one hub that other places move. `Begin` lists
what is untracked or edited, an operation writes, `changed` decides what was written by the
save, a commit is made of exactly that, and `Undo` takes each file back only if it can
prove the content is the save's own. People may write any file at any moment except for the
liberties of section 2.7. Each text carries which hand-written text it contains, so "nothing
a person wrote is lost" (`NoTextLost`) is a statement about all of folder, quarantine and hub.

To put a file back takes the engine two steps: it copies the file (`Keeps`, a copy that is
synced to disk, and a report line) or compares it and finds it to be the save's own
(`FindsOwn`); then `git checkout`, or a removal, writes over whatever is there (`PutsBack`,
`PutsBackKept`). Between the two lies a *gap* (`InHand`), and likewise between the check of `git
merge` and each file it writes. A person may write in a gap; such a text is recorded in
`exposed`, the others in `owed`. The engine loses it: `NoTextLostEver` counts it and is
refuted (section 6). `NoTextLost` is about the others, whatever is
written in gaps meanwhile.

### 2.3 `ReleaseTrain` and `Delivery`

A commit is what it carries: the features merged, the number of hotfixes, the catalog, and
how often main's bookkeeping had changed when it was cut (a merge conflicts exactly when
that differs; `Mergeable`, `Syncs`).

| Variable | Code |
|---|---|
| `main`, `tracked`, `here` | origin's main, the last fetched `origin/main`, the main checkout (commit, catalog in the working tree, clean, dirty or ahead) |
| `rel` | the `_release` worktree: version, is it there, head, finalized (`.release.json`), and what origin has of `release/<v>` |
| `pr`, `freeze` | the pull request; `release-freeze.json` (`freeze_release`, `record_pushed_head`) |
| `lock`, `ship` | who holds `file_lock(_release)`; of each ship (and sync-main) its step, the version it read before it locked, and `pre_ship_sha` |
| `promote` | step, version, `--babysit`, the head it pushed and the hotfixes it saw |
| `branch` | features whose branch and worktrees exist |
| `told`, `accepted`, `left`, `gated` | history: ships answered with success, content that Gate 1 passed last (or a promote synced), content that a killed ship left untested since, content Gate 2 passed |

Ship: `ShipStarts`, `FeatureGate`, `ShipMerges` (under the lock: refuses a frozen release,
syncs main, merges), then `ShipLands` (gates pass, catalog written) or `ShipRollsBack`
(`reset --hard pre_ship_sha`), `ShipGivesUp`, `ShipDies` (the lock is freed, the merge
stays, and Gate 1 has not passed it: `left`). Promote: `Freezes`, `Gate2`, `Pushes`, `OpensPR`; babysitting goes on with
`ChecksPass`, `Guard`, `Finalizes`, `PushesAgain`, `Merges`. Cleanup: `Adopts`, `Strands`,
`Sweeps`, `Removes`, `CommitsCleanup`, `Unfreezes`. `PromoteFails`, `CleanupFails` and
`PromoterDies` leave exactly what the code leaves: a failure lifts the freeze, a death does
not.

`Delivery` keeps one variable: each feature is out, aboard or has arrived. Features board one
by one, arrive in sets, are put out again by the end of a release, and never leave main.
The mapping (`Place`) finds a feature aboard when the release's head carries it *and* says
so, and "lost" (a place `Delivery` has not) when a ship was answered with success and the
feature is neither on main, nor aboard, nor open in a catalog that people look into.

### 2.4 `EpicGate`

| Variable | Code |
|---|---|
| `code`, `feat` | features merged into the release; what idea and refined catalog say of each |
| `epics`, `saved` | the epic catalog in the `_release` worktree, and in the release's head: a ship's rollback restores the second |
| `check` | of each run (ship, verifier, promote) the claim it has won and is checking |
| `unclaims`, `promote` | an unclaim between its look and its write; the promote's step and which epics it has yet to verify or to split |
| `newest`, `proven` | history: the last claim won per epic; epics whose check passed on the head's code |

`Claims` and `Records` are the two compare-and-sets (`Claimable`, `MayRecord`); runs start
by `ShipLands`, `VerifyClaims` and `PromoteClaims`; between the two the release moves on by
`Fanout`, `Refine`, `Claim`, `ShipLands`, `ShipRollsBack`, `UnclaimWrites` (which demotes the
epic). A promote sweeps (`Sweeps`), verifies what is not fresh (`IsFresh`: verified, and
nothing but bookkeeping changed since), then approves splits (`PromoteSplits`), then pushes.

### 2.5 `Backlog`

| Variable | Code |
|---|---|
| `ideas`, `promoted` | idea catalog, and each idea's stamp `promoted_to` |
| `catalog` | `refined_backlog/_catalog.json` in `_release`: status, idea, commit shipped |
| `ledger` | `claims.json`: owner of each row |
| `worktree`, `branch` | the feature's folder (none, clean, dirty, gone: deleted by hand and still listed by git) and its branch (how many commits) |
| `job` | per session the command it runs, the feature it read before it locked, and what it has made so far (what a rollback takes down) |
| `holders`, `lost`, `done`, `broken` | history: who has been told the feature is theirs, work thrown away unasked, commits ever made, features whose command was killed or could not commit |

Every command is split where it lets go of a lock: a claim is `ClaimReads`, `ClaimTakes`
(`try_claim` under the ledger's flock, with the count of features in flight), `ClaimCuts`,
`ClaimMarks`, and `ClaimFails`/`ClaimCommitFails` after any of them; a reopen and an unclaim and a teardown
likewise; `resume` and `ship` are one step each here (their merge is `ReleaseTrain`'s).
Sessions work and commit in what they hold, delete folders by hand and are killed.

### 2.6 `Handoff` and `Mesh`

`Handoff`: `latest`, `context`, `running`, `shown`, `dirty`, `usage`, `claims`, `banner` are what
the transcript, the tasks and `git status` show; `flag`, `refire`, `draining`, `drain`,
`guard`, `midturn` are the marker files of those names; `log` is what
`noticed_without_handoff` looks for. The two hooks measure the context differently: `latest` is
what `latest_context` finds, the newest record of the session itself that is not empty;
`context` is what the Stop hook reads, the last usage of any record. They differ after the
record of a subagent or a synthetic one (`OthersWork`, which may say whatever `Strays` has). `Stop` is
the disjunction of the hook's ways out, in its order (`StopsUnheard`, `StopGuarded`,
`StopBelow`, `StopRelays`, `StopRetired`, `StopDrains`, `StopFires`); `Midturn` is the other hook.
A behaviour has one configuration: harness, notices of the Stop hook sent or only logged, those of
the mid-turn hook, disk full or not. Claude has one setting for both hooks; under Antigravity
each combination comes of some values of the two settings:

| `AGY_..._NOTICES` | `CLAUDE_..._NOTICES` | mid-turn hook | Stop hook |
|---|---|---|---|
| unset | unset or 1 | sends | sends |
| unset | 0 | logs | logs |
| unset | any other text | logs | sends |
| 0 | anything | logs | logs |
| set, not 0 | 0 | sends | logs |
| set, not 0 | not 0 | sends | sends |

A transcript of Antigravity without any usage is measured by its size, by both hooks alike; one that has
usage in some records only is taken for one that has it in all.

`Mesh`: `claims` and `tasks` are the tables, a call (`Asks`) has read the clock and waits
any time before its transaction runs or fails. What an agent *believes* (`relies`, until when
a thing is its own; `fences`, the number it was told last) is kept beside the tables; the
properties relate the two. `Takeable` is the `WHERE` of the upsert in `claim`.

### 2.7 Liberties

A model that allows everything at once shows only its first counterexample. What people and
commands do *beside the intended use* is therefore a set, `Liberties`; the runs that must pass
take none, and each liberty, taken alone, makes TLC refute the property named. They are
not findings unless a sentence of the documentation denies them (section 6); they say exactly
which discipline the code relies on.

| Module | Liberty | What happens | Refutes |
|---|---|---|---|
| `PlaceFolder` | `create` | a note is made by hand outside the inbox | `SavedIsShared` (run `folder_handmade`) |
| | `in_op` | somebody writes while the engine cannot tell an operation's texts from others: an undo before the commit puts a listed note back without a copy (`recover.go:376`) | `NoTextLost` |
| | `late_drop` | a file is put into the inbox after `checkDropVisible` looked for it (`syncer.go:254`): it is ingested without having been sent, and an undo removes the only copy | `NoTextLost` |
| | `recall` | another place deletes the note that operations change before this place received it, by git alone, since no command of the engine does; a merge killed in between has left the note untracked | `SavedIsShared`, `NoHalfSave` |
| `ReleaseTrain` | `late_ship` | a ship outlives the release whose version it read before it locked | `OnItsTrain` |
| | `early_cleanup` | a release without a pull request is cleaned up | `ImplementsDelivery` |
| | `busy_cleanup` | an unfrozen release is cleaned up while a ship is at work | `ImplementsDelivery` |
| | `busy_main` | a hotfix lands while a cleanup is at work | `ImplementsDelivery` |
| | `hasty_merge` | a person merges the request while a promote is at work | `ImplementsDelivery` |
| | `old_cleanup` | a cleanup is repeated when the next release is open: it removes that one's worktree | `ImplementsDelivery` |
| | `stale_push` | the request was merged; a later promote of the same release, whose fetch failed, does not see it, pushes a newer head and is killed before it opens a request: the cleanup takes that head for the merged one | `ImplementsDelivery` (with 2 faults) |
| | `two_promotes` | two promotes at a time: the failure of one lifts the freeze of the other | `MainIsGated` |
| `EpicGate` | `late_fanout`, `late_unclaim` | a slice is added, or a feature unclaimed, between a promote's sweep and its push | `PromotedIsWhole` |
| | `drift` | a feature names an epic that the catalog has not: the promote warns and goes on | `MissingRefuses` |
| `Backlog` | `slow_claim` | a claim waits for the ledger while its feature ships | `TypeOK` (a shipped entry goes back to claimed) |
| | `unclaim_race` | an unclaim runs beside another command on its feature: a shipped feature is reopened | `TypeOK` |
| | `reopen_race` | a reopen runs beside another command, and its rollback takes down a folder somebody works in | `NothingLost` |
| | `resume_race`, `two_refines` | a resume beside another command on its feature; two refines of one idea | `NoDrift` |
| | `busy_teardown` | somebody edits between a collector's last check and its removal by force | `NothingLost` |
| `Mesh` | `own_race` | an agent gives a command while another one of its own is under way | `OneWorks` |
| | `late_count` | an agent counts its lease from the answer, as `WON ... expires_in` suggests | `OneWorks` |
| | `recreate` | a task that exists is created again | `OneWorks` |

## 3. Runs

| Run | Instance | Shows |
|---|---|---|
| `notes` | 2 places, 3 saves of one note (two queue for one lock), a daemon, 1 fault | safety of the protocol, and that it implements `SharedLog` |
| `capture` | the same capture in two places, beside a save of a note that is too large; daemons, 1 fault | `DoneOnce` by ledger, and that tries run out |
| `inbox` | one file ingested where it was put and where the hub brought it, a second file that is too large, a daemon, 1 fault | one idea per file, refused files are kept aside |
| `live` | the same publish in two places, two daemons, 1 fault | every command is answered, places converge with nothing left unsettled |
| `folder` | one commit, capture or ingest, 2 hand-written texts, 1 foreign commit, 1 fault | nothing of a person is lost but what is written in a gap, nothing is sent unasked, what was answered is shared, no half save stays |
| `train` | 2 features, 2 releases, 1 promoter with 2 promotes, 1 hotfix, 1 fault | no feature is lost or deleted unmerged, main gets what was gated, and the train implements `Delivery` |
| `gate` | 2 epics of 3 slices, 1 verifier with and without force, 2 promotes, 1 unclaim or kill | one run holds a claim, the newest verdict stands, promotes are whole, split approvals are last |
| `claims` | 2 sessions, 2 ideas, 2 features, limit 1, 2 commits, 2 faults | limit, holders, work, commits, agreement of catalog and ledger |
| `sessions` | 2 tasks, every configuration, 1 compaction, records of others | one handoff, no false order to end where the hooks agree, nobody stranded, no endless loop |
| `mesh` | 2 agents, 1 resource, 1 task, 2 commands at a time | one agent works, fences tell it from those that overslept, results are the owner's |
| `folder_handmade` | a commit of a note made by hand | violation: finding of section 6 |
| `halfclaim` | as `claims` | violation: finding of section 6 |

**Bounds, and why they are enough.**

- `VaultSync`: `MaxRetries = 2` is one try, one retry and the end of the tries; the default of
  the code only repeats the middle one (`capture`, about repeats of commands, has 1). Two places are
  enough for every race on the hub, since each place races "the others"; three saves are
  needed so that one place has a successor in the queue that meets a marker, an unsent branch
  or an unconfirmed version of its predecessor. `MaxFaults = 1`: one death or one marker that
  stays, anywhere; the proofs hold for any number. `Stamp = {1, 2}`: how often a place can make
  an inbox commit of the same files on the same version; a fresh commit never equals one
  that the hub has or may still get.
- `PlaceFolder`: `MaxFlying = 1` push of this place under way, since its subject is the folder
  and `VaultSync` has several. `MaxEdits = 2` lets a second text replace one that has been
  copied away already, or the first be kept while the second falls into a gap. `MaxSaves = 1`,
  `MaxForeign = 1`: the proofs hold for any number of both. 2.6 million states.
- `ReleaseTrain`: 2 releases, so that a cleanup can meet its successor's worktree and entries of
  an older version; 2 promotes, so that one can fail or die and a second one finds what it
  left; a hotfix before, between or after; 2 features, so that one is shipped into a release
  that the other is aboard. One promoter: two are a liberty. The
  invariant of the refinement was checked with 2 faults, and with 3 faults and 3 promotes of
  one feature.
- `EpicGate`: an epic of two slices (one shipped late, added late, or delivered before) and one of a single slice;
  a ship, a forced verifier and a promote may meet in one check.
- `Backlog`: limit 1 with two features makes the second claim the one too many; 2 commits so
  that a branch can be ahead of what shipped; 2 faults so that a killed command is followed by a
  failing one.
- `Handoff`: a context of 3 steps with the threshold at 2 and the hard cap at 3 is below, at and
  above each; one compaction lets a marker outlive its life. A record of others says 1, under
  the threshold; the proofs are for any.
- `Mesh`: 4 instants and leases of 1: a command may be read, wait through an expiry and two
  takeovers, and be written. Its `VIEW` forgets until when an agent relied on a
  thing once that time is over; nothing asks for it again.

## 4. Fairness

`VaultSync!FairSpec` (run `live`) assumes of the code only what its time limits and loops give:
a process that runs goes on (every git command runs under `context.WithTimeout`), a sender does
not wait for ever, a command polls the lock until its deadline and then says `busy`, the daemon
ticks, and a push reaches the hub or is lost. Of the environment it assumes that the
connection comes back: a process that asks the hub again and again gets an answer (strong
fairness of `RecoverCommitted` and `UpdateStarts`; `NoConnection` stays possible). No fairness is
assumed of commands being issued, of the hub taking anything, or of deaths.

`Handoff!FairSpec` (run `sessions`) assumes one thing: a session that works stops some time, weak
fairness of `Stop`; the model of a language ends its turn when it has nothing left to do. What
the hooks make of the stop is theirs. That is enough for `LoopsEnd`: what the environment
does in between needs no fairness.

The other specifications state safety only. The code gives their commands no scheduler: a
feature that nobody ships stays where it is.

## 5. Proofs

TLAPS checks these for every value of the constants that satisfies the named assumptions: any
finite or infinite set of places, features, epics, agents, any bound.

| Module | Theorem | Statement | Beside the module's own ASSUME |
|---|---|---|---|
| `VaultSync_proofs` | `TypeCorrect`, `SavedIsTrue`, `RefusalIsFinal`, `NothingIsLost`, `UnsentIsAlwaysMarked` | `TypeOK`, `SavedIsOnHub`, `RefusedNeverLands`, `NoLostUpdate`, `UnsentIsMarked` | |
| `VaultSync_refines` | `Implements` | `Spec => ImplementsSharedLog` | |
| | `RequestsAreDoneOnce`, `InboxFilesAreKept` | `DoneOnce`, `DropKept` | |
| `PlaceFolder_proofs` | `TypeCorrect` | `TypeOK` | |
| | `NothingOfPeopleIsLost`, `OnlyDropsAreSent` | `NoTextLost`, `OnlyInboxIsSent` | neither `in_op` nor `late_drop` |
| | `HalfInvariance`, `SavedTextsAreShared`, `NoHalfIsLeft` | `JInv`, `SavedIsShared`, `NoHalfSave` | no liberties |
| `ReleaseTrain_proofs` | `TypeCorrect`, `VerifiedHead`, `NoCodeDeleted` | `TypeOK`, `HeadIsVerified`, `CodeKept` | not `late_ship` |
| | `OnlyGatedMerges`, `FreshMerges` | `MainIsGated`, `BabysitIsFresh` | not `late_ship`, one promoter |
| | `FeaturesAreDelivered` | `Spec => ImplementsDelivery` | no liberties, one promoter |
| `EpicGate_proofs` | `TypeCorrect`, `NewestVerdict`, `ClaimsAreHeld` | `TypeOK`, `VerdictIsNewest`, `ClaimIsHeld` | |
| | `PromotesAreWhole` | `PromotedIsWhole` | nobody fans out or unclaims while a promote runs |
| | `SplitsAreLast` | `SplitIsLast` | the same, and no `drift` |
| `Backlog_proofs` | `TypeCorrect`, `LimitHolds`, `OneSession`, `NoWorkLost`, `CommitsAreKept`, `Agreement` | `TypeOK`, `WipKept`, `OneHolder`, `NothingLost`, `CommitsKept`, `NoDrift` | no liberties |
| `Handoff_proofs` | `TypeCorrect`, `OneHandoff`, `TheEndIsHeard`, `NobodyIsStranded` | `TypeOK`, `HandoffOnce`, `EndIsHeard`, `NobodyStranded` | |
| `Mesh_proofs` | `TypeCorrect`, `OneWorker`, `LargestFence`, `LastOwnerFinishes` | `TypeOK`, `OneWorks`, `ZombiesAreFenced`, `DoneByOwner` | no liberties (but for types) |

**Assumptions.** Each module names one `ASSUME` about its constants, and TLC evaluates it in
every run of that module: identities that must not coincide (no agent is `NoAgent`, no
feature is the worker `"sync-main"`), bounds that are numbers, `MaxRetries` at least 1, the
threshold of the hooks not above the hard cap. Where a theorem needs a liberty to be absent, it says so itself
(`ASSUME Calm`, `NoLateShip`, `Orderly`, `Guarded`), and section 2.7 tells what TLC finds when it is there.

None of the safety properties is inductive. Each proof module begins with the parts of its
inductive invariant; every action has a lemma, most of which say only what the action changes
at one place, feature or session, because a step of one leaves the others as they are. Every
inductive invariant was checked with TLC on the instances of section 3 before it was proved.

**`VaultSync`.** `RefusedNeverLands` says nothing of pushes under way, and it is a push
under way that breaks it later. The invariant `IInv` therefore has parts

- of a place: what it heard from the hub stays a prefix of the hub (`HeardFromHub`); where
  its holder stands tells whether the branch is on the hub or exactly one commit ahead of
  the marker's base (`BranchFits`); who the holder is and what its commit carries
  (`HolderKnown`, `ReadsHere`);
- of a save: every try but the one it waits for is *lost*: not on the hub, and no
  request that asks for the hub's present version carries it (`LostOrOpen`). Since the hub
  only takes requests that ask for its present version, and it never returns to an
  earlier one, a lost try stays lost. This is what justifies `record`'s conclusion "the hub moved
  and does not show the commit, so it can never be taken" and the absence of that
  conclusion when the hub did not move;
- of the try it does wait for (`OpenTry`): it is on the hub, or it is the only request that
  can bring it there, and an answer arrives only when the request is gone;
- of a request under way (`RequestOK`): it adds one commit to a version the hub had, and that
  commit says truly what it read there;
- of the hub: every commit read the truth (`NoLostUpdate`).

The refinement needs three more facts (`RefInv`): a commit of inbox files adds at least one
file, in the folder, on the branch and on its way; and a request of a save asks for
a version on which that save is not. `DoneOnce` adds that the version an attempt is made on is
the one whose keys were looked at (`Looked`, `RequestLooked`): a push that lost the race is tried
again on a version that is looked at anew, so the repeated command of another place is seen.
`DropKept` adds that an ingest reads its source only when the hub has it (`SourceSent`). The
lemmas on prefixes are the first section of `VaultSync_proofs`.

**`PlaceFolder`.** None of its properties speaks of the process, and it is the process that
breaks them. The first invariant, `IInv`, says of every point between `Begin` and `End` what
marker and branch are there (`StageOK`), and that whatever the holder may write over *next* is safe
(`SafeOK`): the file it has just copied (`KeptOK`), the files a merge is about to
replace (`MergeOK`), the source an ingest removes (`SourceOK`), what the operation wrote over
(`WrittenOK`), what was listed and committed (`ListedOK`, `OwnOK`), and what an undo takes for
its own (`UndoOK`), each because its person's text is in the history or in quarantine already.
`SafeText` is the notion they share: a text that is written in a gap is safe to write over only
because it is in `exposed`, and never in `owed`. This is where `in_op` and `late_drop` come in: with them
`WrittenOK` and `SourceOK` fail, and TLC shows how.

The second, `JInv`, follows every text of an *operation*: it is committed, or the marker's
holder is about to commit it or to take it back (`HalfOK`); an untracked note that an
operation may meet is never one that it changes (`StraysOK`). That last part is the
delicate one, because `changed` leaves out every file that was untracked at `Begin`, and a
process killed half way through an update does leave untracked files. What saves the
engine is that such a file belongs to a version the hub has, and that the next save updates
to that version, where the file is tracked, before it writes. The proof attempt found the
one exception: if the hub *deletes* that file before the next update, it stays untracked,
and a save that changes it is answered `SAVED` and not sent (liberty `recall`, sections 2.7
and 6). No command of the engine deletes a note (`ArchiveRecord`, `vault.go:675`, which would, is
called by tests only), so this needs somebody who commits the deletion with git.

**`ReleaseTrain`.** `CodeKept` rests on what a cleanup may believe: main's catalog calls a
feature shipped only after a merge brought the release's catalog *and* code together, so every
commit carries the code of what its catalog calls shipped or promoted, and main that of
what the main checkout's catalog does (`CarryInv`). `HeadIsVerified` rests on the lock: who holds it is gating
(`LockInv`), its saved head is what it found standing, and it works on the release it read
(`OwnRelease`, which a late ship breaks). What stands (`Standing`) is what Gate 1 passed last; after a
ship that was killed at its gate it is that ship's untested merge, and `HeadIsVerified` says only
that no failing ship after it leaves anything else, until Gate 1 passes again. `MainIsGated` needs the freeze: from the moment a
promote has gated a head until it ends, the release is frozen and no ship can merge
(`FreezeInv`, `RequestInv`). A second promoter breaks this, because a promote that fails lifts
the freeze whoever set it.

That the train implements `Delivery` says that no feature is ever "lost". `DInv` follows the
features that were answered and have not arrived (`Late`). While a release is there, its
catalog calls each of them shipped on it, or they are open in it, on main and in what was
pushed; while none is, each is open on main or in the uncommitted catalog that a cleanup left
(`LateOK`). A cleanup is where one could be dropped: between `Strands` and its commit all are open in
the main checkout (`SweptOK`), because the head it takes for the merged one did merge
(`MergedOK`), because it works for the release whose request merged (`CleaningOK`) and
on main as it is (`AtMain`). The proof attempt found where `MergedOK` is not so: a push after the merge
replaces the recorded head, and only a failure forgets it, not a death (liberty
`stale_push`, section 6). `StepMoves` then says which steps move features: `ShipLands` one aboard,
a merge a set to main, `Removes` the rest back.

**`EpicGate`.** An epic says `verifying` exactly while it carries a claim, in the catalog and
in the head that a rollback restores (`EntriesOK`, `ChecksOK`, `VerdictsOK`); the claim of a
verifier that died before it committed it is an *orphan*: nobody comes back with a verdict for it. `ClaimIsHeld` is proved from `HInv`: as long as nobody
forces and nobody was killed, an epic that says `verifying` has one holder (`HoldsAlone`), a ship
checks its own epic only (`OwnEpic`), and nothing is uncommitted that the rollback of another ship
could take away (`saved = epics`). `PromotedIsWhole` needs that nothing a promote has found
fresh becomes stale while its sweep goes on (`SweepOK`, `ProofsOK`), which holds because ships are frozen out.

**`Handoff`.** A session that was told to end its turn is over the threshold by its own records, with
neither flag nor a drain notice that was sent, and whatever it does before it stops, that stays so
(`EndInv`). So if the Stop hook measures the same and sends its notices, it reaches a handoff, a
drain notice or a correction, and `EndIsHeard` says that nothing else can keep it silent. A flag
tells of a handoff, also where no flag can be written (`FlagInv`).

**`Mesh`.** The agent's belief is bounded by the table: who relies on a resource has its
row, unexpired by the *agent's* count (`ClaimsBacked`, `TasksBacked`); a call under way carries a
time that is past (`CallsOK`), so by it every lease looks at least as long as it is; a
fence told is at most the row's (`FencesBehind`, `FencesKnown`).

**`Backlog`.** A command takes the ledger, the worktree, the branch and the catalog one after
the other, and holds no lock from one to the next. What saves it is what each of its steps may
rely on (`Reliance`): a claim that has taken the row keeps it, since no other command frees a
row of a feature that is not claimed, and until it says so nobody has been told to work there,
so that a rollback, which takes down only what this claim has made, throws away nobody's
edits. An unclaim and a reopen need their feature to themselves (`Undisturbed`); that is the
assumption that the liberties drop. `NoDrift` follows from `SettledInv`: a feature is settled
in catalog, ledger and folder unless a claim or an unclaim is half way with it, or a failure
has left it so. `WipKept` counts catalog entries, which a claim writes last; what is bounded
at all times is the set that the claim counts under the ledger's lock, claimed features *and* rows (`WipInv`).

**Only model-checked**: liveness (out of reach of the prover: `EveryoneAnswered`, `Converges`,
`LoopsEnd`); and what a run finds when a liberty is taken.

## 6. Findings

Each is a disagreement between a sentence of the repository and the code, shown by a run.

- `folder_handmade`: a commit of a note that was made by hand and is not under version control
  yet is answered `SAVED` although only its audit event is sent; `changed()` leaves out
  every path that was untracked at `Begin` (`recover.go:160` against `README.md:53` of the engine).
- `halfclaim`: a claim whose catalog commit git refuses is rolled back in worktree, branch and
  ledger, but the catalog file it has just written still says `claimed`
  (`init_work_refined_backlog.py:279` against the comment at lines 224-229: "a failed claim
  leaves no half-state"). The entry counts against the limit, `claim --next` skips it, and the next command that
  commits the catalog publishes it.

Seen while modelling, and shown by a liberty (section 2.7) or a definition kept in no run (name it in
the cfg of the run of its module, and TLC refutes it):

- Between the copy of a hand-edited note (or the comparison that finds a file the save's own) and
  the `git checkout` or the removal that follows, a person saves the file once more; nobody looks
  again, and the second text is nowhere (`recover.go:300` to `307`, `373` and `386` to `390`, `407` to
  `419`, `640` to `643`; lines 311-315 say "Anything else may be a hand edit and is copied to
  quarantine first."). `PlaceFolder!NoTextLostEver`, 2 edits, no fault.
- A ship that waited for the lock through a promote which finalized the release and then failed
  merges, passes Gate 1, and fails when it asks for the catalog of a release that is no longer in
  progress; nothing resets the merge (`ship_current_work_to_release.py:305`;
  `docs/lifecycle.md:348` says "**Atomic rollback**: If Gate 1 fails or any error occurs, resets
  to `pre_sha`"). `ReleaseTrain!ShipIsAtomic`, 1 promote, no fault. A kill between the merge (269) and the result
  of Gate 1 (279) leaves the merge likewise, and untested; `HeadIsVerified` counts that as what stands.
- The Stop hook measures by the last usage of any assistant record, a subagent's or an all-zero
  one too; the mid-turn hook skips those (`handoff_usage.py:129`, `auto-handoff-midturn.py:236`; lines
  1-2 of the first say "one context measure and one set of Stop rules, so the mid-turn hook never
  promises a handoff the Stop hook will not run"). A session that was told to end its turn can be met by
  silence, and the Stop hook forgets a handoff although the session is over the threshold.
  `Handoff!EndIsHeardAlways`, also with Claude alone.
- With `AGY_AUTO_HANDOFF_NOTICES=1` and `CLAUDE_AUTO_HANDOFF_NOTICES=0` the mid-turn hook sends its
  notices and the Stop hook does not (`auto-handoff-midturn.py:292`, `auto-handoff-stop.py:335`): "end
  your turn" is answered by a claim guard or a drain notice that is only logged.
  `Handoff!EndIsHeardAlways`, also with `Strays = {}`.
- `promote_release.py:348-366` warns of a feature whose epic is missing and goes on;
  `docs/lifecycle.md:108` says "A missing epic-catalog entry refuses outright."
  (`EpicGate!MissingRefuses` with `drift`).
- A ship that waits for its gates while its release ends and the next one begins marks its
  feature shipped on the old version, aboard the new train (`ReleaseTrain!OnItsTrain` with `late_ship`).
- `_merged_release_head` returns, by its comment, "the release head that actually reached main"
  (`promote_release.py:758`), but prefers the head that promote pushed last. Where the request
  was merged by hand, a second promote with a failed fetch pushed again and was killed, that is a head which
  never merged: a feature that was shipped between the two is not put back, and is lost from
  every catalog (`ReleaseTrain!ImplementsDelivery` with `stale_push`, 1 feature, 2 faults).
- An unclaim reopens the entry whatever it says by then, also one that shipped meanwhile.
- Under Antigravity a compaction hides tasks that still run, and the order to relay "the last
  agent reported" can be given while one does (`Handoff!RelayIsSafe`).

Seen while modelling, in the text of the code alone:

- The finding `folder_handmade` has a second cause without any file made by hand: another place adds a note
  and deletes it again, and a process of this place is killed between the two, in the middle of
  `git merge`, so that the note is in the folder, untracked (`PlaceFolder` with `recall`:
  `SavedIsShared` and `NoHalfSave` fail).
- A claim that is killed between its ledger row and the catalog leaves a feature that cannot be
  claimed (the row), nor unclaimed or resumed (the entry is open).
- `gc --force`: one reason that may be overridden also passes the refusals after it.
- A text that a person writes into a tracked note *while* the operation of a save runs is
  swept into that save's commit.
- Mesh: `WON` prints `expires_in` as the whole lease, although it counts from before the wait;
  `mesh doctor` tells to run `mesh gc` for claims of dead agents, which releases only expired ones;
  one agent's acknowledgement hides a broadcast from all; there is no command to give a task back,
  though the stop guard says "or release it".

## 7. Not modelled

- `VaultSync`, `PlaceFolder`: file contents beyond identity, note formats, audit events, wording;
  the flag `UndoStarted` (not
  observable once an undo is repeated from the start); hand-made staged additions; files the
  engine keeps local to a place. The hub's daily allowance and the daemon's back-off counter:
  the hub may refuse and the daemon skip at any time, which covers every value of the counters.
- Release engine: `--direct` and repositories without origin; a death between a ship's two merges (it
  leaves the sync of main alone, untested as well); the flags that bypass a step
  (`--force-cleanup`, `--allow-stale-main`, `--no-sync-main`, `--keep`, `gc --force`); opening
  an epic while a release runs, and archiving one; the refusals of a collector that look at
  processes, locks and ignored files (they only refuse more); gate slots and gate cache;
  reports and guards.
- Mesh: `--force`, the table of agents, messages, ideas, events, the supervisor `mesh-run`.
- Handoff: the low-quota notice; how the transcript file is found and parsed, beyond what
  counts as shown, measured and claimed; the script that opens the new pane.
- Workflow runner, watcher, journal and proposals, worker dispatch, other tools: sections 1.2,
  1.3, 1.9 and 1.10.

## 8. Plan

In this order; each item is a module with its own instance, and theorems where noted.

1. `DispatchJobs`: slots, job records, resume, fallback, merge of isolated worktrees. Theorem:
   a job ends in one final state.
2. `GateSlots` and the gate cache: counting slots beside deaths; a key that covers what a gate reads.
3. `VaultFiles`: fingerprints, journal with rollback, proposals, capture ledger.
4. `HubDoor` and `DaemonBackoff`: allowance and back-off as numbers.
5. `WorkflowRun`: DAG order, crash and reload, parallel branches.
