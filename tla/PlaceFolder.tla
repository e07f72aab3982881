---------------------------- MODULE PlaceFolder ----------------------------
(***************************************************************************)
(* The files of one place: what Begin, Update, a save, Undo and Recover do *)
(* to the notes folder, file by file, while people write into the same     *)
(* folder with an editor and the process may die between any two steps.    *)
(*                                                                         *)
(* Three paths stand for the three ways a file is treated: a file that an  *)
(* operation changes (a record, the capture ledger), a file it adds, and a *)
(* file in the inbox. The hub is a tree that other places change and that  *)
(* takes or refuses this place's pushes; the protocol between places is    *)
(* the subject of VaultSync.                                               *)
(***************************************************************************)
EXTENDS Naturals, FiniteSets

CONSTANTS
    Liberties,   \* what people do beside the engine, see Writes
    Kinds,       \* the operations saves run
    MaxRetries,  \* Config.MaxRetries
    MaxSaves,    \* bound: saves
    MaxEdits,    \* bound: texts written by hand
    MaxForeign,  \* bound: commits of other places
    MaxFlying,   \* bound: pushes of this place under way
    MaxFaults    \* bound: deaths of the process and failing commands

ASSUME FolderAssumption ==
    /\ Liberties \subseteq {"create", "in_op", "late_drop", "recall"}
    /\ Kinds \subseteq {"commit", "capture", "ingest"}
    /\ MaxRetries \in Nat \ {0}
    /\ {MaxSaves, MaxEdits, MaxForeign, MaxFlying, MaxFaults} \subseteq Nat

Path == {"note", "added", "inbox"}

\* A text: who wrote it (a save, by its number), and which text of a person it
\* contains (0: none).
Text == [by : {"none", "base", "other", "op", "hand"}, n : Nat, has : Nat]
No       == [by |-> "none", n |-> 0, has |-> 0]  \* there is no file
Base     == [by |-> "base", n |-> 0, has |-> 0]
Other(i) == [by |-> "other", n |-> i, has |-> 0]
Hand(i)  == [by |-> "hand", n |-> i, has |-> i]
ByOp(k, i) == [by |-> "op", n |-> k, has |-> i]

Tree == [Path -> Text]
Files(t) == {<<f, t[f]>> : f \in {g \in DOMAIN t : t[g] # No}}
Differs(t, u) == {f \in Path : t[f] # u[f]}

VARIABLES
    hub,         \* [ver, tree]: the tip of the hub's main line
    past,        \* path and text of every file that was ever on that main line
    flying,      \* this place's pushes that can still land: [id, tree]
    head,        \* [ver, tree, own]: HEAD; own # 0: a commit ahead of version ver
    remote,      \* [ver, tree]: remote-tracking ref
    landed,      \* has the hub taken the own commit?
    disk,        \* the files in the folder
    marker,      \* save-in-progress.json
    quarantine,  \* _quarantine/<place>/: path and text
    proc,        \* the holder of the folder lock: pc and locals
    owed,        \* texts of people that nobody but a person may remove
    exposed,     \* those among the texts of people that were written in a gap
    told,        \* path and text of what saves wrote that were answered SAVED
    edits, foreign, saves, faults

vars == <<hub, past, flying, head, remote, landed, disk, marker, quarantine,
          proc, owed, exposed, told, edits, foreign, saves, faults>>
hubVars == <<hub, past, flying, landed, foreign>>
handVars == <<owed, exposed, edits>>
countVars == <<told, saves, faults>>

NoMarker == [op |-> "none", ver |-> 0, tree |-> [f \in Path |-> No],
             untracked |-> {}, dirty |-> [f \in {} |-> No]]

Free == [pc |-> "idle", kind |-> "none", try |-> 1, load |-> "none", fp |-> No,
         mine |-> {}, sweep |-> FALSE, pre |-> [f \in Path |-> No],
         todo |-> {}, kept |-> "none", then |-> "none"]

At(pc) == proc.pc = pc
Go(pc) == proc' = [proc EXCEPT !.pc = pc]

(***************************************************************************)
(* git status, relative to HEAD. The index follows HEAD at every point     *)
(* where status is asked.                                                  *)
(***************************************************************************)
Tracked(f)   == head.tree[f] # No
Changed(f)   == Tracked(f) /\ disk[f] # head.tree[f]
Untracked(f) == ~Tracked(f) /\ disk[f] # No
Differing    == {f \in Path : Changed(f) \/ Untracked(f)}

Init ==
    /\ \E t \in {Base, No} :
         hub = [ver |-> 0, tree |-> [f \in Path |-> IF f = "note" THEN t ELSE No]]
    /\ past = Files(hub.tree) /\ flying = {}
    /\ head = [ver |-> 0, tree |-> hub.tree, own |-> 0]
    /\ remote = hub
    /\ landed = FALSE
    /\ disk = hub.tree
    /\ marker = NoMarker /\ quarantine = {}
    /\ proc = Free
    /\ owed = {} /\ exposed = {} /\ told = {}
    /\ edits = 0 /\ foreign = 0 /\ saves = 0 /\ faults = 0

(***************************************************************************)
(* People, other places, the hub                                           *)
(***************************************************************************)
\* The gap: the engine has copied a file, or has found it to be the save's own,
\* and git or the engine is about to put it back without looking again; of a
\* merge, all files that git has found clean and has not written yet.
InHand(f) == proc.kept = f \/ (At("merging") /\ f \in proc.todo)

\* An operation writes, or what it wrote is listed but is not proven by a commit.
OpUnproven ==
    \/ proc.pc \in {"run", "ran", "written", "ready"}
    \/ At("reset") /\ ~proc.sweep /\ head.own = 0
    \/ At("undo") /\ ~proc.sweep /\ proc.load # "committed"

\* A person writes a file with an editor, over whatever is there, at any time
\* but for three things, each a liberty of its own: to create a note outside
\* the inbox, to write while the engine cannot tell an operation's texts from
\* others, and to put a file into the inbox after an ingest looked for it. A
\* text that is written in a gap is exposed: the engine will write over it.
Writes(f) ==
    /\ edits < MaxEdits
    /\ disk[f] = No /\ f # "inbox" => "create" \in Liberties
    /\ OpUnproven => "in_op" \in Liberties
    /\ At("op") /\ disk[f] = No => "late_drop" \in Liberties
    /\ edits' = edits + 1
    /\ disk' = [disk EXCEPT ![f] = Hand(edits')]
    /\ owed' = (owed \ {disk[f].has}) \cup (IF InHand(f) THEN {} ELSE {edits'})
    /\ exposed' = (exposed \ {disk[f].has}) \cup (IF InHand(f) THEN {edits'} ELSE {})
    /\ UNCHANGED <<hubVars, head, remote, marker, quarantine, proc, countVars>>

\* The main line moves on: no push that was made for the old tip can land.
HubMoves(t) ==
    /\ hub' = [ver |-> hub.ver + 1, tree |-> t]
    /\ past' = past \cup Files(t)
    /\ flying' = {}

\* Another place saves: it adds, changes or deletes a file; it is a liberty to
\* delete a note that operations change before this place got it.
ForeignCommit(f) ==
    /\ foreign < MaxForeign
    /\ foreign' = foreign + 1
    /\ \E t \in {Other(foreign'), No} \ {hub.tree[f]} :
         /\ t = No /\ ~Tracked(f) /\ f = "note" => "recall" \in Liberties
         /\ HubMoves([hub.tree EXCEPT ![f] = t])
    /\ UNCHANGED <<landed, head, remote, disk, marker, quarantine, proc, handVars, countVars>>

\* A push is taken, also when this place has undone its commit meanwhile.
Lands(r) ==
    /\ HubMoves(r.tree)
    /\ landed' = (head.own = r.id)
    /\ UNCHANGED <<foreign, head, remote, disk, marker, quarantine, proc, handVars, countVars>>

Lost(r) ==
    /\ flying' = flying \ {r}
    /\ UNCHANGED <<hub, past, landed, foreign, head, remote, disk, marker, quarantine,
                   proc, handVars, countVars>>

\* The process dies, or gives up where the code undoes nothing.
Stops ==
    /\ ~At("idle") /\ faults < MaxFaults
    /\ faults' = faults + 1
    /\ proc' = Free
    /\ UNCHANGED <<hubVars, head, remote, disk, marker, quarantine, handVars, told, saves>>

(***************************************************************************)
(* The marker                                                              *)
(***************************************************************************)
\* Begin: the texts of changed notes are copied first, then the marker says
\* where the folder stood and which files were not this operation's.
Begin(op) ==
    LET dirty == {f \in Path : Changed(f)}
    IN  /\ quarantine' = quarantine \cup {<<f, disk[f]>> : f \in {g \in dirty : disk[g] # No}}
        /\ marker' = [op |-> op, ver |-> head.ver, tree |-> head.tree,
                      untracked |-> {f \in Path : Untracked(f)},
                      dirty |-> [f \in dirty |-> disk[f]]]

End == marker' = NoMarker

UnchangedSinceBegin(f) == f \in DOMAIN marker.dirty /\ disk[f] = marker.dirty[f]

\* (mutants) Edits that were there at Begin are sent, or are never sent.
WrittenWithEdits == {f \in Differing : Untracked(f) => f \notin marker.untracked \cup {"inbox"}}
WrittenIfClean == {f \in Differing : /\ f \notin DOMAIN marker.dirty
                                     /\ Untracked(f) => f \notin marker.untracked \cup {"inbox"}}

\* changed: what the operation wrote, as far as the folder can tell.
Written == {f \in Differing : /\ ~UnchangedSinceBegin(f)
                              /\ Untracked(f) => f \notin marker.untracked \cup {"inbox"}}

(***************************************************************************)
(* setAside: a copy in quarantine, or a move into it. A file is put back,  *)
(* or removed, in two steps: it is copied, or compared and found to be the *)
(* save's own, and then another command writes over it.                    *)
(***************************************************************************)
Keeps(f) ==
    /\ proc.kept = "none"
    /\ quarantine' = quarantine \cup Files([g \in {f} |-> disk[g]])
    /\ proc' = [proc EXCEPT !.kept = f]
    /\ UNCHANGED <<hubVars, head, remote, disk, marker, handVars, countVars>>

FindsOwn(f) ==
    /\ proc.kept = "none"
    /\ proc' = [proc EXCEPT !.kept = f]
    /\ UNCHANGED <<hubVars, head, remote, disk, marker, quarantine, handVars, countVars>>

PutsBack(f) ==
    /\ disk' = [disk EXCEPT ![f] = head.tree[f]]
    /\ proc' = [proc EXCEPT !.kept = "none", !.todo = @ \ {f}]
    /\ UNCHANGED <<hubVars, head, remote, marker, quarantine, handVars, countVars>>

MovesAway(f) ==
    /\ quarantine' = quarantine \cup Files([g \in {f} |-> disk[g]])
    /\ disk' = [disk EXCEPT ![f] = No]
    /\ proc' = [proc EXCEPT !.todo = @ \ {f}]
    /\ UNCHANGED <<hubVars, head, remote, marker, handVars, countVars>>

PutsBackKept == proc.kept # "none" /\ PutsBack(proc.kept)

(***************************************************************************)
(* Taking the folder lock, and Recover                                     *)
(***************************************************************************)
\* A save names the text it read. A pass of the daemon comes when something is
\* new, changed, waiting or left over.
TakesLock(kind) ==
    /\ At("idle")
    /\ IF kind = "daemon"
       THEN /\ hub.ver # head.ver \/ head.own # 0 \/ marker # NoMarker \/ Differing # {}
            /\ UNCHANGED saves
       ELSE saves < MaxSaves /\ saves' = saves + 1
    /\ proc' = [Free EXCEPT !.pc = "recover", !.kind = kind, !.fp = disk["note"]]
    /\ UNCHANGED <<hubVars, head, remote, disk, marker, quarantine, handVars, told, faults>>

\* No marker: notes changed by hand are put back, their texts kept.
Cleanses(f) == At("recover") /\ marker = NoMarker /\ Changed(f) /\ Keeps(f)

Cleansed ==
    /\ At("recover") /\ marker = NoMarker
    /\ proc.kept = "none" /\ \A f \in Path : ~Changed(f)
    /\ Go("update")
    /\ UNCHANGED <<hubVars, head, remote, disk, marker, quarantine, handVars, countVars>>

UndoWith(mine, sweep, then) ==
    proc' = [proc EXCEPT !.pc = "reset", !.mine = mine, !.sweep = sweep, !.then = then]

FetchHub == remote' = hub

\* (mutant) Nothing was committed, so nothing is put back.
RecoverUncommittedForgets ==
    /\ At("recover") /\ marker # NoMarker
    /\ head.own = 0 /\ head.ver = marker.ver
    /\ End /\ Go("update")
    /\ UNCHANGED <<hubVars, head, remote, disk, quarantine, handVars, countVars>>

RecoverUncommitted ==
    /\ At("recover") /\ marker # NoMarker
    /\ head.own = 0 /\ head.ver = marker.ver
    /\ UndoWith({}, TRUE, "update")
    /\ UNCHANGED <<hubVars, head, remote, disk, marker, quarantine, handVars, countVars>>

\* The own commit is on the main line: it is version ver + 1.
Settled == [ver |-> head.ver + 1, tree |-> head.tree, own |-> 0]

\* HEAD is not the base: an update got through or the own commit was made. What
\* the hub has is done; otherwise the commit proves what the save wrote.
RecoverCommitted ==
    /\ At("recover") /\ marker # NoMarker
    /\ head.own # 0 \/ head.ver # marker.ver
    /\ FetchHub
    /\ \/ head.own = 0 /\ End /\ Go("update") /\ UNCHANGED <<head, landed>>
       \/ head.own # 0 /\ landed /\ End /\ Go("update") /\ head' = Settled /\ landed' = FALSE
       \/ /\ head.own # 0 /\ ~landed
          /\ UndoWith(Differs(head.tree, marker.tree), TRUE, "update")
          /\ UNCHANGED <<marker, head, landed>>
    /\ UNCHANGED <<hub, past, flying, foreign, disk, quarantine, handVars, countVars>>

(***************************************************************************)
(* undo: the folder is put back to the marker's base, file by file         *)
(***************************************************************************)
\* reset --mixed. The own commit, the proof, is only known to this pass now.
Resets ==
    /\ At("reset")
    /\ head' = [ver |-> marker.ver, tree |-> marker.tree, own |-> 0]
    /\ landed' = FALSE
    /\ proc' = [proc EXCEPT !.pc = "undo",
                            !.pre = IF head.own # 0 THEN head.tree ELSE [f \in Path |-> No],
                            !.load = IF head.own # 0 THEN "committed" ELSE "uncommitted",
                            !.todo = Differs(disk, marker.tree)]
    /\ UNCHANGED <<hub, past, flying, foreign, remote, disk, marker, quarantine, handVars, countVars>>

Committed == proc.load = "committed"
Undoes(f) == At("undo") /\ f \in proc.todo /\ proc.kept = "none"

\* (mutant) What was committed is not compared with what is there.
ProvenByList(f) ==
    /\ f \notin DOMAIN marker.dirty
    /\ IF marker.op = "update" THEN disk[f] = remote.tree[f] ELSE ~proc.sweep /\ f \in proc.mine

\* Is the text of a tracked note proven to be the save's own?
Proven(f) ==
    /\ f \notin DOMAIN marker.dirty
    /\ IF marker.op = "update" THEN disk[f] = remote.tree[f]
       ELSE /\ ~proc.sweep /\ f \in proc.mine
            /\ Committed => disk[f] = proc.pre[f]

UndoesNote(f) ==
    /\ Undoes(f) /\ Tracked(f) /\ ~UnchangedSinceBegin(f)
    /\ IF Proven(f) THEN FindsOwn(f) ELSE Keeps(f)

\* An edit that was there at Begin, an inbox file and, after an update, any
\* untracked file stay as they are.
Leaves(f) ==
    /\ Undoes(f)
    /\ \/ Tracked(f) /\ UnchangedSinceBegin(f)
       \/ ~Tracked(f) /\ f = "inbox"
       \/ ~Tracked(f) /\ f \notin proc.mine /\ (~proc.sweep \/ marker.op = "update")
    /\ proc' = [proc EXCEPT !.todo = @ \ {f}]
    /\ UNCHANGED <<hubVars, head, remote, disk, marker, quarantine, handVars, countVars>>

\* A file that is not proven to be the save's own is moved, never removed.
Doubtful(f) ==
    IF f \in proc.mine
    THEN f \in marker.untracked \/ (Committed /\ proc.pre[f] # No /\ disk[f] # proc.pre[f])
    ELSE proc.sweep /\ marker.op # "update"

UndoesFile(f) ==
    /\ Undoes(f) /\ ~Tracked(f) /\ f # "inbox"
    /\ \/ Doubtful(f) /\ MovesAway(f)
       \/ ~Doubtful(f) /\ f \in proc.mine /\ FindsOwn(f)

\* A lost race is tried again; otherwise the command ends with its last line.
EndsUndo ==
    /\ At("undo") /\ proc.todo = {} /\ proc.kept = "none"
    /\ End
    /\ proc' = CASE proc.then = "update" ->
                      [Free EXCEPT !.pc = "update", !.kind = proc.kind, !.fp = proc.fp]
                 [] proc.then = "retry" /\ proc.try < MaxRetries ->
                      [Free EXCEPT !.pc = "update", !.kind = proc.kind, !.fp = proc.fp,
                                   !.try = proc.try + 1]
                 [] OTHER -> Free
    /\ UNCHANGED <<hubVars, head, remote, disk, quarantine, handVars, countVars>>

(***************************************************************************)
(* Update                                                                  *)
(***************************************************************************)
Touched == Differs(head.tree, remote.tree)

UpdateStarts ==
    /\ At("update")
    /\ FetchHub
    /\ IF head.ver = hub.ver
       THEN Go("attempt") /\ UNCHANGED <<marker, quarantine>>
       ELSE Begin("update") /\ Go("touch")
    /\ UNCHANGED <<hubVars, head, disk, handVars, countVars>>

\* An edited note that the incoming version touches is put back first; an
\* untracked file with an incoming name is dropped if it is the same text and
\* moved away if it is not.
ClearsNote(f) == At("touch") /\ f \in Touched /\ Changed(f) /\ Keeps(f)

ClearsFile(f) ==
    /\ At("touch") /\ proc.kept = "none"
    /\ f \in Touched /\ Untracked(f)
    /\ IF disk[f] = remote.tree[f] THEN FindsOwn(f) ELSE MovesAway(f)

\* merge --ff-only refuses to write over what is not clean (a file written
\* since it was looked at): the marker stays.
Merges ==
    /\ At("touch") /\ proc.kept = "none"
    /\ \/ Touched \cap Differing = {}
          /\ proc' = [proc EXCEPT !.pc = "merging", !.todo = Touched]
       \/ Touched \cap Differing # {} /\ proc' = Free
    /\ UNCHANGED <<hubVars, head, remote, disk, marker, quarantine, handVars, countVars>>

MergesFile(f) ==
    /\ At("merging") /\ f \in proc.todo
    /\ disk' = [disk EXCEPT ![f] = remote.tree[f]]
    /\ proc' = [proc EXCEPT !.todo = @ \ {f}]
    /\ UNCHANGED <<hubVars, head, remote, marker, quarantine, handVars, countVars>>

Merged ==
    /\ At("merging") /\ proc.todo = {}
    /\ head' = [ver |-> remote.ver, tree |-> remote.tree, own |-> 0]
    /\ Go("merged")
    /\ UNCHANGED <<hubVars, remote, disk, marker, quarantine, handVars, countVars>>

UpdateEnds ==
    /\ At("merged")
    /\ End /\ Go("attempt")
    /\ UNCHANGED <<hubVars, head, remote, disk, quarantine, handVars, countVars>>

(***************************************************************************)
(* One attempt                                                             *)
(***************************************************************************)
\* The daemon moves quiet files it did not make out of the folder.
SetsAsideStray(f) ==
    /\ At("attempt") /\ proc.kind = "daemon" /\ f # "inbox" /\ Untracked(f)
    /\ MovesAway(f)

\* The daemon, and an ingest for its source, send an inbox file first.
SendsDrop ==
    /\ At("attempt") /\ proc.kind \in {"daemon", "ingest"}
    /\ Untracked("inbox") /\ marker = NoMarker
    /\ Begin("inbox")
    /\ proc' = [proc EXCEPT !.pc = "ready", !.load = "inbox", !.mine = {"inbox"}]
    /\ UNCHANGED <<hubVars, head, remote, disk, handVars, countVars>>

NoDrop ==
    /\ At("attempt")
    /\ \/ proc.kind = "daemon" /\ proc' = Free
       \/ proc.kind \in {"commit", "capture"} /\ Go("op")
       \/ proc.kind = "ingest" /\ ~Untracked("inbox") /\ Go("op")
    /\ UNCHANGED <<hubVars, head, remote, disk, marker, quarantine, handVars, countVars>>

BeginsOp ==
    /\ At("op") /\ marker = NoMarker
    /\ Begin("op")
    /\ proc' = [proc EXCEPT !.pc = "run", !.load = "op", !.mine = {}]
    /\ UNCHANGED <<hubVars, head, remote, disk, handVars, countVars>>

\* The operation returns an error before it writes: the text is not the one its
\* caller read, the source is gone, the input is not valid, a guard is held.
OpFails ==
    /\ At("run")
    /\ UndoWith({}, TRUE, "end")
    /\ UNCHANGED <<hubVars, head, remote, disk, marker, quarantine, handVars, countVars>>

\* The files an operation writes, in order.
FirstWrite ==
    CASE proc.kind = "commit"  -> <<"note", ByOp(saves, disk["note"].has)>>
      [] proc.kind = "capture" -> <<"added", ByOp(saves, 0)>>
      [] proc.kind = "ingest"  -> <<"added", ByOp(saves, disk["inbox"].has)>>
LastWrite ==
    CASE proc.kind = "commit"  -> <<"added", ByOp(saves, 0)>>
      [] proc.kind = "capture" -> <<"note", ByOp(saves, disk["note"].has)>>
      [] proc.kind = "ingest"  -> <<"inbox", No>>

\* New files get names that no file has: where "added" is taken, the new file
\* is one that is not modelled (of an ingest, which is all it writes: not run).
Write(w) == disk' = IF w[1] = "added" /\ disk["added"] # No THEN disk
                    ELSE [disk EXCEPT ![w[1]] = w[2]]

\* CommitRecord wants the text its caller read, IngestFile its source.
OpWrites ==
    /\ At("run")
    /\ proc.kind = "commit" => disk["note"] # No /\ disk["note"] = proc.fp
    /\ proc.kind = "ingest" => disk["inbox"] # No /\ disk["added"] = No
    /\ Write(FirstWrite)
    /\ Go("ran")
    /\ UNCHANGED <<hubVars, head, remote, marker, quarantine, handVars, countVars>>

OpEnds ==
    /\ At("ran")
    /\ Write(LastWrite)
    /\ Go("written")
    /\ UNCHANGED <<hubVars, head, remote, marker, quarantine, handVars, countVars>>

\* A write fails half-way.
OpBreaks ==
    /\ At("ran") /\ faults < MaxFaults
    /\ faults' = faults + 1
    /\ UndoWith({}, TRUE, "end")
    /\ UNCHANGED <<hubVars, head, remote, disk, marker, quarantine, handVars, told, saves>>

\* What this save wrote, as far as it still lies in the folder.
OwnTexts == {x \in Files(disk) : x[2].by = "op" /\ x[2].n = saves}

\* Nothing changed: the answer is SAVED. Otherwise the list of written files is
\* made, and a limit refuses the save or it is committed.
ListsWritten ==
    /\ At("written")
    /\ \/ Written = {} /\ End /\ proc' = Free /\ told' = told \cup OwnTexts
       \/ /\ Written # {} /\ UNCHANGED <<marker, told>>
          /\ \/ proc' = [proc EXCEPT !.pc = "ready", !.mine = Written]
             \/ UndoWith(Written, FALSE, "end")
    /\ UNCHANGED <<hubVars, head, remote, disk, quarantine, handVars, saves, faults>>

(***************************************************************************)
(* record                                                                  *)
(***************************************************************************)
\* An id no push under way has: commits made at different times differ.
FreshId == CHOOSE i \in 1..(Cardinality(flying) + 1) : \A r \in flying : r.id # i

\* Commit records exactly the listed files, as they are now.
Commits ==
    /\ At("ready")
    /\ head' = [head EXCEPT !.tree = [f \in Path |-> IF f \in proc.mine THEN disk[f] ELSE @[f]],
                            !.own = FreshId]
    /\ landed' = FALSE
    /\ Go("push")
    /\ UNCHANGED <<hub, past, flying, foreign, remote, disk, marker, quarantine, handVars, countVars>>

CommitFails ==
    /\ At("ready") /\ faults < MaxFaults
    /\ faults' = faults + 1
    /\ UndoWith(proc.mine, FALSE, "end")
    /\ UNCHANGED <<hubVars, head, remote, disk, marker, quarantine, handVars, told, saves>>

Pushes ==
    /\ At("push")
    /\ IF hub.ver = head.ver
       THEN Cardinality(flying) < MaxFlying /\ flying' = flying \cup {[id |-> head.own, tree |-> head.tree]} /\ Go("wait")
       ELSE UndoWith(proc.mine, FALSE, "retry") /\ UNCHANGED flying
    /\ UNCHANGED <<hub, past, landed, foreign, head, remote, disk, marker, quarantine,
                   handVars, countVars>>

\* The hub has the commit: an ingest goes on to its operation, others end. (The
\* remote-tracking ref, set by the answer or by asking the hub, is not read
\* again before the next fetch.)
SendOK ==
    /\ At("wait") /\ landed
    /\ head' = Settled /\ landed' = FALSE
    /\ End
    /\ IF proc.load = "inbox" /\ proc.kind = "ingest" THEN Go("op") ELSE proc' = Free
    /\ told' = IF proc.load = "op" THEN told \cup OwnTexts ELSE told
    /\ FetchHub
    /\ UNCHANGED <<hub, past, flying, foreign, disk, quarantine, handVars, saves, faults>>

\* The hub moved without the commit, so it can never be taken.
LosesRace ==
    /\ At("wait") /\ ~landed /\ hub.ver # head.ver
    /\ UndoWith(proc.mine, FALSE, "retry")
    /\ FetchHub
    /\ UNCHANGED <<hubVars, head, disk, marker, quarantine, handVars, countVars>>

IsRefused(r) ==
    /\ At("wait") /\ r.id = head.own
    /\ flying' = flying \ {r}
    /\ UndoWith(proc.mine, FALSE, "end")
    /\ UNCHANGED <<hub, past, landed, foreign, head, remote, disk, marker, quarantine,
                   handVars, countVars>>

\* Unconfirmed, and the hub did not move: the marker and the commit stay.
StaysUnsettled ==
    /\ At("wait") /\ ~landed /\ hub.ver = head.ver
    /\ FetchHub
    /\ proc' = Free
    /\ UNCHANGED <<hubVars, head, disk, marker, quarantine, handVars, countVars>>

\* Nobody is at work and no more saves come.
AtRest == At("idle") /\ saves = MaxSaves /\ UNCHANGED vars

Next ==
    \/ AtRest
    \/ \E f \in Path : \/ Writes(f) \/ ForeignCommit(f)
                       \/ Cleanses(f) \/ UndoesNote(f) \/ Leaves(f) \/ UndoesFile(f)
                       \/ ClearsNote(f) \/ ClearsFile(f) \/ MergesFile(f) \/ SetsAsideStray(f)
    \/ \E kind \in Kinds \cup {"daemon"} : TakesLock(kind)
    \/ \E r \in flying : Lands(r) \/ Lost(r) \/ IsRefused(r)
    \/ PutsBackKept \/ Cleansed \/ RecoverUncommitted \/ RecoverCommitted
    \/ Resets \/ EndsUndo \/ UpdateStarts \/ Merges \/ Merged \/ UpdateEnds
    \/ SendsDrop \/ NoDrop \/ BeginsOp \/ OpFails \/ OpWrites \/ OpEnds \/ OpBreaks
    \/ ListsWritten \/ Commits \/ CommitFails \/ Pushes
    \/ SendOK \/ LosesRace \/ StaysUnsettled \/ Stops

Spec == Init /\ [][Next]_vars

(***************************************************************************)
(* Properties                                                              *)
(***************************************************************************)
Pcs == {"idle", "recover", "reset", "undo", "update", "touch", "merging", "merged",
        "attempt", "op", "run", "ran", "written", "ready", "push", "wait"}

\* Every variable has its type; no save is tried more than MaxRetries times.
TypeOK ==
    /\ hub \in [ver : Nat, tree : Tree] /\ remote \in [ver : Nat, tree : Tree]
    /\ head \in [ver : Nat, tree : Tree, own : Nat]
    /\ flying \subseteq [id : Nat, tree : Tree]
    /\ past \subseteq Path \X Text /\ quarantine \subseteq Path \X Text
    /\ disk \in Tree /\ landed \in BOOLEAN
    /\ marker.op \in {"none", "update", "inbox", "op"} /\ marker.ver \in Nat
    /\ marker.tree \in Tree /\ marker.untracked \subseteq Path
    /\ DOMAIN marker.dirty \subseteq Path
    /\ proc.pc \in Pcs /\ proc.kind \in Kinds \cup {"none", "daemon"}
    /\ proc.try \in 1..MaxRetries
    /\ proc.mine \subseteq Path /\ proc.todo \subseteq Path /\ proc.kept \in Path \cup {"none"}
    /\ proc.pre \in Tree /\ proc.fp \in Text /\ proc.sweep \in BOOLEAN
    /\ owed \subseteq 1..edits /\ exposed \subseteq (1..edits) \ owed

\* In the folder, in quarantine, or in the shared history, alone or inside a
\* text that an operation made of it.
IsKept(i) == \/ \E f \in Path : disk[f].has = i
             \/ \E x \in quarantine \cup past : x[2].has = i

\* What a person wrote, and did not write over, is kept, unless it was written in
\* a gap: between the last look of the engine at this very file (its copy, its
\* comparison, the check of a merge) and the command that puts the file back. A
\* text written there costs no other text.
NoTextLost == \A i \in owed : IsKept(i)

\* What is said of hand edits without exception: what is not proven to be the
\* save's own is copied first. Not so of a text that is written in a gap.
NoTextLostEver == \A i \in owed \cup exposed : IsKept(i)

\* A text that a person wrote outside the inbox is never sent as it stands: a
\* save records exactly the files its operation wrote.
OnlyInboxIsSent == \A x \in past : x[2].by = "hand" => x[1] = "inbox"

\* A save that is answered SAVED: all it wrote is in the shared history.
SavedIsShared == told \subseteq past

\* When nobody works in the folder and no save is unsettled, all that any
\* operation wrote and that is still in the folder is in the shared history: no
\* save leaves a half, whichever way it ended.
NoHalfSave ==
    At("idle") /\ marker = NoMarker =>
        \A f \in Path : disk[f].by = "op" => <<f, disk[f]>> \in past
=============================================================================
