------------------------- MODULE PlaceFolder_proofs -------------------------
(***************************************************************************)
(* The folder of one place, proved for any number of saves, edits by hand, *)
(* commits of other places, pushes under way and deaths of the process.    *)
(*                                                                         *)
(* Two invariants. The first says where a process stands between its marker*)
(* and its commit, and that whatever it may write over next is safe: it    *)
(* needs that nobody writes while the engine cannot tell an operation's    *)
(* texts from others. From it: no text of a person is lost, and none is    *)
(* sent that was not dropped into the inbox.                               *)
(* The second says of every text of an operation that it is committed,     *)
(* about to be, or about to be undone: it needs that nobody creates notes  *)
(* by hand and that no place deletes a note others have not received.      *)
(* From it: what a save that is answered SAVED wrote is in the shared      *)
(* history, and no save leaves a half of what it wrote.                    *)
(***************************************************************************)
EXTENDS PlaceFolder, FiniteSetTheorems, TLAPS

(***************************************************************************)
(* The first invariant: where a process stands, and what it may put back   *)
(***************************************************************************)
AnyTip == [ver : Nat, tree : Tree]
AnyProc == [pc : Pcs, kind : Kinds \cup {"none", "daemon"}, try : 1..MaxRetries,
            load : {"none", "op", "inbox", "committed", "uncommitted"}, fp : Text,
            mine : SUBSET Path, sweep : BOOLEAN, pre : Tree, todo : SUBSET Path,
            kept : Path \cup {"none"}, then : {"none", "update", "retry", "end"}]

IsMarker(m) ==
    /\ m.op \in {"none", "update", "inbox", "op"} /\ m.ver \in Nat /\ m.tree \in Tree
    /\ m.untracked \subseteq Path
    /\ DOMAIN m.dirty \subseteq Path /\ \A f \in DOMAIN m.dirty : m.dirty[f] \in Text

Shape ==
    /\ hub \in AnyTip /\ remote \in AnyTip
    /\ head \in [ver : Nat, tree : Tree, own : Nat]
    /\ flying \subseteq [id : Nat, tree : Tree] /\ IsFiniteSet(flying)
    /\ past \subseteq Path \X Text /\ quarantine \subseteq Path \X Text
    /\ told \subseteq Path \X Text
    /\ disk \in Tree /\ landed \in BOOLEAN
    /\ IsMarker(marker) /\ proc \in AnyProc
    /\ edits \in Nat /\ foreign \in Nat /\ saves \in Nat /\ faults \in Nat
    /\ owed \subseteq 1..edits /\ exposed \subseteq (1..edits) \ owed

\* Who is about to write is a save that is modelled.
OpKind == proc.pc \in {"op", "run", "ran"} => proc.kind \in {"commit", "capture", "ingest"}

\* What the holder of the lock knows of marker and commit, by where it stands.
Idle == {"idle", "recover"}
Working == {"run", "ran", "written"}
Sending == {"push", "wait"}
Undoing == {"reset", "undo"}
OfSave == {"op", "inbox"}

StageOK ==
    /\ proc.pc \in {"update", "attempt", "op"} => marker = NoMarker /\ head.own = 0
    /\ proc.pc \in {"touch", "merging", "merged"} => marker.op = "update" /\ head.own = 0
    /\ proc.pc \in Working => proc.load = "op"
    /\ proc.pc \in Working \cup {"ready"} =>
         /\ proc.load \in OfSave /\ marker.op = proc.load
         /\ head.own = 0 /\ head.tree = marker.tree
    /\ proc.pc \in Sending =>
         /\ proc.load \in OfSave /\ marker.op = proc.load
         /\ head.own # 0 /\ proc.mine = Differs(head.tree, marker.tree)
         /\ proc.load = "inbox" => proc.mine = {"inbox"}
    /\ At("reset") => /\ marker.op # "none"
                      /\ head.own # 0 => proc.mine = Differs(head.tree, marker.tree)
                      /\ head.own = 0 /\ proc.sweep => proc.mine = {}
    /\ At("undo") =>
         /\ head.own = 0 /\ head.tree = marker.tree
         /\ Committed => proc.mine = Differs(proc.pre, marker.tree)
         /\ ~Committed /\ proc.sweep => proc.mine = {}
    /\ proc.pc \in Undoing /\ ~proc.sweep => marker.op \in OfSave
    /\ head.own # 0 => marker.op \in OfSave
    /\ marker.op = "inbox" => marker.tree["inbox"] = No
    /\ marker.op = "none" => marker = NoMarker
    /\ \A f \in marker.untracked : marker.tree[f] = No
    /\ proc.kept # "none" => \/ At("undo") \/ At("touch")
                             \/ At("recover") /\ marker = NoMarker

\* A text with nothing of a person in it, or with a text that is kept elsewhere.
SafeText(t) == t.has = 0 \/ \E x \in quarantine \cup past : x[2].has = t.has

\* A text of a person that nobody owes: written over by a person or, as what is
\* in hand may be, written in a gap.
Exempt(t) == t.has \in (1..edits) \ owed

\* An inbox file stays in the folder when its commit is undone.
OwnDrop(f) == f = "inbox" /\ marker.tree[f] = No

\* Whatever a process may write over is safe when it does: the file it has just
\* copied, the files it merges, the source an ingest removes, what its operation
\* wrote over, what it committed, and what an undo takes for its own.
KeptOK == proc.kept # "none" => SafeText(disk[proc.kept]) \/ Exempt(disk[proc.kept])

MergeOK == At("merging") => \A f \in proc.todo : disk[f] = head.tree[f] \/ Exempt(disk[f])

SourceOK ==
    /\ At("op") /\ proc.kind = "ingest" => ~Untracked("inbox")
    /\ proc.pc \in {"run", "ran"} /\ proc.kind = "ingest" => "inbox" \notin marker.untracked

WrittenOK ==
    proc.pc \in Working \/ (At("ready") /\ proc.load = "op") =>
        \A f \in Path \ marker.untracked : SafeText(disk[f])

ListedOK ==
    At("ready") => /\ proc.mine \subseteq Differing
                   /\ proc.load = "op" => proc.mine \cap marker.untracked = {}
                   /\ proc.load = "inbox" => proc.mine = {"inbox"}

OwnOK == head.own # 0 => \A f \in Path : OwnDrop(f) \/ SafeText(head.tree[f])

UndoOK ==
    /\ At("reset") /\ head.own = 0 => \A f \in proc.mine : OwnDrop(f) \/ SafeText(disk[f])
    /\ At("undo") => \A f \in proc.mine :
         OwnDrop(f) \/ SafeText(IF Committed THEN proc.pre[f] ELSE disk[f])

SafeOK == KeptOK /\ MergeOK /\ SourceOK /\ WrittenOK /\ ListedOK /\ OwnOK /\ UndoOK

Shared(t) == Files(t) \subseteq past

\* Every tree but that of the own commit is in the shared history, and that one
\* is once the hub has taken it.
HistoryOK ==
    /\ Shared(hub.tree) /\ Shared(remote.tree) /\ Shared(marker.tree)
    /\ head.own = 0 => Shared(head.tree)
    /\ landed => head.own # 0 /\ Shared(head.tree)
    /\ \A r \in flying : r.id # 0 /\ (r.id = head.own => r.tree = head.tree)

\* Who wrote what is sent.
NotByHand(t) == \A f \in Path : t[f].by = "hand" => f = "inbox"
Untouched(f) == UnchangedSinceBegin(f) \/ f \in marker.untracked \/ disk[f] = head.tree[f]

SentOK ==
    /\ OnlyInboxIsSent
    /\ \A r \in flying : NotByHand(r.tree)
    /\ proc.pc \in Working =>
         \A f \in Path : Untouched(f) \/ disk[f].by = "op" \/ f = "inbox"
    /\ At("ready") => \A f \in proc.mine : disk[f].by = "op" \/ f = "inbox"
    /\ head.own # 0 =>
         \A f \in Differs(head.tree, marker.tree) : head.tree[f].by = "op" \/ f = "inbox"

IInv == StageOK /\ SafeOK /\ HistoryOK /\ SentOK /\ NoTextLost

\* The engine has the folder to itself while it cannot tell its texts from others.
Guarded == {"in_op", "late_drop"} \cap Liberties = {}

(***************************************************************************)
(* The second invariant: what operations wrote is committed or undone      *)
(***************************************************************************)
\* A version has one tree. What the branch stands on is Base.
BaseTree == IF head.own = 0 THEN head.tree ELSE marker.tree
Known(ver, tree) == ver <= hub.ver /\ (ver = hub.ver => tree = hub.tree)

VersionsOK ==
    /\ Known(head.ver, BaseTree) /\ Known(remote.ver, remote.tree)
    /\ marker.op # "none" => Known(marker.ver, marker.tree)
    /\ marker.op \in OfSave => head.ver = marker.ver
    /\ marker.op # "none" /\ head.own = 0 /\ head.ver = marker.ver => head.tree = marker.tree
    /\ landed => Known(head.ver + 1, head.tree)
    /\ \A r \in flying : /\ r.id = head.own => hub.ver = head.ver
                         /\ \A f \in Path \ {"inbox"} : hub.tree[f] # No => r.tree[f] # No

\* A note that operations change and git does not know is one that an operation
\* writes, or one that an update left there: the hub has that one still.
Stray(f) == f = "note" /\ Untracked(f)
NoStray == \A f \in Path : ~Stray(f)
HubHas(f) == hub.tree[f] # No

StraysOK ==
    /\ (head.own = 0 /\ marker.op \in OfSave) \/ \A f \in Path : Stray(f) => HubHas(f)
    /\ head.own # 0 => NoStray
    /\ marker.op \in OfSave => "note" \notin marker.untracked
    /\ \A f \in DOMAIN marker.dirty : marker.tree[f] # No

\* A text of an operation that the shared history has. While no operation's
\* marker is there, every one is: no inbox file is an operation's.
Shown(f) == disk[f].by = "op" => <<f, disk[f]>> \in past

HalfOK ==
    /\ \A x \in past : x[1] = "inbox" => x[2].by # "op"
    /\ disk["inbox"].by # "op" /\ head.tree["inbox"].by # "op"
    /\ \A r \in flying : r.tree["inbox"].by # "op"
    /\ marker.op # "op" => \A f \in Path : Shown(f)
    /\ \A f \in marker.untracked : Shown(f)
    /\ \A f \in DOMAIN marker.dirty :
         marker.dirty[f].by = "op" => <<f, marker.dirty[f]>> \in past
    /\ head.own # 0 => \A f \in Path : disk[f] = head.tree[f] \/ Shown(f)

\* What of this a process knows where it stands.
UpdateOK ==
    /\ proc.pc \in {"touch", "merging"} =>
         /\ remote.ver # marker.ver
         /\ ~Tracked("note") =>
              /\ disk["note"] # No => remote.tree["note"] # No
              /\ remote.tree["note"] # No => HubHas("note")
    /\ At("merging") => \A f \in Touched \ ({"inbox"} \cup proc.todo) :
                          remote.tree[f] = No => disk[f] = No

AttemptOK ==
    /\ proc.pc \in {"merged", "attempt", "op", "run"} => NoStray
    /\ At("run") => \A f \in Path : Shown(f)
    /\ proc.pc \in {"run", "ran"} => \A f \in marker.untracked \ {"inbox"} : disk[f] # No
    /\ At("ready") => \A f \in Path \ proc.mine : ~Stray(f) /\ Shown(f)

\* A file that was not there at Begin and is not of the save.
Apart(f) == marker.tree[f] = No => Shown(f) /\ (f = "note" => disk[f] = No)

\* All that is not of the save is as it was, what is done is as it should be.
RestoreOK ==
    /\ At("reset") => head.ver = marker.ver
    /\ proc.pc \in Undoing /\ marker.op \in OfSave /\ ~proc.sweep =>
         \A f \in Path \ (proc.mine \cup {"inbox"}) : Apart(f)
    /\ At("undo") => \A f \in Path \ proc.todo :
                       Shown(f) /\ (marker.op \in OfSave => ~Stray(f))

JInv == /\ VersionsOK /\ StraysOK /\ HalfOK /\ SavedIsShared
        /\ UpdateOK /\ AttemptOK /\ RestoreOK

(***************************************************************************)
(* Lemmas about texts, trees and the holder of the lock                    *)
(***************************************************************************)
LEMMA Texts ==
    /\ No \in Text /\ No.has = 0 /\ No.by = "none" /\ No.n = 0
    /\ Base \in Text /\ Base.has = 0 /\ Base.by = "base"
    /\ \A i \in Nat : /\ Other(i) \in Text /\ Other(i).has = 0 /\ Other(i).by = "other"
                      /\ Hand(i) \in Text /\ Hand(i).has = i /\ Hand(i).by = "hand"
    /\ \A k, i \in Nat : /\ ByOp(k, i) \in Text /\ ByOp(k, i).has = i
                         /\ ByOp(k, i).by = "op" /\ ByOp(k, i).n = k
BY DEF No, Base, Other, Hand, ByOp, Text

LEMMA AllNo == [f \in Path |-> No] \in Tree
BY Texts DEF Tree

LEMMA TreeFacts ==
    ASSUME NEW t \in Tree
    PROVE  /\ DOMAIN t = Path /\ \A f \in Path : t[f] \in Text
           /\ \A f \in Path, x \in Text : /\ [t EXCEPT ![f] = x] \in Tree
                                          /\ [t EXCEPT ![f] = x][f] = x
                                          /\ \A g \in Path \ {f} : [t EXCEPT ![f] = x][g] = t[g]
BY DEF Tree

LEMMA DifferIn == \A t, u : Differs(t, u) \subseteq Path
BY DEF Differs

LEMMA FilesOf ==
    ASSUME NEW t \in Tree
    PROVE  /\ Files(t) \subseteq Path \X Text
           /\ \A x : x \in Files(t) <=> \E f \in Path : t[f] # No /\ x = <<f, t[f]>>
BY TreeFacts DEF Files

\* The one file that a copy or a move puts into quarantine.
LEMMA OneFile ==
    ASSUME NEW t \in Tree, NEW f \in Path
    PROVE  /\ Files([g \in {f} |-> t[g]]) \subseteq Path \X Text
           /\ t[f] # No => <<f, t[f]>> \in Files([g \in {f} |-> t[g]])
<1> DEFINE u == [g \in {f} |-> t[g]]
<1>1. DOMAIN u = {f} /\ u[f] = t[f] /\ t[f] \in Text
    BY TreeFacts
<1> HIDE DEF u
<1>2. Files(u) = {<<g, u[g]>> : g \in {h \in {f} : u[h] # No}}
    BY <1>1 DEF Files
<1> QED BY <1>1, <1>2 DEF u

LEMMA FreeProc == Free \in AnyProc
BY FolderAssumption, Texts, AllNo DEF Free, AnyProc, Pcs

LEMMA Goes ==
    ASSUME proc \in AnyProc
    PROVE  /\ \A pc \in Pcs : Go(pc) => proc' \in AnyProc
           /\ \A mine \in SUBSET Path, sweep \in BOOLEAN, then \in {"update", "retry", "end"} :
                UndoWith(mine, sweep, then) => proc' \in AnyProc
           /\ \A f \in Path \cup {"none"} : [proc EXCEPT !.kept = f] \in AnyProc
           /\ \A f : [proc EXCEPT !.todo = @ \ {f}] \in AnyProc
           /\ \A f : [proc EXCEPT !.kept = "none", !.todo = @ \ {f}] \in AnyProc
<1>1. \A pc \in Pcs : Go(pc) => proc' \in AnyProc
    BY DEF AnyProc, Go
<1>2. \A mine \in SUBSET Path, sweep \in BOOLEAN, then \in {"update", "retry", "end"} :
         UndoWith(mine, sweep, then) => proc' \in AnyProc
  <2> SUFFICES ASSUME NEW mine \in SUBSET Path, NEW sweep \in BOOLEAN,
                      NEW then \in {"update", "retry", "end"}, UndoWith(mine, sweep, then)
               PROVE  proc' \in AnyProc
    OBVIOUS
  <2>1. "reset" \in Pcs
    BY DEF Pcs
  <2>2. proc' = [proc EXCEPT !.pc = "reset", !.mine = mine, !.sweep = sweep, !.then = then]
    BY DEF UndoWith
  <2> QED BY <2>1, <2>2 DEF AnyProc
<1>3. \A f \in Path \cup {"none"} : [proc EXCEPT !.kept = f] \in AnyProc
    BY DEF AnyProc
<1>4. \A f : /\ [proc EXCEPT !.todo = @ \ {f}] \in AnyProc
             /\ [proc EXCEPT !.kept = "none", !.todo = @ \ {f}] \in AnyProc
  <2>1. \A f : proc.todo \ {f} \in SUBSET Path
    BY DEF AnyProc
  <2> QED BY <2>1 DEF AnyProc
<1> QED BY <1>1, <1>2, <1>3, <1>4

LEMMA GoesTo ==
    ASSUME proc \in AnyProc
    PROVE  /\ \A pc : Go(pc) =>
                /\ proc'.pc = pc
                /\ proc'.kind = proc.kind /\ proc'.load = proc.load /\ proc'.mine = proc.mine
                /\ proc'.sweep = proc.sweep /\ proc'.kept = proc.kept /\ proc'.todo = proc.todo
                /\ proc'.pre = proc.pre
           /\ \A mine, sweep, then : UndoWith(mine, sweep, then) =>
                /\ proc'.pc = "reset" /\ proc'.mine = mine /\ proc'.sweep = sweep
                /\ proc'.kept = proc.kept /\ proc'.kind = proc.kind
           /\ Free.pc = "idle" /\ Free.kept = "none"
BY DEF AnyProc, Go, UndoWith, Free

LEMMA ProcFields ==
    ASSUME proc \in AnyProc
    PROVE  /\ proc.mine \subseteq Path /\ proc.todo \subseteq Path
           /\ proc.kept \in Path \cup {"none"} /\ proc.pre \in Tree /\ proc.fp \in Text
           /\ proc.kind \in Kinds \cup {"none", "daemon"} /\ proc.try \in 1..MaxRetries
           /\ proc.sweep \in BOOLEAN
BY DEF AnyProc

LEMMA Fields ==
    ASSUME Shape
    PROVE  /\ hub.tree \in Tree /\ remote.tree \in Tree /\ head.tree \in Tree /\ marker.tree \in Tree
           /\ hub.ver \in Nat /\ remote.ver \in Nat /\ head.ver \in Nat /\ head.own \in Nat
           /\ \A r \in flying : r.id \in Nat /\ r.tree \in Tree
           /\ disk \in Tree /\ proc \in AnyProc /\ IsMarker(marker)
           /\ marker.op \in {"none", "update", "inbox", "op"} /\ marker.ver \in Nat
           /\ marker.untracked \subseteq Path /\ DOMAIN marker.dirty \subseteq Path
BY DEF Shape, AnyTip, IsMarker

LEMMA NoMarkerTyped ==
    /\ NoMarker.op = "none" /\ NoMarker.ver = 0 /\ NoMarker.tree = [f \in Path |-> No]
    /\ NoMarker.untracked = {} /\ DOMAIN NoMarker.dirty = {} /\ IsMarker(NoMarker)
BY AllNo DEF NoMarker, IsMarker

LEMMA BeginTyped ==
    ASSUME Shape, NEW op \in {"update", "inbox", "op"}, Begin(op)
    PROVE  /\ IsMarker(marker)'
           /\ marker'.op = op /\ marker'.ver = head.ver /\ marker'.tree = head.tree
           /\ marker'.untracked = {f \in Path : Untracked(f)}
           /\ DOMAIN marker'.dirty = {f \in Path : Changed(f)}
           /\ \A f \in DOMAIN marker'.dirty : marker'.dirty[f] = disk[f]
           /\ quarantine \subseteq quarantine' /\ quarantine' \subseteq Path \X Text
           /\ \A f \in Path : Changed(f) /\ disk[f] # No => <<f, disk[f]>> \in quarantine'
<1> DEFINE dirty == {f \in Path : Changed(f)}
<1>1. /\ marker'.op = op /\ marker'.ver = head.ver /\ marker'.tree = head.tree
      /\ marker'.untracked = {f \in Path : Untracked(f)}
      /\ marker'.dirty = [f \in dirty |-> disk[f]]
      /\ quarantine' = quarantine \cup {<<f, disk[f]>> : f \in {g \in dirty : disk[g] # No}}
    BY DEF Begin
<1>2. \A f \in Path : disk[f] \in Text
    BY TreeFacts DEF Shape
<1>3. IsMarker(marker)'
    BY <1>1, <1>2, Fields DEF IsMarker
<1> QED BY <1>1, <1>2, <1>3 DEF Shape

(***************************************************************************)
(* Types                                                                   *)
(***************************************************************************)
LEMMA PutsBackTyped ==
    ASSUME Shape, NEW f \in Path, PutsBack(f)
    PROVE  Shape'
<1>1. disk' \in Tree
    BY TreeFacts, Fields DEF Shape, PutsBack
<1>2. proc' \in AnyProc
    BY Goes DEF Shape, PutsBack
<1> QED BY <1>1, <1>2 DEF Shape, PutsBack, hubVars, handVars, countVars

LEMMA MovesAwayTyped ==
    ASSUME Shape, NEW f \in Path, MovesAway(f)
    PROVE  Shape'
<1>1. disk' \in Tree
    BY TreeFacts, Texts DEF Shape, MovesAway
<1>2. quarantine' \subseteq Path \X Text
    BY OneFile DEF Shape, MovesAway
<1>3. proc' \in AnyProc
    BY Goes DEF Shape, MovesAway
<1> QED BY <1>1, <1>2, <1>3 DEF Shape, MovesAway, hubVars, handVars, countVars

LEMMA KeepsTyped ==
    ASSUME Shape, NEW f \in Path, Keeps(f)
    PROVE  Shape'
<1>1. quarantine' \subseteq Path \X Text
    BY OneFile DEF Shape, Keeps
<1>2. proc' \in AnyProc
    BY Goes DEF Shape, Keeps
<1> QED BY <1>1, <1>2 DEF Shape, Keeps, hubVars, handVars, countVars

LEMMA FindsOwnTyped ==
    ASSUME Shape, NEW f \in Path, FindsOwn(f)
    PROVE  Shape'
<1>1. proc' \in AnyProc
    BY Goes DEF Shape, FindsOwn
<1> QED BY <1>1 DEF Shape, FindsOwn, hubVars, handVars, countVars

LEMMA HubTyped ==
    ASSUME Shape, NEW t \in Tree, HubMoves(t)
    PROVE  hub' \in AnyTip /\ past' \subseteq Path \X Text /\ flying' = {}
BY FilesOf DEF Shape, AnyTip, HubMoves

LEMMA PeopleTyped ==
    ASSUME Shape, \/ \E f \in Path : Writes(f) \/ ForeignCommit(f)
                  \/ \E r \in flying : Lands(r) \/ Lost(r)
    PROVE  Shape'
<1>1. ASSUME NEW f \in Path, Writes(f) PROVE Shape'
  <2>1. edits' = edits + 1 /\ edits' \in Nat
    BY <1>1 DEF Writes, Shape
  <2>2. disk' \in Tree
    BY <1>1, <2>1, TreeFacts, Texts DEF Writes, Shape
  <2>3. owed' \subseteq 1..edits' /\ exposed' \subseteq (1..edits') \ owed'
    <3>1. owed \subseteq 1..edits /\ exposed \subseteq (1..edits) \ owed /\ edits \in Nat
      BY DEF Shape
    <3>2. CASE InHand(f)
      <4>1. owed' \subseteq owed /\ exposed' \subseteq exposed \cup {edits'}
        BY <1>1, <3>2 DEF Writes
      <4> QED BY <2>1, <3>1, <4>1
    <3>3. CASE ~InHand(f)
      <4>1. owed' \subseteq owed \cup {edits'} /\ exposed' \subseteq exposed
        BY <1>1, <3>3 DEF Writes
      <4> QED BY <2>1, <3>1, <4>1
    <3> QED BY <3>2, <3>3
  <2> QED BY <1>1, <2>1, <2>2, <2>3 DEF Shape, Writes, hubVars, countVars
<1>2. ASSUME NEW f \in Path, ForeignCommit(f) PROVE Shape'
  <2>1. PICK t \in {Other(foreign'), No} : HubMoves([hub.tree EXCEPT ![f] = t])
    BY <1>2 DEF ForeignCommit
  <2>2. foreign' \in Nat
    BY <1>2 DEF ForeignCommit, Shape
  <2>3. [hub.tree EXCEPT ![f] = t] \in Tree
    BY <2>1, <2>2, TreeFacts, Texts DEF Shape, AnyTip
  <2> QED BY <1>2, <2>1, <2>2, <2>3, HubTyped, FS_EmptySet
          DEF Shape, ForeignCommit, handVars, countVars
<1>3. ASSUME NEW r \in flying, Lands(r) PROVE Shape'
  <2>1. r.tree \in Tree
    BY DEF Shape
  <2> QED BY <1>3, <2>1, HubTyped, FS_EmptySet DEF Shape, Lands, handVars, countVars
<1>4. ASSUME NEW r \in flying, Lost(r) PROVE Shape'
    BY <1>4, FS_RemoveElement DEF Shape, Lost, handVars, countVars
<1> QED BY <1>1, <1>2, <1>3, <1>4

LEMMA LockTyped ==
    ASSUME Shape, \/ \E kind \in Kinds \cup {"daemon"} : TakesLock(kind)
                  \/ Stops \/ Cleansed \/ RecoverUncommitted \/ RecoverCommitted
                  \/ Resets \/ EndsUndo \/ \E f \in Path : Leaves(f)
    PROVE  Shape'
<1>1. ASSUME NEW kind \in Kinds \cup {"daemon"}, TakesLock(kind) PROVE Shape'
  <2>1. proc' \in AnyProc
    <3>1. disk["note"] \in Text
      BY TreeFacts DEF Shape, Path
    <3> QED BY <1>1, <3>1, FreeProc DEF TakesLock, AnyProc, Pcs
  <2>2. saves' \in Nat
    <3>1. saves' = saves \/ saves' = saves + 1
      BY <1>1 DEF TakesLock
    <3> QED BY <3>1 DEF Shape
  <2> QED BY <1>1, <2>1, <2>2 DEF Shape, TakesLock, hubVars, handVars
<1>2. CASE Stops
    BY <1>2, FreeProc DEF Shape, Stops, hubVars, handVars
<1>3. CASE Cleansed
    BY <1>3, Goes DEF Shape, Cleansed, Pcs, hubVars, handVars, countVars
<1>4. CASE RecoverUncommitted
    BY <1>4, Goes DEF Shape, RecoverUncommitted, hubVars, handVars, countVars
<1>5. CASE RecoverCommitted
  <2>1. proc' \in AnyProc
    BY <1>5, Goes, DifferIn DEF Shape, RecoverCommitted, Pcs
  <2>2. remote' \in AnyTip /\ head' \in [ver : Nat, tree : Tree, own : Nat] /\ landed' \in BOOLEAN
    <3>1. Settled \in [ver : Nat, tree : Tree, own : Nat]
      BY Fields DEF Settled
    <3> QED BY <1>5, <3>1 DEF Shape, RecoverCommitted, FetchHub
  <2>3. marker' = marker \/ marker' = NoMarker
    BY <1>5 DEF RecoverCommitted, End
  <2> QED BY <1>5, <2>1, <2>2, <2>3, NoMarkerTyped
          DEF Shape, RecoverCommitted, handVars, countVars
<1>6. CASE Resets
  <2>1. proc' \in AnyProc
    <3>1. Differs(disk, marker.tree) \subseteq Path
      BY DifferIn
    <3>2. (IF head.own # 0 THEN head.tree ELSE [f \in Path |-> No]) \in Tree
      BY AllNo DEF Shape
    <3> DEFINE pre == IF head.own # 0 THEN head.tree ELSE [f \in Path |-> No]
               load == IF head.own # 0 THEN "committed" ELSE "uncommitted"
               todo == Differs(disk, marker.tree)
    <3>3. proc' = [proc EXCEPT !.pc = "undo", !.pre = pre, !.load = load, !.todo = todo]
      BY <1>6 DEF Resets
    <3>4. load \in {"committed", "uncommitted"} /\ pre \in Tree /\ todo \in SUBSET Path
      BY <3>1, <3>2
    <3> HIDE DEF pre, load, todo
    <3> QED BY <3>3, <3>4 DEF Shape, AnyProc, Pcs
  <2>2. head' \in [ver : Nat, tree : Tree, own : Nat]
    BY <1>6, Fields DEF Resets
  <2> QED BY <1>6, <2>1, <2>2 DEF Shape, Resets, handVars, countVars
<1>7. CASE EndsUndo
  <2>1. proc' \in AnyProc
    <3>0. proc.kind \in Kinds \cup {"none", "daemon"} /\ proc.fp \in Text
      BY ProcFields, Fields
    <3>1. proc.try < MaxRetries => proc.try + 1 \in 1..MaxRetries
      BY ProcFields, FolderAssumption DEF Shape
    <3>2. \A try \in 1..MaxRetries :
            [Free EXCEPT !.pc = "update", !.kind = proc.kind, !.fp = proc.fp, !.try = try] \in AnyProc
      BY FreeProc, <3>0 DEF AnyProc, Pcs
    <3>3. [Free EXCEPT !.pc = "update", !.kind = proc.kind, !.fp = proc.fp] \in AnyProc
      BY FreeProc, <3>0 DEF AnyProc, Pcs
    <3> QED BY <1>7, <3>1, <3>2, <3>3, FreeProc DEF EndsUndo
  <2> QED BY <1>7, <2>1, NoMarkerTyped DEF Shape, EndsUndo, End, hubVars, handVars, countVars
<1>8. ASSUME NEW f \in Path, Leaves(f) PROVE Shape'
    BY <1>8, Goes DEF Shape, Leaves, hubVars, handVars, countVars
<1> QED BY <1>1, <1>2, <1>3, <1>4, <1>5, <1>6, <1>7, <1>8

LEMMA FilesTyped ==
    ASSUME Shape, \/ \E f \in Path : \/ Cleanses(f) \/ UndoesNote(f) \/ UndoesFile(f)
                                     \/ ClearsNote(f) \/ ClearsFile(f) \/ MergesFile(f)
                                     \/ SetsAsideStray(f)
                  \/ PutsBackKept
    PROVE  Shape'
<1>1. ASSUME NEW f \in Path, MergesFile(f) PROVE Shape'
  <2>1. disk' \in Tree
    BY <1>1, TreeFacts DEF Shape, AnyTip, MergesFile
  <2> QED BY <1>1, <2>1, Goes DEF Shape, MergesFile, hubVars, handVars, countVars
<1>2. CASE PutsBackKept
    BY <1>2, PutsBackTyped, ProcFields DEF PutsBackKept, Shape
<1> QED BY <1>1, <1>2, FindsOwnTyped, MovesAwayTyped, KeepsTyped
        DEF Cleanses, UndoesNote, UndoesFile, ClearsNote, ClearsFile, SetsAsideStray

LEMMA UpdateTyped ==
    ASSUME Shape, UpdateStarts \/ Merges \/ Merged \/ UpdateEnds
    PROVE  Shape'
<1>1. CASE UpdateStarts
  <2>1. proc' \in AnyProc
    <3>1. Go("attempt") \/ Go("touch")
      BY <1>1 DEF UpdateStarts
    <3>2. "attempt" \in Pcs /\ "touch" \in Pcs
      BY DEF Pcs
    <3> QED BY <3>1, <3>2, Goes, Fields
  <2>2. CASE head.ver = hub.ver
    BY <1>1, <2>1, <2>2 DEF Shape, UpdateStarts, FetchHub, hubVars, handVars, countVars
  <2>3. CASE head.ver # hub.ver
    BY <1>1, <2>1, <2>3, BeginTyped
       DEF Shape, UpdateStarts, FetchHub, hubVars, handVars, countVars
  <2> QED BY <2>2, <2>3
<1>2. CASE Merges
  <2>1. Touched \subseteq Path
    BY DifferIn DEF Touched
  <2>2. [proc EXCEPT !.pc = "merging", !.todo = Touched] \in AnyProc
    BY <2>1, Fields DEF AnyProc, Pcs
  <2>3. proc' \in AnyProc
    BY <1>2, <2>2, FreeProc DEF Merges
  <2> QED BY <1>2, <2>3 DEF Shape, Merges, hubVars, handVars, countVars
<1>3. CASE Merged
    BY <1>3, Goes DEF Shape, AnyTip, Merged, Pcs, hubVars, handVars, countVars
<1>4. CASE UpdateEnds
  <2>1. proc' \in AnyProc
    BY <1>4, Goes DEF Shape, UpdateEnds, Pcs
  <2> QED BY <1>4, <2>1, NoMarkerTyped
          DEF Shape, UpdateEnds, End, hubVars, handVars, countVars
<1> QED BY <1>1, <1>2, <1>3, <1>4

LEMMA WriteTyped ==
    ASSUME disk \in Tree, NEW f \in Path, NEW t \in Text, Write(<<f, t>>)
    PROVE  disk' \in Tree
BY TreeFacts DEF Write

LEMMA AttemptTyped ==
    ASSUME Shape, OpKind,
                  \/ SendsDrop \/ NoDrop \/ BeginsOp \/ OpFails \/ OpWrites \/ OpEnds \/ OpBreaks
                  \/ ListsWritten
    PROVE  Shape'
<1>1. CASE SendsDrop
  <2>1. proc' \in AnyProc
    BY <1>1 DEF Shape, SendsDrop, AnyProc, Pcs, Path
  <2> QED BY <1>1, <2>1, BeginTyped DEF Shape, SendsDrop, hubVars, handVars, countVars
<1>2. CASE NoDrop
  <2>1. proc' \in AnyProc
    BY <1>2, FreeProc, Goes DEF Shape, NoDrop, Pcs
  <2> QED BY <1>2, <2>1 DEF Shape, NoDrop, hubVars, handVars, countVars
<1>3. CASE BeginsOp
  <2>1. proc' \in AnyProc
    BY <1>3 DEF Shape, BeginsOp, AnyProc, Pcs
  <2> QED BY <1>3, <2>1, BeginTyped DEF Shape, BeginsOp, hubVars, handVars, countVars
<1>4. CASE OpFails
    BY <1>4, Goes DEF Shape, OpFails, hubVars, handVars, countVars
<1>5. CASE OpWrites
  <2>1. disk["note"].has \in Nat /\ disk["inbox"].has \in Nat
    BY TreeFacts DEF Shape, Path, Text
  <2>2. \E f \in Path, t \in Text : FirstWrite = <<f, t>>
    <3>1. proc.kind \in {"commit", "capture", "ingest"}
      BY <1>5 DEF OpKind, OpWrites, At
    <3> QED BY <2>1, <3>1, Texts DEF FirstWrite, Shape, Path
  <2>3. disk' \in Tree
    BY <1>5, <2>2, WriteTyped DEF OpWrites, Shape
  <2> QED BY <1>5, <2>3, Goes DEF Shape, OpWrites, Pcs, hubVars, handVars, countVars
<1>6. CASE OpEnds
  <2>1. disk["note"].has \in Nat
    BY TreeFacts DEF Shape, Path, Text
  <2>2. \E f \in Path, t \in Text : LastWrite = <<f, t>>
    <3>1. proc.kind \in {"commit", "capture", "ingest"}
      BY <1>6 DEF OpKind, OpEnds, At
    <3> QED BY <2>1, <3>1, Texts DEF LastWrite, Shape, Path
  <2>3. disk' \in Tree
    BY <1>6, <2>2, WriteTyped DEF OpEnds, Shape
  <2> QED BY <1>6, <2>3, Goes DEF Shape, OpEnds, Pcs, hubVars, handVars, countVars
<1>7. CASE OpBreaks
  <2>1. UndoWith({}, TRUE, "end") /\ faults' = faults + 1
    BY <1>7 DEF OpBreaks
  <2>2. proc' \in AnyProc /\ faults' \in Nat
    <3>1. proc' \in AnyProc
      BY <2>1, Goes, Fields
    <3> QED BY <2>1, <3>1 DEF Shape
  <2> QED BY <1>7, <2>2 DEF Shape, OpBreaks, hubVars, handVars
<1>8. CASE ListsWritten
  <2>1. Written \subseteq Path
    BY DEF Written, Differing
  <2>2. proc' \in AnyProc
    <3>1. [proc EXCEPT !.pc = "ready", !.mine = Written] \in AnyProc
      BY <2>1 DEF Shape, AnyProc, Pcs
    <3> QED BY <1>8, <2>1, <3>1, FreeProc, Goes DEF Shape, ListsWritten
  <2>3. OwnTexts \subseteq Path \X Text
    BY FilesOf DEF OwnTexts, Shape
  <2>4. told' \subseteq Path \X Text
    BY <1>8, <2>3 DEF Shape, ListsWritten
  <2>5. marker' = marker \/ marker' = NoMarker
    BY <1>8 DEF ListsWritten, End
  <2>6. UNCHANGED <<hubVars, head, remote, disk, quarantine, handVars, saves, faults>>
    BY <1>8 DEF ListsWritten
  <2> QED BY <2>2, <2>4, <2>5, <2>6, NoMarkerTyped DEF Shape, hubVars, handVars
<1> QED BY <1>1, <1>2, <1>3, <1>4, <1>5, <1>6, <1>7, <1>8

\* Some number up to the size of a finite set plus one is the id of none of it.
LEMMA FreshIdTyped ==
    ASSUME Shape
    PROVE  FreshId \in Nat \ {0} /\ \A r \in flying : r.id # FreshId
<1> DEFINE n == Cardinality(flying)
           ids == {r.id : r \in flying}
<1>1. n \in Nat
    BY FS_CardinalityType DEF Shape
<1>2. IsFiniteSet(ids) /\ Cardinality(ids) <= n
  <2>1. [r \in flying |-> r.id] \in Surjection(flying, ids)
    BY DEF Surjection
  <2> QED BY <2>1, FS_Surjection DEF Shape
<1>3. IsFiniteSet(1..(n + 1)) /\ Cardinality(1..(n + 1)) = n + 1
    BY <1>1, FS_Interval
<1>4. Cardinality(ids) \in Nat
    BY <1>2, FS_CardinalityType
<1>5. ~(1..(n + 1) \subseteq ids)
  <2>1. SUFFICES ASSUME 1..(n + 1) \in SUBSET ids PROVE FALSE
    OBVIOUS
  <2>2. Cardinality(1..(n + 1)) <= Cardinality(ids)
    BY <1>2, <2>1, FS_Subset
  <2> QED BY <1>1, <1>2, <1>3, <1>4, <2>2
<1>6. PICK i \in 1..(n + 1) : \A r \in flying : r.id # i
    BY <1>5
<1>7. FreshId \in 1..(n + 1) /\ \A r \in flying : r.id # FreshId
    BY <1>6 DEF FreshId
<1> QED BY <1>1, <1>7

LEMMA RecordTyped ==
    ASSUME Shape, \/ Commits \/ CommitFails \/ Pushes \/ SendOK \/ LosesRace \/ StaysUnsettled
                  \/ \E r \in flying : IsRefused(r)
    PROVE  Shape'
<1>1. CASE Commits
  <2>1. [f \in Path |-> IF f \in proc.mine THEN disk[f] ELSE head.tree[f]] \in Tree
    BY DEF Shape, Tree
  <2>2. head' = [ver |-> head.ver, own |-> FreshId,
                 tree |-> [f \in Path |-> IF f \in proc.mine THEN disk[f] ELSE head.tree[f]]]
    BY <1>1 DEF Shape, Commits
  <2> QED BY <1>1, <2>1, <2>2, FreshIdTyped, Goes DEF Shape, Commits, Pcs, handVars, countVars
<1>2. CASE CommitFails
  <2>1. UndoWith(proc.mine, FALSE, "end") /\ faults' = faults + 1
    BY <1>2 DEF CommitFails
  <2>2. proc' \in AnyProc /\ faults' \in Nat
    <3>1. proc' \in AnyProc
      BY <2>1, Goes, ProcFields, Fields
    <3> QED BY <2>1, <3>1 DEF Shape
  <2> QED BY <1>2, <2>2 DEF Shape, CommitFails, hubVars, handVars
<1>3. CASE Pushes
  <2>1. proc' \in AnyProc
    BY <1>3, Goes, ProcFields DEF Shape, Pushes, Pcs
  <2> DEFINE own == [id |-> head.own, tree |-> head.tree]
  <2>2. own \in [id : Nat, tree : Tree]
    BY Fields
  <2>3. flying' = flying \/ flying' = flying \cup {own}
    BY <1>3 DEF Pushes
  <2> HIDE DEF own
  <2>4. flying' \subseteq [id : Nat, tree : Tree] /\ IsFiniteSet(flying')
    BY <2>2, <2>3, FS_AddElement DEF Shape
  <2> QED BY <1>3, <2>1, <2>4 DEF Shape, Pushes, handVars, countVars
<1>4. CASE SendOK
  <2>1. proc' \in AnyProc
    BY <1>4, FreeProc, Goes DEF Shape, SendOK, Pcs
  <2>2. OwnTexts \subseteq Path \X Text
    BY FilesOf DEF OwnTexts, Shape
  <2>3. head' \in [ver : Nat, tree : Tree, own : Nat] /\ remote' \in AnyTip
    BY <1>4 DEF Shape, SendOK, Settled, FetchHub
  <2>4. told' \subseteq Path \X Text
    BY <1>4, <2>2 DEF Shape, SendOK
  <2>5. marker' = NoMarker /\ landed' = FALSE
    BY <1>4 DEF SendOK, End
  <2>6. UNCHANGED <<hub, past, flying, foreign, disk, quarantine, owed, exposed, edits, saves, faults>>
    BY <1>4 DEF SendOK, handVars
  <2> QED BY <2>1, <2>3, <2>4, <2>5, <2>6, NoMarkerTyped DEF Shape
<1>5. CASE LosesRace
    BY <1>5, Goes, ProcFields DEF Shape, LosesRace, FetchHub, hubVars, handVars, countVars
<1>6. CASE StaysUnsettled
    BY <1>6, FreeProc DEF Shape, StaysUnsettled, FetchHub, hubVars, handVars, countVars
<1>7. ASSUME NEW r \in flying, IsRefused(r) PROVE Shape'
    BY <1>7, Goes, ProcFields, FS_RemoveElement DEF Shape, IsRefused, handVars, countVars
<1> QED BY <1>1, <1>2, <1>3, <1>4, <1>5, <1>6, <1>7

LEMMA OpKindKeeps ==
    ASSUME Shape, OpKind, Next
    PROVE  OpKind'
<1> DEFINE Saves == {"op", "run", "ran"}
<1>1. \A f \in Path : Writes(f) \/ ForeignCommit(f) => OpKind'
    BY DEF OpKind, Writes, ForeignCommit
<1>2. \A r \in flying : /\ Lands(r) \/ Lost(r) => OpKind'
                        /\ IsRefused(r) => proc'.pc = "reset"
    BY DEF Shape, AnyProc, OpKind, Lands, Lost, IsRefused, UndoWith
<1>3. \A f \in Path : Keeps(f) \/ FindsOwn(f) \/ PutsBack(f) \/ MovesAway(f) \/ Leaves(f) \/ MergesFile(f)
         => OpKind'
    BY ZenonT(20) DEF Shape, AnyProc, OpKind, Keeps, FindsOwn, PutsBack, MovesAway, Leaves, MergesFile
<1>4. \A f \in Path : Cleanses(f) \/ UndoesNote(f) \/ UndoesFile(f) \/ ClearsNote(f)
                     \/ ClearsFile(f) \/ SetsAsideStray(f) => OpKind'
    BY <1>3 DEF Cleanses, UndoesNote, UndoesFile, ClearsNote, ClearsFile, SetsAsideStray
<1>5. PutsBackKept => OpKind'
    BY <1>3, ProcFields DEF PutsBackKept, Shape
<1>6. (\E kind \in Kinds \cup {"daemon"} : TakesLock(kind)) => proc'.pc = "recover"
    BY DEF TakesLock, Free
<1>7. Stops \/ EndsUndo \/ Cleansed \/ RecoverUncommitted \/ Resets => proc'.pc \notin Saves
  <2>1. EndsUndo => proc'.pc \in {"idle", "update"}
    BY DEF EndsUndo, Free
  <2>2. Resets => proc'.pc = "undo"
    BY DEF Resets, Shape, AnyProc
  <2>3. Cleansed => proc'.pc = "update"
    BY GoesTo, Fields DEF Cleansed
  <2>4. RecoverUncommitted => proc'.pc = "reset"
    BY GoesTo, Fields DEF RecoverUncommitted
  <2>5. Stops => proc'.pc = "idle"
    BY GoesTo, Fields DEF Stops
  <2> QED BY <2>1, <2>2, <2>3, <2>4, <2>5
<1>8. RecoverCommitted \/ UpdateStarts \/ Merges \/ Merged \/ UpdateEnds => proc'.pc \notin Saves
  <2>1. Merges => proc'.pc \in {"idle", "merging"}
    <3> DEFINE p == [proc EXCEPT !.pc = "merging", !.todo = Touched]
    <3>1. p.pc = "merging" /\ Free.pc = "idle"
      BY Fields DEF AnyProc, Free
    <3>2. Merges => proc' = p \/ proc' = Free
      BY DEF Merges
    <3> HIDE DEF p
    <3> QED BY <3>1, <3>2
  <2>2. RecoverCommitted => proc'.pc \in {"update", "reset"}
    BY GoesTo, Fields DEF RecoverCommitted
  <2>3. UpdateStarts => proc'.pc \in {"attempt", "touch"}
    BY GoesTo, Fields DEF UpdateStarts
  <2> QED BY <2>1, <2>2, <2>3, GoesTo, Fields DEF Merged, UpdateEnds
<1>9. SendsDrop \/ NoDrop \/ BeginsOp \/ OpWrites \/ SendOK => OpKind'
  <2>1. SendsDrop => proc'.pc = "ready"
    BY DEF SendsDrop, Shape, AnyProc
  <2>2. BeginsOp => At("op") /\ proc'.kind = proc.kind
    BY DEF BeginsOp, Shape, AnyProc
  <2>3. NoDrop => OpKind'
    BY GoesTo DEF NoDrop, Shape, OpKind
  <2>4. SendOK => OpKind'
    BY GoesTo DEF SendOK, Shape, OpKind
  <2>5. OpWrites => At("run") /\ proc'.kind = proc.kind
    BY GoesTo DEF OpWrites, Shape
  <2> QED BY <2>1, <2>2, <2>3, <2>4, <2>5 DEF OpKind, At
<1>10. OpFails \/ OpBreaks \/ OpEnds \/ ListsWritten \/ Commits \/ CommitFails \/ Pushes \/ LosesRace
           \/ StaysUnsettled => proc'.pc \notin Saves
  <2>1. ListsWritten => proc'.pc \in {"idle", "ready", "reset"}
    BY GoesTo DEF ListsWritten, Shape, AnyProc, Free
  <2>2. Pushes => proc'.pc \in {"wait", "reset"}
    BY GoesTo, Fields DEF Pushes
  <2>3. OpFails \/ OpBreaks \/ CommitFails \/ LosesRace => proc'.pc = "reset"
    BY GoesTo, Fields DEF OpFails, OpBreaks, CommitFails, LosesRace
  <2>4. OpEnds \/ Commits \/ StaysUnsettled => proc'.pc \in {"written", "push", "idle"}
    BY GoesTo, Fields DEF OpEnds, Commits, StaysUnsettled
  <2> QED BY <2>1, <2>2, <2>3, <2>4
<1>11. AtRest => OpKind'
    BY DEF AtRest, vars, OpKind
<1> QED BY <1>1, <1>2, <1>4, <1>5, <1>6, <1>7, <1>8, <1>9, <1>10, <1>11, <1>3 DEF Next, OpKind

LEMMA StepIsTyped ==
    ASSUME Shape, OpKind, [Next]_vars
    PROVE  Shape' /\ OpKind'
<1>1. CASE UNCHANGED vars
    BY <1>1 DEF vars, Shape, OpKind
<1>2. CASE Next
  <2>1. CASE AtRest
    BY <2>1 DEF AtRest, vars, Shape, OpKind
  <2> QED BY <1>2, <2>1, OpKindKeeps, PeopleTyped, LockTyped, FilesTyped, UpdateTyped,
             AttemptTyped, RecordTyped DEF Next
<1> QED BY <1>1, <1>2

LEMMA InitIsTyped ==
    ASSUME Init
    PROVE  Shape /\ OpKind
<1>1. hub.tree \in Tree /\ hub.ver = 0
    BY Texts DEF Init, Tree
<1>2. proc = Free /\ OpKind
    BY DEF Init, Free, OpKind
<1>3. past \subseteq Path \X Text
    BY <1>1, FilesOf DEF Init
<1>4. hub \in AnyTip
    BY Texts, <1>1 DEF Init, AnyTip
<1>5. head \in [ver : Nat, tree : Tree, own : Nat] /\ remote \in AnyTip /\ disk \in Tree
    BY <1>1, <1>4 DEF Init
<1>6. marker = NoMarker /\ quarantine = {} /\ told = {} /\ flying = {} /\ owed = {} /\ exposed = {}
      /\ landed = FALSE /\ edits = 0 /\ foreign = 0 /\ saves = 0 /\ faults = 0
    BY DEF Init
<1> QED BY <1>2, <1>3, <1>4, <1>5, <1>6, FreeProc, NoMarkerTyped, FS_EmptySet DEF Shape

\* Every variable has its type, and no save is tried more than MaxRetries times.
THEOREM TypeCorrect == Spec => []TypeOK
<1>1. Shape => TypeOK
  <2> SUFFICES ASSUME Shape PROVE TypeOK
    OBVIOUS
  <2>1. proc.pc \in Pcs /\ proc.mine \subseteq Path /\ proc.todo \subseteq Path /\ proc.kept \in Path \cup {"none"}
        /\ proc.kind \in Kinds \cup {"none", "daemon"} /\ proc.try \in 1..MaxRetries
        /\ proc.pre \in Tree /\ proc.fp \in Text /\ proc.sweep \in BOOLEAN
    BY DEF Shape, AnyProc
  <2> QED BY <2>1 DEF Shape, TypeOK, AnyTip, IsMarker
<1> QED BY <1>1, InitIsTyped, StepIsTyped, PTL DEF Spec

(***************************************************************************)
(* What steps have in common                                               *)
(***************************************************************************)
\* What is in a shared tree is safe.
LEMMA SharedIsSafe ==
    ASSUME NEW t \in Tree, Shared(t), NEW f \in Path
    PROVE  SafeText(t[f])
<1>1. CASE t[f] = No
    BY <1>1, Texts DEF SafeText
<1>2. CASE t[f] # No
  <2>1. <<f, t[f]>> \in past
    BY <1>2, FilesOf DEF Shared
  <2> QED BY <2>1 DEF SafeText
<1> QED BY <1>1, <1>2

LEMMA NoIsShared == Shared(NoMarker.tree)
BY AllNo, FilesOf, NoMarkerTyped DEF Shared

\* Safe texts stay safe: nothing leaves quarantine or the shared history.
LEMMA SafeStays ==
    ASSUME quarantine \subseteq quarantine', past \subseteq past'
    PROVE  /\ \A t : SafeText(t) => SafeText(t)'
           /\ \A t : Shared(t) => Shared(t)'
BY DEF SafeText, Shared

\* A text that is safe after the step.
SafeAfter(t) == t.has = 0 \/ \E x \in quarantine' \cup past' : x[2].has = t.has

\* No text is lost when only safe ones are written over.
LEMMA NothingGone ==
    ASSUME Shape, NoTextLost, owed' = owed,
           quarantine \subseteq quarantine', past \subseteq past',
           \A f \in Path : disk'[f].has = disk[f].has \/ SafeAfter(disk[f]) \/ disk[f].has \notin owed
    PROVE  NoTextLost'
<1> SUFFICES ASSUME NEW i \in owed
             PROVE  \/ \E f \in Path : disk'[f].has = i
                    \/ \E x \in quarantine' \cup past' : x[2].has = i
    BY DEF NoTextLost, IsKept
<1>1. i # 0
    BY DEF Shape
<1>2. CASE \E x \in quarantine \cup past : x[2].has = i
    BY <1>2
<1>3. CASE \E f \in Path : disk[f].has = i
    BY <1>1, <1>3 DEF SafeAfter
<1> QED BY <1>2, <1>3 DEF NoTextLost, IsKept

\* The history is as before when hub, commit and pushes are.
LEMMA HistoryStays ==
    ASSUME HistoryOK, UNCHANGED <<hub, past, head, landed>>,
           remote' \in {remote, hub}, flying' \subseteq flying,
           marker' \in {marker, NoMarker} \/ (head.own = 0 /\ marker'.tree = head.tree)
    PROVE  HistoryOK'
BY NoIsShared DEF HistoryOK, Shared

\* A process that begins, or that died.
LEMMA GoesIdle ==
    ASSUME Shape, IInv, proc'.pc \in Idle, proc'.kept = "none",
           UNCHANGED <<hub, past, flying, head, landed, disk, marker, quarantine, owed>>,
           remote' \in {remote, hub}
    PROVE  IInv'
<1>1. StageOK'
    BY DEF IInv, StageOK, At, Idle, Working, Sending, Undoing, OfSave
<1>2. SafeOK'
    BY DEF IInv, SafeOK, KeptOK, MergeOK, SourceOK, WrittenOK, ListedOK, OwnOK, UndoOK, SafeText,
           OwnDrop, At, Idle, Working
<1>3. HistoryOK'
    BY HistoryStays DEF IInv
<1>4. SentOK'
    BY DEF IInv, SentOK, OnlyInboxIsSent, NotByHand, At, Idle, Working
<1>5. NoTextLost'
    BY NothingGone DEF IInv
<1> QED BY <1>1, <1>2, <1>3, <1>4, <1>5 DEF IInv

\* A process that ends or goes on without a marker.
LEMMA EndsMarker ==
    ASSUME Shape, IInv, marker' = NoMarker, proc'.kept = "none",
           proc'.pc \in Idle \cup {"update", "attempt", "op"},
           proc'.pc = "op" /\ proc'.kind = "ingest" => ~Untracked("inbox")',
           head' = head \/ head' = Settled, head'.own = 0, Shared(head'.tree), landed' = FALSE,
           UNCHANGED <<hub, past, flying, disk, quarantine, owed>>, remote' \in {remote, hub}
    PROVE  IInv'
<1>1. StageOK'
    BY NoMarkerTyped DEF StageOK, At, Idle, Working, Sending, Undoing, OfSave
<1>2. SafeOK'
    BY DEF SafeOK, KeptOK, MergeOK, SourceOK, WrittenOK, ListedOK, OwnOK, UndoOK, At, Idle, Working
<1>3. HistoryOK'
    BY NoIsShared DEF IInv, HistoryOK, Shared
<1>4. SentOK'
    BY DEF IInv, SentOK, OnlyInboxIsSent, NotByHand, At, Idle, Working
<1>5. NoTextLost'
    BY NothingGone DEF IInv
<1> QED BY <1>1, <1>2, <1>3, <1>4, <1>5 DEF IInv

\* A process that begins to undo.
LEMMA StartsUndo ==
    ASSUME Shape, IInv, NEW mine \in SUBSET Path, NEW sweep \in BOOLEAN, NEW then,
           UndoWith(mine, sweep, then), proc.kept = "none",
           UNCHANGED <<hub, past, head, landed, disk, marker, quarantine, owed>>,
           remote' \in {remote, hub}, flying' \subseteq flying,
           marker.op # "none", ~sweep => marker.op \in OfSave,
           head.own # 0 => mine = Differs(head.tree, marker.tree),
           head.own = 0 /\ sweep => mine = {},
           head.own = 0 => \A f \in mine : OwnDrop(f) \/ SafeText(disk[f])
    PROVE  IInv'
<1>0. proc'.pc = "reset" /\ proc'.mine = mine /\ proc'.sweep = sweep /\ proc'.kept = "none"
    BY GoesTo, Fields
<1>1. StageOK'
    BY <1>0 DEF IInv, StageOK, At, Working, Sending, Undoing, OfSave
<1>2. SafeOK'
    BY <1>0 DEF IInv, SafeOK, KeptOK, MergeOK, SourceOK, WrittenOK, ListedOK, OwnOK, UndoOK, SafeText,
           OwnDrop, At, Working
<1>3. HistoryOK'
    BY HistoryStays DEF IInv
<1>4. SentOK'
    BY <1>0 DEF IInv, SentOK, OnlyInboxIsSent, NotByHand, At, Working
<1>5. NoTextLost'
    BY NothingGone DEF IInv
<1> QED BY <1>1, <1>2, <1>3, <1>4, <1>5 DEF IInv

\* Where one file after the other is put back, copied or moved away.
Tidying == \/ At("undo") \/ At("touch") \/ At("attempt")
           \/ At("recover") /\ marker = NoMarker

LEMMA TidyStands ==
    ASSUME Shape, IInv, Tidying,
           proc' \in AnyProc, proc'.pc = proc.pc, proc'.kind = proc.kind, proc'.load = proc.load,
           proc'.mine = proc.mine, proc'.sweep = proc.sweep, proc'.pre = proc.pre,
           proc'.kept # "none" => /\ ~At("attempt")
                                  /\ SafeAfter(disk'[proc'.kept]) \/ Exempt(disk'[proc'.kept]),
           quarantine \subseteq quarantine',
           \A f \in Path : \/ disk'[f] = disk[f]
                           \/ /\ SafeAfter(disk[f]) \/ disk[f].has \notin owed
                              /\ SafeAfter(disk'[f]),
           UNCHANGED <<hub, past, flying, head, landed, remote, marker, owed, edits>>
    PROVE  IInv'
<1>0. (\A t : SafeText(t) => SafeText(t)') /\ (\A t : SafeAfter(t) <=> SafeText(t)')
    BY SafeStays DEF SafeAfter, SafeText
<1>a. disk \in Tree /\ proc.mine \subseteq Path
    BY Fields, ProcFields
<1>1. StageOK'
    BY DEF IInv, StageOK, Tidying, Committed, At, Working, Sending, Undoing, OfSave
<1>2. SafeOK'
  <2>1. KeptOK'
    BY <1>0 DEF KeptOK, Exempt
  <2>2. MergeOK' /\ SourceOK' /\ WrittenOK' /\ ListedOK'
    BY DEF MergeOK, SourceOK, WrittenOK, ListedOK, Tidying, At, Working
  <2>3. OwnOK'
    BY <1>0 DEF IInv, SafeOK, OwnOK, OwnDrop
  <2>4. UndoOK'
    <3>1. \A f \in proc.mine : SafeText(disk[f]) => SafeText(disk[f])'
      <4> SUFFICES ASSUME NEW f \in proc.mine, SafeText(disk[f]) PROVE SafeAfter(disk'[f])
        BY <1>0
      <4>1. disk'[f] = disk[f] \/ SafeAfter(disk'[f])
        BY <1>a
      <4> QED BY <1>0, <4>1
    <3>2. \A f \in proc.mine : SafeText(proc.pre[f]) => SafeText(proc.pre[f])'
      BY <1>0
    <3> QED BY <3>1, <3>2 DEF IInv, SafeOK, UndoOK, OwnDrop, Committed, Tidying, At
  <2> QED BY <2>1, <2>2, <2>3, <2>4 DEF SafeOK
<1>3. HistoryOK'
    BY HistoryStays DEF IInv
<1>4. SentOK'
    BY DEF IInv, SentOK, OnlyInboxIsSent, NotByHand, Tidying, At, Working
<1>5. NoTextLost'
    BY NothingGone DEF IInv
<1> QED BY <1>1, <1>2, <1>3, <1>4, <1>5 DEF IInv

LEMMA Keeping ==
    ASSUME Shape, IInv, Tidying, ~At("attempt"), NEW f \in Path, Keeps(f)
    PROVE  IInv'
<1>1. /\ quarantine \subseteq quarantine' /\ SafeAfter(disk[f])
  <2>1. CASE disk[f] = No
    BY <2>1, Texts DEF Keeps, SafeAfter
  <2>2. CASE disk[f] # No
    <3>1. <<f, disk[f]>> \in quarantine'
      BY <2>2, OneFile, Fields DEF Keeps
    <3> QED BY <3>1 DEF Keeps, SafeAfter
  <2> QED BY <2>1, <2>2
<1>2. proc' \in AnyProc
    BY Goes, Fields DEF Keeps
<1>3. /\ proc'.pc = proc.pc /\ proc'.kind = proc.kind /\ proc'.load = proc.load /\ proc'.kept = f
      /\ proc'.mine = proc.mine /\ proc'.sweep = proc.sweep /\ proc'.pre = proc.pre
    BY Fields DEF Keeps, AnyProc
<1> QED BY <1>1, <1>2, <1>3, TidyStands DEF Keeps, hubVars, handVars

LEMMA FindingOwn ==
    ASSUME Shape, IInv, Tidying, ~At("attempt"), NEW f \in Path, FindsOwn(f), SafeText(disk[f])
    PROVE  IInv'
<1>1. proc' \in AnyProc
    BY Goes, Fields DEF FindsOwn
<1>2. /\ proc'.pc = proc.pc /\ proc'.kind = proc.kind /\ proc'.load = proc.load /\ proc'.kept = f
      /\ proc'.mine = proc.mine /\ proc'.sweep = proc.sweep /\ proc'.pre = proc.pre
    BY Fields DEF FindsOwn, AnyProc
<1>3. SafeAfter(disk[f])
    BY DEF FindsOwn, hubVars, SafeText, SafeAfter
<1> QED BY <1>1, <1>2, <1>3, TidyStands DEF FindsOwn, hubVars, handVars

LEMMA PuttingBack ==
    ASSUME Shape, IInv, Tidying, NEW f \in Path, PutsBack(f), SafeText(disk[f]) \/ Exempt(disk[f])
    PROVE  IInv'
<1>1. head.own = 0 /\ SafeText(head.tree[f])
    BY SharedIsSafe, Fields, NoMarkerTyped
       DEF IInv, StageOK, HistoryOK, Tidying, At, OfSave
<1>2. \A t : SafeText(t) => SafeAfter(t)
    BY DEF PutsBack, hubVars, SafeText, SafeAfter
<1>3. disk' = [disk EXCEPT ![f] = head.tree[f]]
    BY DEF PutsBack
<1>4. \A g \in Path : \/ disk'[g] = disk[g]
                      \/ (SafeAfter(disk[g]) \/ disk[g].has \notin owed) /\ SafeAfter(disk'[g])
    BY <1>1, <1>2, <1>3, Fields, TreeFacts DEF Exempt
<1>5. proc' \in AnyProc
    BY Goes, Fields DEF PutsBack
<1>6. /\ proc'.pc = proc.pc /\ proc'.kind = proc.kind /\ proc'.load = proc.load /\ proc'.kept = "none"
      /\ proc'.mine = proc.mine /\ proc'.sweep = proc.sweep /\ proc'.pre = proc.pre
    BY Fields DEF PutsBack, AnyProc
<1> QED BY <1>4, <1>5, <1>6, TidyStands DEF PutsBack, hubVars, handVars

LEMMA MovingAway ==
    ASSUME Shape, IInv, Tidying, proc.kept = "none", NEW f \in Path, MovesAway(f)
    PROVE  IInv'
<1>1. quarantine \subseteq quarantine' /\ SafeAfter(disk[f]) /\ SafeAfter(No)
  <2>1. CASE disk[f] = No
    BY <2>1, Texts DEF MovesAway, SafeAfter
  <2>2. CASE disk[f] # No
    <3>1. <<f, disk[f]>> \in quarantine'
      BY <2>2, OneFile, Fields DEF MovesAway
    <3> QED BY <3>1, Texts DEF MovesAway, SafeAfter
  <2> QED BY <2>1, <2>2
<1>2. disk' = [disk EXCEPT ![f] = No]
    BY DEF MovesAway
<1>3. \A g \in Path : disk'[g] = disk[g] \/ (SafeAfter(disk[g]) /\ SafeAfter(disk'[g]))
    BY <1>1, <1>2, Fields, Texts, TreeFacts
<1>4. proc' \in AnyProc
    BY Goes, Fields DEF MovesAway
<1>5. /\ proc'.pc = proc.pc /\ proc'.kind = proc.kind /\ proc'.load = proc.load /\ proc'.kept = "none"
      /\ proc'.mine = proc.mine /\ proc'.sweep = proc.sweep /\ proc'.pre = proc.pre
    BY Fields DEF MovesAway, AnyProc
<1> QED BY <1>1, <1>3, <1>4, <1>5, TidyStands DEF MovesAway, hubVars, handVars

LEMMA LeavesKeeps ==
    ASSUME Shape, IInv, NEW f \in Path, Leaves(f)
    PROVE  IInv'
<1>1. proc' \in AnyProc
    BY Goes, Fields DEF Leaves
<1>2. /\ proc'.pc = proc.pc /\ proc'.kind = proc.kind /\ proc'.load = proc.load /\ proc'.kept = "none"
      /\ proc'.mine = proc.mine /\ proc'.sweep = proc.sweep /\ proc'.pre = proc.pre
    BY Fields DEF Leaves, Undoes, AnyProc
<1>3. Tidying
    BY DEF Leaves, Undoes, Tidying
<1> QED BY <1>1, <1>2, <1>3, TidyStands DEF Leaves, hubVars, handVars

(***************************************************************************)
(* The steps, one by one                                                   *)
(***************************************************************************)
LEMMA NoCommit ==
    ASSUME Shape, IInv, head.own = 0
    PROVE  landed = FALSE /\ Shared(head.tree)
BY DEF Shape, IInv, HistoryOK

LEMMA NoMarkerNoCommit ==
    ASSUME IInv, marker.op \notin OfSave
    PROVE  head.own = 0
BY DEF IInv, StageOK

LEMMA NotKept ==
    ASSUME IInv, ~At("undo"), ~At("touch"), ~At("recover") \/ marker # NoMarker
    PROVE  proc.kept = "none"
BY DEF IInv, StageOK

LEMMA WritesKeeps ==
    ASSUME Shape, IInv, Guarded, NEW f \in Path, Writes(f)
    PROVE  IInv'
<1>1. /\ UNCHANGED <<hub, past, flying, landed, head, remote, marker, quarantine, proc>>
      /\ disk' = [disk EXCEPT ![f] = Hand(edits')] /\ edits' = edits + 1 /\ edits' \in Nat
      /\ ~OpUnproven
      /\ At("op") => disk[f] # No
    BY DEF Writes, Guarded, Shape, hubVars
<1>2. /\ disk'[f] = Hand(edits') /\ disk'[f].has = edits'
      /\ \A g \in Path \ {f} : disk'[g] = disk[g]
    BY <1>1, Fields, TreeFacts, Texts
<1>3. /\ proc.pc \notin Working \cup {"ready"}
      /\ At("reset") => proc.sweep \/ head.own # 0
      /\ At("undo") => proc.sweep \/ Committed
    BY <1>1 DEF OpUnproven, Working, Committed, At
<1>a. \A t : Exempt(t) => Exempt(t)'
  <2>1. edits' \notin 1..edits /\ 1..edits \subseteq 1..edits' /\ owed' \subseteq owed \cup {edits'}
    BY <1>1 DEF Writes, Shape
  <2> QED BY <2>1 DEF Exempt
<1>b. InHand(f) => disk'[f].has \in (1..edits') \ owed'
  <2>1. edits' \notin owed /\ edits' \in 1..edits'
    BY <1>1 DEF Shape
  <2>2. InHand(f) => owed' \subseteq owed
    BY DEF Writes
  <2> QED BY <1>2, <2>1, <2>2
<1>4. StageOK'
    BY <1>1 DEF IInv, StageOK, At, Committed
<1>5. SafeOK'
  <2>1. KeptOK'
    <3>1. CASE proc.kept = f
      BY <1>1, <1>b, <3>1 DEF KeptOK, InHand, Exempt
    <3>2. CASE proc.kept # f /\ proc.kept # "none"
      <4>1. disk'[proc.kept] = disk[proc.kept]
        BY <1>2, <3>2, Fields, ProcFields
      <4> QED BY <1>1, <1>a, <3>2, <4>1 DEF IInv, SafeOK, KeptOK, SafeText, Exempt
    <3> QED BY <1>1, <3>1, <3>2 DEF KeptOK
  <2>2. MergeOK'
    <3> SUFFICES ASSUME At("merging"), NEW g \in proc.todo
                 PROVE  disk'[g] = head.tree[g] \/ disk'[g].has \in (1..edits') \ owed'
      BY <1>1 DEF MergeOK, At, Exempt
    <3>1. CASE g = f
      BY <1>b, <3>1 DEF InHand
    <3>2. CASE g # f
      <4>1. disk'[g] = disk[g]
        BY <1>2, <3>2, Fields, ProcFields
      <4> QED BY <1>a, <4>1 DEF IInv, SafeOK, MergeOK, Exempt
    <3> QED BY <3>1, <3>2
  <2>6. WrittenOK' /\ ListedOK'
    BY <1>1, <1>3 DEF WrittenOK, ListedOK, At, Working
  <2>3. SourceOK'
    BY <1>1, <1>2 DEF IInv, SafeOK, SourceOK, At, Untracked, Tracked, Path
  <2>4. OwnOK'
    BY <1>1 DEF IInv, SafeOK, OwnOK, OwnDrop, SafeText
  <2>5. UndoOK'
    BY <1>1, <1>3 DEF IInv, StageOK, SafeOK, UndoOK, OwnDrop, SafeText, Committed, At
  <2> QED BY <2>1, <2>2, <2>3, <2>4, <2>5, <2>6 DEF SafeOK
<1>6. HistoryOK'
    BY <1>1 DEF IInv, HistoryOK, Shared
<1>7. SentOK'
    BY <1>1, <1>3 DEF IInv, SentOK, OnlyInboxIsSent, At, Working
<1>8. NoTextLost'
  <2> SUFFICES ASSUME NEW i \in owed'
               PROVE  \/ \E g \in Path : disk'[g].has = i
                      \/ \E x \in quarantine' \cup past' : x[2].has = i
    BY DEF NoTextLost, IsKept
  <2>1. CASE i = edits'
    BY <1>2, <2>1
  <2>2. CASE i # edits'
    <3>1. i \in owed /\ i # disk[f].has
      BY <2>2 DEF Writes
    <3> QED BY <1>1, <1>2, <3>1 DEF IInv, NoTextLost, IsKept
  <2> QED BY <2>1, <2>2
<1> QED BY <1>4, <1>5, <1>6, <1>7, <1>8 DEF IInv

\* The main line moves: only the history grows, by a tree that may be shared.
LEMMA HubKeeps ==
    ASSUME Shape, IInv, NEW t \in Tree, HubMoves(t), NotByHand(t), landed' \in BOOLEAN,
           landed' => head.own # 0 /\ (head.tree = t \/ landed),
           UNCHANGED <<head, remote, disk, marker, quarantine, proc, owed, edits>>
    PROVE  IInv'
<1>1. /\ past' = past \cup Files(t) /\ flying' = {} /\ hub'.tree = t
    BY DEF HubMoves
<1>2. \A u : SafeText(u) => SafeText(u)'
    BY <1>1, SafeStays
<1>3. StageOK'
    BY DEF IInv, StageOK, At, Committed
<1>4. SafeOK'
    BY <1>2 DEF IInv, SafeOK, KeptOK, MergeOK, SourceOK, WrittenOK, ListedOK, OwnOK, UndoOK,
           Exempt, OwnDrop, Committed, Differing, Changed, Untracked, Tracked, At
<1>5. HistoryOK'
    BY <1>1 DEF IInv, HistoryOK, Shared
<1>6. SentOK'
  <2>1. OnlyInboxIsSent'
    BY <1>1, FilesOf DEF IInv, SentOK, OnlyInboxIsSent, NotByHand
  <2> QED BY <1>1, <2>1 DEF IInv, SentOK, NotByHand, Untouched, UnchangedSinceBegin, At
<1>7. NoTextLost'
    BY <1>1, NothingGone DEF IInv
<1> QED BY <1>3, <1>4, <1>5, <1>6, <1>7 DEF IInv

LEMMA ForeignKeeps ==
    ASSUME Shape, IInv, NEW f \in Path, ForeignCommit(f)
    PROVE  IInv'
<1>1. PICK t \in {Other(foreign'), No} : HubMoves([hub.tree EXCEPT ![f] = t])
    BY DEF ForeignCommit
<1>2. t \in Text /\ t.by # "hand"
    BY <1>1, Texts DEF ForeignCommit, Shape
<1>3. NotByHand(hub.tree)
  <2> SUFFICES ASSUME NEW g \in Path, hub.tree[g].by = "hand" PROVE g = "inbox"
    BY DEF NotByHand
  <2>1. <<g, hub.tree[g]>> \in past
    BY Fields, FilesOf, Texts DEF IInv, HistoryOK, Shared
  <2> QED BY <2>1 DEF IInv, SentOK, OnlyInboxIsSent
<1>4. [hub.tree EXCEPT ![f] = t] \in Tree /\ NotByHand([hub.tree EXCEPT ![f] = t])
    BY <1>2, <1>3, Fields, TreeFacts DEF NotByHand
<1> QED BY <1>1, <1>4, HubKeeps DEF ForeignCommit, handVars, Shape, IInv, HistoryOK

LEMMA LandsKeeps ==
    ASSUME Shape, IInv, NEW r \in flying, Lands(r)
    PROVE  IInv'
<1>1. r.tree \in Tree /\ NotByHand(r.tree)
    BY Fields DEF IInv, SentOK
<1>2. landed' \in BOOLEAN /\ (landed' => head.own # 0 /\ head.tree = r.tree)
    BY DEF Lands, IInv, HistoryOK
<1> QED BY <1>1, <1>2, HubKeeps DEF Lands, handVars

LEMMA LostKeeps ==
    ASSUME Shape, IInv, NEW r \in flying, Lost(r)
    PROVE  IInv'
<1>1. UNCHANGED <<hub, past, landed, head, remote, disk, marker, quarantine, proc, owed, edits>>
      /\ flying' = flying \ {r}
    BY DEF Lost, handVars
<1>2. StageOK'
    BY <1>1 DEF IInv, StageOK, At, Committed
<1>3. SafeOK'
    BY <1>1 DEF IInv, SafeOK, KeptOK, MergeOK, SourceOK, WrittenOK, ListedOK, OwnOK, UndoOK, SafeText,
           Exempt, OwnDrop, Committed, Differing, Changed, Untracked, Tracked, At
<1>4. HistoryOK'
    BY <1>1, HistoryStays DEF IInv
<1>5. SentOK'
    BY <1>1 DEF IInv, SentOK, OnlyInboxIsSent, NotByHand, Untouched, UnchangedSinceBegin, At
<1>6. NoTextLost'
    BY <1>1, NothingGone DEF IInv
<1> QED BY <1>2, <1>3, <1>4, <1>5, <1>6 DEF IInv

\* Taking the lock, and losing it.
LEMMA IdleKeeps ==
    ASSUME Shape, IInv, \/ Stops \/ StaysUnsettled
                        \/ \E kind \in Kinds \cup {"daemon"} : TakesLock(kind)
    PROVE  IInv'
<1>1. CASE Stops
    BY <1>1, GoesIdle, GoesTo, Fields DEF Stops, hubVars, handVars, Idle
<1>2. CASE StaysUnsettled
    BY <1>2, GoesIdle, GoesTo, Fields DEF StaysUnsettled, hubVars, handVars, FetchHub, Idle
<1>3. ASSUME NEW kind \in Kinds \cup {"daemon"}, TakesLock(kind) PROVE IInv'
  <2>1. proc'.pc = "recover" /\ proc'.kept = "none"
    BY <1>3 DEF TakesLock, Free
  <2> QED BY <1>3, <2>1, GoesIdle DEF TakesLock, hubVars, handVars, Idle
<1> QED BY <1>1, <1>2, <1>3

\* Going on without a marker.
LEMMA EndsKeeps ==
    ASSUME Shape, IInv, \/ Cleansed \/ EndsUndo \/ UpdateEnds \/ NoDrop \/ SendOK
    PROVE  IInv'
<1>1. CASE Cleansed
  <2>1. head.own = 0
    BY <1>1, NoMarkerNoCommit, NoMarkerTyped DEF Cleansed, OfSave
  <2>2. proc'.pc = "update" /\ proc'.kept = "none"
    BY <1>1, GoesTo, Fields DEF Cleansed
  <2> QED BY <1>1, <2>1, <2>2, NoCommit, EndsMarker DEF Cleansed, hubVars, handVars, Shape
<1>2. CASE EndsUndo
  <2>1. head.own = 0
    BY <1>2 DEF IInv, StageOK, EndsUndo
  <2>2. proc'.pc \in {"update", "idle"} /\ proc'.kept = "none"
    BY <1>2 DEF EndsUndo, Free
  <2> QED BY <1>2, <2>1, <2>2, NoCommit, EndsMarker DEF EndsUndo, End, hubVars, handVars, Idle
<1>3. CASE UpdateEnds
  <2>1. head.own = 0 /\ proc.kept = "none"
    BY <1>3 DEF IInv, StageOK, UpdateEnds, At
  <2>2. proc'.pc = "attempt" /\ proc'.kept = "none"
    BY <1>3, <2>1, GoesTo, Fields DEF UpdateEnds
  <2> QED BY <1>3, <2>1, <2>2, NoCommit, EndsMarker DEF UpdateEnds, End, hubVars, handVars
<1>4. CASE NoDrop
  <2>1. head.own = 0 /\ proc.kept = "none" /\ marker = NoMarker
    BY <1>4 DEF IInv, StageOK, NoDrop, At
  <2>2. /\ proc'.pc \in {"idle", "op"} /\ proc'.kept = "none"
        /\ proc'.pc = "op" /\ proc'.kind = "ingest" => ~Untracked("inbox")
    BY <1>4, <2>1, GoesTo, Fields DEF NoDrop
  <2>3. Untracked("inbox")' <=> Untracked("inbox")
    BY <1>4 DEF NoDrop, Untracked, Tracked
  <2> QED BY <1>4, <2>1, <2>2, <2>3, NoCommit, EndsMarker DEF NoDrop, hubVars, handVars, Idle
<1>5. CASE SendOK
  <2>1. /\ head' = Settled /\ Settled.own = 0 /\ Settled.tree = head.tree /\ Shared(head.tree)
        /\ proc.kept = "none"
    BY <1>5 DEF SendOK, Settled, IInv, HistoryOK, StageOK, At
  <2>2. proc'.pc \in {"op", "idle"} /\ proc'.kept = "none"
    BY <1>5, <2>1, GoesTo, Fields DEF SendOK
  <2>3. ASSUME proc'.pc = "op" PROVE ~Untracked("inbox")'
    <3>1. proc.load = "inbox"
      BY <1>5, <2>3, GoesTo, Fields DEF SendOK
    <3>2. head.tree["inbox"] # No
      BY <1>5, <3>1 DEF SendOK, IInv, StageOK, Sending, Differs, Path, At
    <3> QED BY <2>1, <3>2 DEF Untracked, Tracked
  <2>4. past' = past
    BY <1>5 DEF SendOK
  <2> QED BY <1>5, <2>1, <2>2, <2>3, <2>4, EndsMarker DEF SendOK, End, handVars, FetchHub, Idle, Shared
<1> QED BY <1>1, <1>2, <1>3, <1>4, <1>5

LEMMA RecoverKeeps ==
    ASSUME Shape, IInv, RecoverUncommitted \/ RecoverCommitted
    PROVE  IInv'
<1>1. marker # NoMarker /\ marker.op # "none" /\ proc.kept = "none"
    BY NotKept DEF RecoverUncommitted, RecoverCommitted, IInv, StageOK, At
<1>2. CASE RecoverUncommitted
    BY <1>1, <1>2, StartsUndo DEF RecoverUncommitted, hubVars, handVars
<1>3. CASE RecoverCommitted /\ head.own = 0
  <2>1. End /\ Go("update") /\ UNCHANGED <<head, landed>>
    BY <1>3 DEF RecoverCommitted
  <2> QED BY <1>1, <1>3, <2>1, GoesTo, Fields, NoCommit, EndsMarker
          DEF RecoverCommitted, End, handVars, FetchHub, Shared
<1>4. CASE RecoverCommitted /\ head.own # 0 /\ landed
  <2>1. End /\ Go("update") /\ head' = Settled /\ landed' = FALSE /\ past' = past
    BY <1>4 DEF RecoverCommitted
  <2>2. Settled.own = 0 /\ Settled.tree = head.tree /\ Shared(head.tree)
    BY <1>4 DEF Settled, IInv, HistoryOK
  <2>3. proc'.pc = "update" /\ proc'.kept = "none"
    BY <1>1, <2>1, GoesTo, Fields
  <2>4. UNCHANGED <<hub, past, flying, disk, quarantine, owed>> /\ remote' = hub
    BY <1>4 DEF RecoverCommitted, handVars, FetchHub
  <2>5. marker' = NoMarker
    BY <2>1 DEF End
  <2> QED BY <2>1, <2>2, <2>3, <2>4, <2>5, EndsMarker
<1>5. CASE RecoverCommitted /\ head.own # 0 /\ ~landed
  <2>1. UndoWith(Differs(head.tree, marker.tree), TRUE, "update") /\ UNCHANGED <<marker, head, landed>>
    BY <1>5 DEF RecoverCommitted
  <2>2. Differs(head.tree, marker.tree) \in SUBSET Path
    BY DifferIn
  <2> QED BY <1>1, <1>5, <2>1, <2>2, StartsUndo DEF RecoverCommitted, handVars, FetchHub
<1> QED BY <1>2, <1>3, <1>4, <1>5

LEMMA ResetsKeeps ==
    ASSUME Shape, IInv, Resets
    PROVE  IInv'
<1>1. /\ At("reset") /\ head'.own = 0 /\ head'.tree = marker.tree /\ landed' = FALSE
      /\ UNCHANGED <<hub, past, flying, remote, disk, marker, quarantine, owed>>
    BY DEF Resets, handVars
<1>2. /\ proc'.pc = "undo" /\ proc'.mine = proc.mine /\ proc'.sweep = proc.sweep
      /\ proc'.kept = proc.kept /\ proc.kept = "none"
      /\ Committed' <=> head.own # 0
      /\ head.own # 0 => proc'.pre = head.tree
    BY NotKept, Fields DEF Resets, AnyProc, IInv, StageOK, Committed, At
<1>3. StageOK'
    BY <1>1, <1>2 DEF IInv, StageOK, At, Working, Sending, Undoing, OfSave
<1>4. SafeOK'
  <2>1. UndoOK'
    BY <1>1, <1>2, ProcFields, Fields DEF IInv, SafeOK, OwnOK, UndoOK, OwnDrop, SafeText, At
  <2> QED BY <1>1, <1>2, <2>1
          DEF SafeOK, KeptOK, MergeOK, SourceOK, WrittenOK, ListedOK, OwnOK, At, Working
<1>5. HistoryOK'
    BY <1>1 DEF IInv, HistoryOK, Shared
<1>6. SentOK'
    BY <1>1, <1>2 DEF IInv, SentOK, OnlyInboxIsSent, NotByHand, At, Working
<1>7. NoTextLost'
    BY <1>1, NothingGone DEF IInv
<1> QED BY <1>3, <1>4, <1>5, <1>6, <1>7 DEF IInv

\* Files that are copied, put back or moved away.
LEMMA TidyKeeps ==
    ASSUME Shape, IInv, NEW f \in Path,
           \/ Cleanses(f) \/ UndoesNote(f) \/ UndoesFile(f) \/ ClearsNote(f) \/ ClearsFile(f)
           \/ SetsAsideStray(f)
    PROVE  IInv'
<1>1. CASE Cleanses(f)
    BY <1>1, Keeping DEF Cleanses, Tidying, At
<1>2. CASE UndoesNote(f)
  <2>1. Tidying /\ ~At("attempt") /\ Tracked(f)
    BY <1>2 DEF UndoesNote, Undoes, Tidying, At
  <2>2. CASE Proven(f)
    <3>1. ~OwnDrop(f)
      BY <1>2, <2>1 DEF OwnDrop, Tracked, UndoesNote, Undoes, IInv, StageOK
    <3>4. SafeText(disk[f])
      <4>1. CASE marker.op = "update"
        BY <2>2, <4>1, SharedIsSafe, Fields DEF Proven, IInv, HistoryOK
      <4>2. CASE marker.op # "update"
        BY <1>2, <2>2, <3>1, <4>2 DEF Proven, UndoesNote, Undoes, IInv, SafeOK, UndoOK
      <4> QED BY <4>1, <4>2
    <3> QED BY <1>2, <2>1, <2>2, <3>4, FindingOwn DEF UndoesNote
  <2>3. CASE ~Proven(f)
    BY <1>2, <2>1, <2>3, Keeping DEF UndoesNote
  <2> QED BY <2>2, <2>3
<1>3. CASE UndoesFile(f)
  <2>1. Tidying /\ proc.kept = "none"
    BY <1>3 DEF UndoesFile, Undoes, Tidying
  <2>2. CASE Doubtful(f)
    BY <1>3, <2>1, <2>2, MovingAway DEF UndoesFile
  <2>3. CASE ~Doubtful(f)
    <3>1. /\ f \in proc.mine /\ FindsOwn(f) /\ head.tree = marker.tree /\ marker.tree[f] = No
          /\ f # "inbox" /\ At("undo")
      BY <1>3, <2>3 DEF UndoesFile, Undoes, Tracked, IInv, StageOK
    <3>2. Committed => disk[f] = proc.pre[f]
      BY <2>3, <3>1 DEF Doubtful, IInv, StageOK, Differs
    <3>3. SafeText(disk[f])
      BY <3>1, <3>2 DEF IInv, SafeOK, UndoOK, OwnDrop
    <3> QED BY <2>1, <3>1, <3>3, FindingOwn DEF At
  <2> QED BY <2>2, <2>3
<1>4. CASE ClearsNote(f)
    BY <1>4, Keeping DEF ClearsNote, Tidying, At
<1>5. CASE ClearsFile(f)
  <2>1. Tidying /\ ~At("attempt") /\ proc.kept = "none"
    BY <1>5 DEF ClearsFile, Tidying, At
  <2>2. CASE disk[f] = remote.tree[f]
    <3>1. SafeText(disk[f])
      BY <2>2, SharedIsSafe, Fields DEF IInv, HistoryOK
    <3> QED BY <1>5, <2>1, <2>2, <3>1, FindingOwn DEF ClearsFile
  <2>3. CASE disk[f] # remote.tree[f]
    BY <1>5, <2>1, <2>3, MovingAway DEF ClearsFile
  <2> QED BY <2>2, <2>3
<1>6. CASE SetsAsideStray(f)
    BY <1>6, NotKept, MovingAway DEF SetsAsideStray, Tidying, At
<1> QED BY <1>1, <1>2, <1>3, <1>4, <1>5, <1>6

LEMMA PutsBackKeptKeeps ==
    ASSUME Shape, IInv, PutsBackKept
    PROVE  IInv'
<1>1. /\ Tidying /\ proc.kept \in Path
      /\ SafeText(disk[proc.kept]) \/ Exempt(disk[proc.kept])
    BY ProcFields, Fields DEF PutsBackKept, IInv, StageOK, SafeOK, KeptOK, Tidying
<1> QED BY <1>1, PuttingBack DEF PutsBackKept

LEMMA UpdateStartsKeeps ==
    ASSUME Shape, IInv, UpdateStarts
    PROVE  IInv'
<1>1. /\ marker = NoMarker /\ head.own = 0 /\ proc.kept = "none" /\ At("update")
      /\ UNCHANGED <<hub, past, flying, landed, head, disk, owed>> /\ remote' = hub
    BY DEF UpdateStarts, FetchHub, hubVars, handVars, IInv, StageOK, At
<1>2. CASE head.ver = hub.ver
  <2>1. proc'.pc = "attempt" /\ proc'.kept = "none" /\ UNCHANGED <<marker, quarantine>>
    BY <1>1, <1>2, GoesTo, Fields DEF UpdateStarts
  <2> QED BY <1>1, <2>1, NoCommit, EndsMarker
<1>3. CASE head.ver # hub.ver
  <2>1. proc'.pc = "touch" /\ proc'.kept = "none" /\ Begin("update")
    BY <1>1, <1>3, GoesTo, Fields DEF UpdateStarts
  <2>2. /\ marker'.op = "update" /\ marker'.tree = head.tree /\ quarantine \subseteq quarantine'
        /\ \A f \in marker'.untracked : marker'.tree[f] = No
    BY <2>1, BeginTyped DEF Untracked, Tracked
  <2>3. StageOK'
    BY <1>1, <2>1, <2>2 DEF StageOK, At, Working, Sending, Undoing, OfSave
  <2>4. SafeOK'
    BY <1>1, <2>1
       DEF SafeOK, KeptOK, MergeOK, SourceOK, WrittenOK, ListedOK, OwnOK, UndoOK, At, Working
  <2>5. HistoryOK'
    BY <1>1, <2>2, HistoryStays DEF IInv
  <2>6. SentOK'
    BY <1>1, <2>1 DEF IInv, SentOK, OnlyInboxIsSent, NotByHand, At, Working
  <2>7. NoTextLost'
    BY <1>1, <2>2, NothingGone DEF IInv
  <2> QED BY <2>3, <2>4, <2>5, <2>6, <2>7 DEF IInv
<1> QED BY <1>2, <1>3

LEMMA MergesKeeps ==
    ASSUME Shape, IInv, Merges
    PROVE  IInv'
<1>1. /\ marker.op = "update" /\ head.own = 0 /\ proc.kept = "none"
      /\ UNCHANGED <<hub, past, flying, landed, head, remote, disk, marker, quarantine, owed>>
    BY DEF Merges, hubVars, handVars, IInv, StageOK, At
<1>2. CASE Touched \cap Differing = {}
           /\ proc' = [proc EXCEPT !.pc = "merging", !.todo = Touched]
  <2>1. proc'.pc = "merging" /\ proc'.todo = Touched /\ proc'.kept = "none"
    BY <1>1, <1>2, Fields DEF AnyProc
  <2>2. \A f \in Touched : f \in Path /\ disk[f] = head.tree[f]
    BY <1>2 DEF Differing, Touched, Differs, Changed, Untracked, Tracked
  <2>3. StageOK'
    BY <1>1, <2>1 DEF IInv, StageOK, At, Working, Sending, Undoing, OfSave
  <2>4. SafeOK'
    BY <1>1, <2>1, <2>2
       DEF SafeOK, KeptOK, MergeOK, SourceOK, WrittenOK, ListedOK, OwnOK, UndoOK, At, Working
  <2>5. HistoryOK'
    BY <1>1, HistoryStays DEF IInv
  <2>6. SentOK'
    BY <1>1, <2>1 DEF IInv, SentOK, OnlyInboxIsSent, NotByHand, At, Working
  <2>7. NoTextLost'
    BY <1>1, NothingGone DEF IInv
  <2> QED BY <2>3, <2>4, <2>5, <2>6, <2>7 DEF IInv
<1>3. CASE proc' = Free
    BY <1>1, <1>3, GoesTo, Fields, GoesIdle DEF Idle
<1> QED BY <1>2, <1>3 DEF Merges

LEMMA MergesFileKeeps ==
    ASSUME Shape, IInv, NEW f \in Path, MergesFile(f)
    PROVE  IInv'
<1>1. /\ marker.op = "update" /\ head.own = 0 /\ proc.kept = "none" /\ f \in proc.todo
      /\ disk' = [disk EXCEPT ![f] = remote.tree[f]] /\ At("merging")
      /\ UNCHANGED <<hub, past, flying, landed, head, remote, marker, quarantine, owed, edits>>
    BY DEF MergesFile, hubVars, handVars, IInv, StageOK, At
<1>2. proc'.pc = "merging" /\ proc'.todo = proc.todo \ {f} /\ proc'.kept = "none"
    BY <1>1, Fields DEF MergesFile, AnyProc, At
<1>3. \A g \in Path \ {f} : disk'[g] = disk[g]
    BY <1>1, Fields, TreeFacts
<1>4. SafeText(disk[f]) \/ disk[f].has \notin owed
    BY <1>1, SharedIsSafe, Fields DEF IInv, SafeOK, MergeOK, HistoryOK, Exempt
<1>5. StageOK'
    BY <1>1, <1>2 DEF IInv, StageOK, At, Working, Sending, Undoing, OfSave
<1>6. SafeOK'
    BY <1>1, <1>2, <1>3, ProcFields, Fields
       DEF IInv, SafeOK, KeptOK, MergeOK, SourceOK, WrittenOK, ListedOK, OwnOK, UndoOK, Exempt,
           At, Working
<1>7. HistoryOK'
    BY <1>1, HistoryStays DEF IInv
<1>8. SentOK'
    BY <1>1, <1>2 DEF IInv, SentOK, OnlyInboxIsSent, NotByHand, At, Working
<1>9. NoTextLost'
  <2>1. SafeAfter(disk[f]) \/ disk[f].has \notin owed
    BY <1>1, <1>4 DEF SafeText, SafeAfter
  <2> QED BY <1>1, <1>3, <2>1, NothingGone DEF IInv
<1> QED BY <1>5, <1>6, <1>7, <1>8, <1>9 DEF IInv

LEMMA MergedKeeps ==
    ASSUME Shape, IInv, Merged
    PROVE  IInv'
<1>1. /\ marker.op = "update" /\ head.own = 0 /\ proc.kept = "none" /\ ~landed
      /\ head'.own = 0 /\ head'.tree = remote.tree
      /\ UNCHANGED <<hub, past, flying, landed, remote, disk, marker, quarantine, owed>>
    BY DEF Merged, hubVars, handVars, IInv, StageOK, HistoryOK, At
<1>2. proc'.pc = "merged" /\ proc'.kept = "none"
    BY <1>1, GoesTo, Fields DEF Merged
<1>3. StageOK'
    BY <1>1, <1>2 DEF IInv, StageOK, At, Working, Sending, Undoing, OfSave
<1>4. SafeOK'
    BY <1>1, <1>2
       DEF SafeOK, KeptOK, MergeOK, SourceOK, WrittenOK, ListedOK, OwnOK, UndoOK, At, Working
<1>5. HistoryOK'
    BY <1>1 DEF IInv, HistoryOK, Shared
<1>6. SentOK'
    BY <1>1, <1>2 DEF IInv, SentOK, OnlyInboxIsSent, NotByHand, At, Working
<1>7. NoTextLost'
    BY <1>1, NothingGone DEF IInv
<1> QED BY <1>3, <1>4, <1>5, <1>6, <1>7 DEF IInv

\* When a marker is made for a save, nothing is written yet.
LEMMA BeginSave ==
    ASSUME Shape, IInv, NEW op \in OfSave, Begin(op), head.own = 0,
           UNCHANGED <<hub, past, flying, landed, head, remote, disk, owed>>
    PROVE  /\ marker'.op = op /\ marker'.tree = head.tree /\ quarantine \subseteq quarantine'
           /\ marker'.untracked = {f \in Path : Untracked(f)}
           /\ \A f \in marker'.untracked : head.tree[f] = No
           /\ \A f \in Path \ marker'.untracked : SafeText(disk[f])'
           /\ \A f \in Path : Untouched(f)'
           /\ HistoryOK' /\ NoTextLost'
<1>1. /\ marker'.op = op /\ marker'.tree = head.tree /\ quarantine \subseteq quarantine'
      /\ marker'.untracked = {f \in Path : Untracked(f)}
      /\ DOMAIN marker'.dirty = {f \in Path : Changed(f)}
      /\ \A f \in DOMAIN marker'.dirty : marker'.dirty[f] = disk[f]
      /\ \A f \in Path : Changed(f) /\ disk[f] # No => <<f, disk[f]>> \in quarantine'
    BY BeginTyped DEF OfSave
<1>2. \A f \in marker'.untracked : head.tree[f] = No
    BY <1>1 DEF Untracked, Tracked
<1>3. \A f \in Path \ marker'.untracked : SafeText(disk[f])'
  <2> SUFFICES ASSUME NEW f \in Path, ~Untracked(f) PROVE SafeText(disk[f])'
    BY <1>1
  <2>1. CASE disk[f] = head.tree[f]
    <3>1. SafeText(disk[f])
      BY <2>1, NoCommit, SharedIsSafe, Fields
    <3> QED BY <1>1, <3>1 DEF SafeText
  <2>2. CASE disk[f] # head.tree[f]
    <3>1. Changed(f)
      BY <2>2 DEF Untracked, Changed, Tracked
    <3>2. disk[f] = No \/ <<f, disk[f]>> \in quarantine'
      BY <1>1, <3>1
    <3> QED BY <3>2, Texts DEF SafeText
  <2> QED BY <2>1, <2>2
<1>4. \A f \in Path : Untouched(f)'
    BY <1>1 DEF Untouched, UnchangedSinceBegin, Untracked, Changed, Tracked
<1>5. HistoryOK'
    BY <1>1, HistoryStays DEF IInv
<1>6. NoTextLost'
    BY <1>1, NothingGone DEF IInv
<1> QED BY <1>1, <1>2, <1>3, <1>4, <1>5, <1>6

LEMMA SendsDropKeeps ==
    ASSUME Shape, IInv, SendsDrop
    PROVE  IInv'
<1>1. /\ Begin("inbox") /\ head.own = 0 /\ proc.kept = "none" /\ Untracked("inbox")
      /\ UNCHANGED <<hub, past, flying, landed, head, remote, disk, owed>>
    BY DEF SendsDrop, hubVars, handVars, IInv, StageOK, At
<1>2. /\ marker'.op = "inbox" /\ marker'.tree = head.tree
      /\ \A f \in marker'.untracked : head.tree[f] = No
      /\ HistoryOK' /\ NoTextLost'
    BY <1>1, BeginSave DEF OfSave
<1>3. /\ proc'.pc = "ready" /\ proc'.load = "inbox" /\ proc'.mine = {"inbox"} /\ proc'.kept = "none"
    BY <1>1, Fields DEF SendsDrop, AnyProc
<1>4. StageOK'
    BY <1>1, <1>2, <1>3 DEF StageOK, At, Working, Sending, Undoing, OfSave, Untracked, Tracked
<1>5. SafeOK'
    BY <1>1, <1>2, <1>3
       DEF SafeOK, KeptOK, MergeOK, SourceOK, WrittenOK, ListedOK, OwnOK, UndoOK, At, Working,
           Differing, Untracked, Tracked, Path
<1>6. SentOK'
    BY <1>1, <1>3 DEF IInv, SentOK, OnlyInboxIsSent, NotByHand, At, Working
<1> QED BY <1>2, <1>4, <1>5, <1>6 DEF IInv

LEMMA BeginsOpKeeps ==
    ASSUME Shape, IInv, BeginsOp
    PROVE  IInv'
<1>1. /\ Begin("op") /\ head.own = 0 /\ proc.kept = "none"
      /\ proc.kind = "ingest" => ~Untracked("inbox")
      /\ UNCHANGED <<hub, past, flying, landed, head, remote, disk, owed>>
    BY DEF BeginsOp, hubVars, handVars, IInv, StageOK, SafeOK, SourceOK, At
<1>2. /\ marker'.op = "op" /\ marker'.tree = head.tree
      /\ marker'.untracked = {f \in Path : Untracked(f)}
      /\ \A f \in marker'.untracked : head.tree[f] = No
      /\ \A f \in Path \ marker'.untracked : SafeText(disk[f])'
      /\ \A f \in Path : Untouched(f)'
      /\ HistoryOK' /\ NoTextLost'
    BY <1>1, BeginSave DEF OfSave
<1>3. /\ proc'.pc = "run" /\ proc'.load = "op" /\ proc'.kind = proc.kind /\ proc'.kept = "none"
    BY <1>1, Fields DEF BeginsOp, AnyProc
<1>4. StageOK'
    BY <1>1, <1>2, <1>3 DEF StageOK, At, Working, Sending, Undoing, OfSave
<1>5. SafeOK'
    BY <1>1, <1>2, <1>3
       DEF SafeOK, KeptOK, MergeOK, SourceOK, WrittenOK, ListedOK, OwnOK, UndoOK, At, Working
<1>6. SentOK'
    BY <1>1, <1>2, <1>3 DEF IInv, SentOK, OnlyInboxIsSent, NotByHand, At, Working
<1> QED BY <1>2, <1>4, <1>5, <1>6 DEF IInv

\* What an operation writes: it keeps the texts of people that it read, and what
\* it removes is safe.
LEMMA WriteKeeps ==
    ASSUME Shape, IInv, proc.pc \in Working, NEW f \in Path, NEW t \in Text, Write(<<f, t>>),
           f = "added" \/ disk[f].has = t.has \/ SafeText(disk[f]),
           f \notin marker.untracked => SafeText(t),
           t.by = "op" \/ f = "inbox",
           proc'.pc \in Working, proc'.load = proc.load, proc'.kind = proc.kind,
           proc'.pc = "ran" => proc.pc = "run",
           proc'.pc # "run", proc'.kept = proc.kept,
           UNCHANGED <<hub, past, flying, landed, head, remote, marker, quarantine, owed>>
    PROVE  IInv'
<1>1. CASE disk' = disk
  <2>1. StageOK'
    BY <1>1 DEF IInv, StageOK, At, Working, Sending, Undoing, OfSave
  <2>0. proc.kept = "none"
    BY NotKept DEF IInv, StageOK, At, Working
  <2>2. SafeOK'
    BY <1>1, <2>0 DEF IInv, SafeOK, KeptOK, MergeOK, SourceOK, WrittenOK, ListedOK, OwnOK, UndoOK,
                SafeText, OwnDrop, At, Working
  <2>3. SentOK'
    BY <1>1 DEF IInv, SentOK, OnlyInboxIsSent, NotByHand, Untouched, UnchangedSinceBegin, At, Working
  <2> QED BY <1>1, <2>1, <2>2, <2>3, HistoryStays, NothingGone DEF IInv
<1>2. CASE disk' # disk
  <2>1. /\ disk' = [disk EXCEPT ![f] = t] /\ (f = "added" => disk[f] = No)
    BY <1>2 DEF Write
  <2>2. /\ disk'[f] = t /\ \A g \in Path \ {f} : disk'[g] = disk[g]
    BY <2>1, Fields, TreeFacts
  <2>3. \A u : SafeText(u) <=> SafeText(u)'
    BY DEF SafeText
  <2>4. proc.kept = "none" /\ head.own = 0
    BY NotKept DEF IInv, StageOK, At, Working
  <2>5. StageOK'
    BY <2>4 DEF IInv, StageOK, At, Working, Sending, Undoing, OfSave
  <2>6. SafeOK'
    <3>1. WrittenOK'
      BY <2>2, <2>3 DEF IInv, SafeOK, WrittenOK, Working, At
    <3> QED BY <2>4, <3>1 DEF IInv, SafeOK, KeptOK, MergeOK, SourceOK, ListedOK, OwnOK, UndoOK, At, Working
  <2>7. HistoryOK'
    BY HistoryStays DEF IInv
  <2>8. SentOK'
    <3>1. \A g \in Path \ {f} : Untouched(g) => Untouched(g)'
      BY <2>2 DEF Untouched, UnchangedSinceBegin
    <3>2. \A g \in Path : Untouched(g)' \/ disk'[g].by = "op" \/ g = "inbox"
      BY <2>2, <3>1 DEF IInv, SentOK
    <3> QED BY <2>4, <3>2 DEF IInv, SentOK, OnlyInboxIsSent, NotByHand, At, Working
  <2>9. NoTextLost'
    <3>1. \A g \in Path : disk'[g].has = disk[g].has \/ SafeAfter(disk[g])
      BY <2>1, <2>2, Texts DEF SafeText, SafeAfter
    <3> QED BY <3>1, NothingGone DEF IInv
  <2> QED BY <2>5, <2>6, <2>7, <2>8, <2>9 DEF IInv
<1> QED BY <1>1, <1>2

LEMMA OpWritesKeeps ==
    ASSUME Shape, OpKind, IInv, OpWrites
    PROVE  IInv'
<1>1. /\ At("run") /\ proc.kind \in {"commit", "capture", "ingest"} /\ Write(FirstWrite)
      /\ UNCHANGED <<hub, past, flying, landed, head, remote, marker, quarantine, owed>>
    BY DEF OpWrites, OpKind, At, hubVars, handVars
<1>2. /\ proc'.pc = "ran" /\ proc'.load = proc.load /\ proc'.kind = proc.kind /\ proc'.kept = proc.kept
    BY GoesTo, Fields DEF OpWrites
<1>3. saves \in Nat /\ \A f \in Path : disk[f] \in Text /\ disk[f].has \in Nat
    BY Fields, TreeFacts DEF Shape, Text
<1>4. \A f \in Path \ marker.untracked : SafeText(disk[f])
    BY <1>1 DEF IInv, SafeOK, WrittenOK, Working, At
<1>5. CASE proc.kind = "commit"
  <2> DEFINE t == ByOp(saves, disk["note"].has)
  <2>1. t \in Text /\ t.has = disk["note"].has /\ t.by = "op" /\ FirstWrite = <<"note", t>>
    BY <1>3, <1>5, Texts DEF FirstWrite, Path
  <2>2. "note" \notin marker.untracked => SafeText(t)
    BY <1>4, <2>1 DEF SafeText, Path
  <2> HIDE DEF t
  <2> QED BY <1>1, <1>2, <2>1, <2>2, WriteKeeps DEF Path, Working, At
<1>6. CASE proc.kind = "capture"
  <2> DEFINE t == ByOp(saves, 0)
  <2>1. t \in Text /\ SafeText(t) /\ t.by = "op" /\ FirstWrite = <<"added", t>>
    BY <1>3, <1>6, Texts DEF FirstWrite, SafeText
  <2> HIDE DEF t
  <2> QED BY <1>1, <1>2, <2>1, WriteKeeps DEF Path, Working, At
<1>7. CASE proc.kind = "ingest"
  <2> DEFINE t == ByOp(saves, disk["inbox"].has)
  <2>1. t \in Text /\ t.has = disk["inbox"].has /\ t.by = "op" /\ FirstWrite = <<"added", t>>
    BY <1>3, <1>7, Texts DEF FirstWrite, Path
  <2>2. "inbox" \notin marker.untracked
    BY <1>1, <1>7 DEF IInv, SafeOK, SourceOK, At
  <2>3. SafeText(t)
    BY <1>4, <2>1, <2>2 DEF SafeText, Path
  <2> HIDE DEF t
  <2> QED BY <1>1, <1>2, <2>1, <2>3, WriteKeeps DEF Path, Working, At
<1> QED BY <1>1, <1>5, <1>6, <1>7

LEMMA OpEndsKeeps ==
    ASSUME Shape, OpKind, IInv, OpEnds
    PROVE  IInv'
<1>1. /\ At("ran") /\ proc.kind \in {"commit", "capture", "ingest"} /\ Write(LastWrite)
      /\ UNCHANGED <<hub, past, flying, landed, head, remote, marker, quarantine, owed>>
    BY DEF OpEnds, OpKind, At, hubVars, handVars
<1>2. /\ proc'.pc = "written" /\ proc'.load = proc.load /\ proc'.kind = proc.kind /\ proc'.kept = proc.kept
    BY GoesTo, Fields DEF OpEnds
<1>3. saves \in Nat /\ \A f \in Path : disk[f] \in Text /\ disk[f].has \in Nat
    BY Fields, TreeFacts DEF Shape, Text
<1>4. \A f \in Path \ marker.untracked : SafeText(disk[f])
    BY <1>1 DEF IInv, SafeOK, WrittenOK, Working, At
<1>5. CASE proc.kind = "commit"
  <2> DEFINE t == ByOp(saves, 0)
  <2>1. t \in Text /\ SafeText(t) /\ t.by = "op" /\ LastWrite = <<"added", t>>
    BY <1>3, <1>5, Texts DEF LastWrite, SafeText
  <2> HIDE DEF t
  <2> QED BY <1>1, <1>2, <2>1, WriteKeeps DEF Path, Working, At
<1>6. CASE proc.kind = "capture"
  <2> DEFINE t == ByOp(saves, disk["note"].has)
  <2>1. t \in Text /\ t.has = disk["note"].has /\ t.by = "op" /\ LastWrite = <<"note", t>>
    BY <1>3, <1>6, Texts DEF LastWrite, Path
  <2>2. "note" \notin marker.untracked => SafeText(t)
    BY <1>4, <2>1 DEF SafeText, Path
  <2> HIDE DEF t
  <2> QED BY <1>1, <1>2, <2>1, <2>2, WriteKeeps DEF Path, Working, At
<1>7. CASE proc.kind = "ingest"
  <2>1. SafeText(No) /\ LastWrite = <<"inbox", No>>
    BY <1>7, Texts DEF LastWrite, SafeText
  <2>2. "inbox" \notin marker.untracked
    BY <1>1, <1>7 DEF IInv, SafeOK, SourceOK, At
  <2>3. SafeText(disk["inbox"])
    BY <1>4, <2>2 DEF Path
  <2> QED BY <1>1, <1>2, <2>1, <2>3, Texts, WriteKeeps DEF Path, Working, At
<1> QED BY <1>1, <1>5, <1>6, <1>7

\* A save or a drop is undone before it was committed.
LEMMA UndoneEarly ==
    ASSUME Shape, IInv, NEW mine \in SUBSET Path, NEW sweep \in BOOLEAN, NEW then,
           UndoWith(mine, sweep, then), proc.pc \in Working \cup {"ready"},
           sweep => mine = {}, \A f \in mine : OwnDrop(f) \/ SafeText(disk[f]),
           UNCHANGED <<hub, past, flying, head, landed, remote, disk, marker, quarantine, owed>>
    PROVE  IInv'
<1>1. head.own = 0 /\ marker.op \in OfSave /\ marker.op # "none"
    BY DEF IInv, StageOK, OfSave
<1>2. proc.kept = "none"
    BY NotKept DEF At, Working
<1> QED BY <1>1, <1>2, StartsUndo

\* What an operation wrote is none of the files it found, and so it is safe.
LEMMA WrittenIsOwn ==
    ASSUME Shape, IInv, At("written")
    PROVE  /\ Written \subseteq Path /\ Written \subseteq Differing
           /\ \A f \in Written : /\ f \notin marker.untracked /\ SafeText(disk[f])
                                 /\ disk[f].by = "op" \/ f = "inbox"
<1>1. head.tree = marker.tree
    BY DEF IInv, StageOK, At, Working
<1>2. Written \subseteq Path /\ Written \subseteq Differing
    BY DEF Written, Differing
<1>3. ASSUME NEW f \in Written PROVE f \notin marker.untracked
    BY <1>1, <1>2 DEF IInv, StageOK, Written, Differing, Changed, Untracked, Tracked
<1>4. ASSUME NEW f \in Written PROVE SafeText(disk[f])
    BY <1>2, <1>3 DEF IInv, SafeOK, WrittenOK, At, Working
<1>5. ASSUME NEW f \in Written PROVE disk[f].by = "op" \/ f = "inbox"
  <2>1. ~UnchangedSinceBegin(f) /\ disk[f] # head.tree[f]
    BY DEF Written, Differing, Changed, Untracked, Tracked
  <2> QED BY <1>2, <1>3, <2>1 DEF IInv, SentOK, Untouched, At, Working
<1> QED BY <1>2, <1>3, <1>4, <1>5

LEMMA ListsWrittenKeeps ==
    ASSUME Shape, IInv, ListsWritten
    PROVE  IInv'
<1>1. /\ At("written") /\ proc.kept = "none" /\ proc.load = "op" /\ head.own = 0
      /\ marker.op = "op" /\ head.tree = marker.tree
      /\ UNCHANGED <<hub, past, flying, landed, head, remote, disk, quarantine, owed>>
    BY DEF ListsWritten, hubVars, handVars, IInv, StageOK, At, Working
<1>a. /\ Written \subseteq Path /\ Written \subseteq Differing
      /\ \A f \in Written : f \notin marker.untracked
      /\ \A f \in Written : SafeText(disk[f])
  <2>1. At("written")
    BY <1>1
  <2> QED BY <2>1, WrittenIsOwn
<1>2. CASE End /\ proc' = Free
    BY <1>1, <1>2, GoesTo, Fields, NoCommit, EndsMarker DEF End, Idle
<1>3. CASE UNCHANGED marker /\ proc' = [proc EXCEPT !.pc = "ready", !.mine = Written]
  <2>1. /\ proc'.pc = "ready" /\ proc'.mine = Written /\ proc'.load = "op" /\ proc'.kept = "none"
    BY <1>1, <1>3, Fields DEF AnyProc
  <2>2. StageOK'
    BY <1>1, <1>3, <2>1 DEF IInv, StageOK, At, Working, Sending, Undoing, OfSave
  <2>3. SafeOK'
    <3>1. WrittenOK'
      BY <1>1, <1>3 DEF IInv, SafeOK, WrittenOK, SafeText, Working, At
    <3>2. ListedOK'
      <4>1. Differing' = Differing
        BY <1>1 DEF Differing, Changed, Untracked, Tracked
      <4>2. Written \subseteq Differing' /\ Written \cap marker'.untracked = {}
        BY <1>a, <1>3, <4>1
      <4> QED BY <2>1, <4>2 DEF ListedOK
    <3> QED BY <1>1, <2>1, <3>1, <3>2 DEF SafeOK, KeptOK, MergeOK, SourceOK, OwnOK, UndoOK, At, Working
  <2>4. HistoryOK'
    BY <1>1, <1>3, HistoryStays DEF IInv
  <2>5. SentOK'
    BY <1>1, <2>1, WrittenIsOwn DEF IInv, SentOK, OnlyInboxIsSent, NotByHand, At, Working
  <2>6. NoTextLost'
    BY <1>1, NothingGone DEF IInv
  <2> QED BY <2>2, <2>3, <2>4, <2>5, <2>6 DEF IInv
<1>4. CASE UNCHANGED marker /\ UndoWith(Written, FALSE, "end")
  <2>1. UndoWith(Written, FALSE, "end") /\ proc.pc \in Working \cup {"ready"}
    BY <1>1, <1>4 DEF Working, At
  <2> HIDE DEF Written
  <2> QED BY <1>1, <1>a, <1>4, <2>1, UndoneEarly
<1> QED BY <1>2, <1>3, <1>4 DEF ListsWritten

\* What is listed is safe, or a drop.
LEMMA ListedIsSafe ==
    ASSUME Shape, IInv, At("ready")
    PROVE  \A f \in proc.mine : OwnDrop(f) \/ SafeText(disk[f])
<1>1. CASE proc.load = "inbox"
    BY <1>1 DEF IInv, StageOK, SafeOK, ListedOK, OwnDrop, At, Working
<1>2. CASE proc.load = "op"
    BY <1>2, ProcFields, Fields DEF IInv, SafeOK, ListedOK, WrittenOK, At
<1> QED BY <1>1, <1>2 DEF IInv, StageOK, OfSave, At, Working

LEMMA UndoneKeeps ==
    ASSUME Shape, IInv, OpFails \/ OpBreaks \/ CommitFails
    PROVE  IInv'
<1>1. CASE OpFails
  <2>1. UndoWith({}, TRUE, "end") /\ proc.pc \in Working
    BY <1>1 DEF OpFails, Working, At
  <2>2. UNCHANGED <<hub, past, flying, head, landed, remote, disk, marker, quarantine, owed>>
    BY <1>1 DEF OpFails, hubVars, handVars
  <2>3. {} \in SUBSET Path /\ TRUE \in BOOLEAN /\ \A f \in {} : OwnDrop(f) \/ SafeText(disk[f])
    OBVIOUS
  <2> QED BY <2>1, <2>2, <2>3, UndoneEarly
<1>2. CASE OpBreaks
  <2>1. UndoWith({}, TRUE, "end") /\ proc.pc \in Working
    BY <1>2 DEF OpBreaks, Working, At
  <2>2. UNCHANGED <<hub, past, flying, head, landed, remote, disk, marker, quarantine, owed>>
    BY <1>2 DEF OpBreaks, hubVars, handVars
  <2>3. {} \in SUBSET Path /\ TRUE \in BOOLEAN /\ \A f \in {} : OwnDrop(f) \/ SafeText(disk[f])
    OBVIOUS
  <2> QED BY <2>1, <2>2, <2>3, UndoneEarly
<1>3. CASE CommitFails
    BY <1>3, UndoneEarly, ListedIsSafe, ProcFields, Fields DEF CommitFails, hubVars, handVars, At
<1> QED BY <1>1, <1>2, <1>3

LEMMA CommitsKeeps ==
    ASSUME Shape, IInv, Commits
    PROVE  IInv'
<1>1. /\ At("ready") /\ proc.kept = "none" /\ head.own = 0 /\ marker.tree = head.tree
      /\ proc.load \in OfSave /\ marker.op = proc.load
      /\ UNCHANGED <<hub, past, flying, remote, disk, marker, quarantine, owed>> /\ landed' = FALSE
    BY DEF Commits, handVars, IInv, StageOK, At, Working
<1>2. /\ proc'.pc = "push" /\ proc'.mine = proc.mine /\ proc'.load = proc.load /\ proc'.kept = "none"
    BY <1>1, GoesTo, Fields DEF Commits
<1>3. /\ head'.tree = [f \in Path |-> IF f \in proc.mine THEN disk[f] ELSE head.tree[f]]
      /\ head'.own = FreshId
    BY DEF Commits, Shape
<1>4. /\ head'.own # 0 /\ \A r \in flying : r.id # head'.own
    BY <1>3, FreshIdTyped
<1>5. /\ proc.mine \subseteq Path
      /\ \A f \in proc.mine : /\ disk[f] # head.tree[f] /\ head'.tree[f] = disk[f]
                              /\ OwnDrop(f) \/ SafeText(disk[f])
                              /\ disk[f].by = "op" \/ f = "inbox"
      /\ \A f \in Path \ proc.mine : head'.tree[f] = head.tree[f]
  <2>1. proc.mine \subseteq Path
    BY ProcFields, Fields
  <2>2. \A f \in proc.mine : disk[f] # head.tree[f]
    BY <1>1 DEF IInv, SafeOK, ListedOK, Differing, Changed, Untracked, Tracked
  <2>3. \A f \in proc.mine : disk[f].by = "op" \/ f = "inbox"
    BY <1>1 DEF IInv, SentOK
  <2> QED BY <1>1, <1>3, <2>1, <2>2, <2>3, ListedIsSafe
<1>6. Differs(head'.tree, marker'.tree) = proc'.mine
  <2>1. marker'.tree = head.tree /\ proc'.mine = proc.mine
    BY <1>1, <1>2
  <2>2. \A f \in proc.mine : f \in Path /\ head'.tree[f] # head.tree[f]
    BY <1>5
  <2>3. \A f \in Path : head'.tree[f] # head.tree[f] => f \in proc.mine
    BY <1>5
  <2> QED BY <2>1, <2>2, <2>3 DEF Differs
<1>7. StageOK'
  <2>1. proc.load = "inbox" => proc.mine = {"inbox"}
    BY <1>1 DEF IInv, SafeOK, ListedOK
  <2> QED BY <1>1, <1>2, <1>3, <1>4, <1>6, <2>1 DEF IInv, StageOK, At, Working, Sending, Undoing, OfSave
<1>8. SafeOK'
  <2>1. OwnOK'
    <3>0. (\A t : SafeText(t) <=> SafeAfter(t)) /\ (\A f : OwnDrop(f) <=> OwnDrop(f)')
      BY <1>1 DEF SafeText, SafeAfter, OwnDrop
    <3>s. SUFFICES ASSUME NEW f \in Path PROVE OwnDrop(f) \/ SafeAfter(head'.tree[f])
      BY <3>0 DEF OwnOK, SafeText, SafeAfter
    <3>1. CASE f \in proc.mine
      <4>1. head'.tree[f] = disk[f]
        BY <1>5, <3>1
      <4>2. OwnDrop(f) \/ SafeText(disk[f])
        BY <1>5, <3>1
      <4> QED BY <3>0, <4>1, <4>2
    <3>2. CASE f \notin proc.mine
      <4>1. SafeText(head.tree[f])
        BY <1>1, NoCommit, SharedIsSafe, Fields
      <4> QED BY <1>5, <3>0, <3>2, <4>1
    <3> QED BY <3>1, <3>2
  <2> QED BY <1>2, <2>1 DEF SafeOK, KeptOK, MergeOK, SourceOK, WrittenOK, ListedOK, UndoOK, At, Working
<1>9. HistoryOK'
    BY <1>1, <1>4 DEF IInv, HistoryOK, Shared
<1>10. SentOK'
  <2>1. \A f \in Differs(head'.tree, marker'.tree) : head'.tree[f].by = "op" \/ f = "inbox"
    <3>1. \A f \in proc.mine : head'.tree[f] = disk[f]
      BY <1>5
    <3>2. \A f \in proc.mine : disk[f].by = "op" \/ f = "inbox"
      BY <1>5
    <3> QED BY <1>2, <1>6, <3>1, <3>2
  <2> QED BY <1>1, <1>2, <2>1 DEF IInv, SentOK, OnlyInboxIsSent, NotByHand, At, Working
<1>11. NoTextLost'
    BY <1>1, NothingGone DEF IInv
<1> QED BY <1>7, <1>8, <1>9, <1>10, <1>11 DEF IInv

\* A commit that is undone after it was made.
LEMMA UndoneLate ==
    ASSUME Shape, IInv, proc.pc \in Sending, NEW then, UndoWith(proc.mine, FALSE, then),
           UNCHANGED <<hub, past, head, landed, disk, marker, quarantine, owed>>,
           remote' \in {remote, hub}, flying' \subseteq flying
    PROVE  IInv'
<1>1. /\ proc.kept = "none" /\ head.own # 0 /\ marker.op \in OfSave /\ marker.op # "none"
      /\ proc.mine = Differs(head.tree, marker.tree) /\ proc.mine \in SUBSET Path
    BY ProcFields, Fields DEF IInv, StageOK, Sending, OfSave, At
<1> QED BY <1>1, StartsUndo

LEMMA PushesKeeps ==
    ASSUME Shape, IInv, Pushes
    PROVE  IInv'
<1>1. /\ At("push") /\ proc.kept = "none" /\ head.own # 0
      /\ UNCHANGED <<hub, past, landed, head, remote, disk, marker, quarantine, owed>>
    BY NotKept DEF Pushes, handVars, IInv, StageOK, Sending, At
<1>2. CASE hub.ver = head.ver
  <2> DEFINE own == [id |-> head.own, tree |-> head.tree]
  <2>1. flying' = flying \cup {own} /\ Go("wait")
    BY <1>2 DEF Pushes
  <2>2. /\ proc'.pc = "wait" /\ proc'.mine = proc.mine /\ proc'.load = proc.load /\ proc'.kept = "none"
    BY <1>1, <2>1, GoesTo, Fields
  <2>3. own.id = head.own /\ own.tree = head.tree
    OBVIOUS
  <2> HIDE DEF own
  <2>4. StageOK'
    BY <1>1, <2>2 DEF IInv, StageOK, At, Working, Sending, Undoing, OfSave
  <2>5. SafeOK'
    BY <1>1, <2>2 DEF IInv, SafeOK, KeptOK, MergeOK, SourceOK, WrittenOK, ListedOK, OwnOK, UndoOK,
                      SafeText, OwnDrop, At, Working
  <2>6. HistoryOK'
    BY <1>1, <2>1, <2>3 DEF IInv, HistoryOK, Shared
  <2>7. SentOK'
    <3>1. NotByHand(head.tree)
      <4> SUFFICES ASSUME NEW f \in Path, head.tree[f].by = "hand" PROVE f = "inbox"
        BY DEF NotByHand
      <4>1. CASE f \in Differs(head.tree, marker.tree)
        BY <1>1, <4>1 DEF IInv, SentOK
      <4>2. CASE f \notin Differs(head.tree, marker.tree)
        <5>1. <<f, marker.tree[f]>> \in past /\ marker.tree[f].by = "hand"
          BY <4>2, Fields, FilesOf, Texts DEF Differs, IInv, HistoryOK, Shared
        <5> QED BY <5>1 DEF IInv, SentOK, OnlyInboxIsSent
      <4> QED BY <4>1, <4>2
    <3> QED BY <1>1, <2>1, <2>2, <2>3, <3>1 DEF IInv, SentOK, OnlyInboxIsSent, NotByHand, At, Working
  <2>8. NoTextLost'
    BY <1>1, NothingGone DEF IInv
  <2> QED BY <2>4, <2>5, <2>6, <2>7, <2>8 DEF IInv
<1>3. CASE hub.ver # head.ver
  <2>1. UndoWith(proc.mine, FALSE, "retry") /\ UNCHANGED flying
    BY <1>3 DEF Pushes
  <2> QED BY <1>1, <2>1, UndoneLate DEF Sending, At
<1> QED BY <1>2, <1>3

LEMMA WaitKeeps ==
    ASSUME Shape, IInv, LosesRace \/ \E r \in flying : IsRefused(r)
    PROVE  IInv'
<1>1. CASE LosesRace
    BY <1>1, UndoneLate DEF LosesRace, hubVars, handVars, FetchHub, Sending, At
<1>2. ASSUME NEW r \in flying, IsRefused(r) PROVE IInv'
    BY <1>2, UndoneLate DEF IsRefused, handVars, Sending, At
<1> QED BY <1>1, <1>2

LEMMA StepKeeps ==
    ASSUME Shape, OpKind, IInv, Guarded, [Next]_vars
    PROVE  IInv'
<1>1. CASE UNCHANGED vars
  <2>1. StageOK'
    BY <1>1 DEF vars, IInv, StageOK, At, Committed
  <2>2. SafeOK'
    BY <1>1 DEF vars, IInv, SafeOK, KeptOK, MergeOK, SourceOK, WrittenOK, ListedOK, OwnOK, UndoOK,
                SafeText, Exempt, OwnDrop, Committed, Differing, Changed, Untracked, Tracked, At
  <2>3. SentOK'
    BY <1>1 DEF vars, IInv, SentOK, OnlyInboxIsSent, NotByHand, Untouched, UnchangedSinceBegin, At
  <2> QED BY <1>1, <2>1, <2>2, <2>3, HistoryStays, NothingGone DEF vars, IInv
<1>2. CASE Next
  <2>1. CASE AtRest
    BY <1>1, <2>1 DEF AtRest
  <2> QED BY <1>2, <2>1, WritesKeeps, ForeignKeeps, LandsKeeps, LostKeeps, IdleKeeps, EndsKeeps,
             RecoverKeeps, ResetsKeeps, TidyKeeps, LeavesKeeps, PutsBackKeptKeeps,
             UpdateStartsKeeps, MergesKeeps, MergesFileKeeps, MergedKeeps, SendsDropKeeps,
             BeginsOpKeeps, OpWritesKeeps, OpEndsKeeps, ListsWrittenKeeps, UndoneKeeps,
             CommitsKeeps, PushesKeeps, WaitKeeps
          DEF Next
<1> QED BY <1>1, <1>2

LEMMA InitKeeps ==
    ASSUME Init
    PROVE  IInv
<1>1. Shape
    BY InitIsTyped
<1>2. /\ proc.pc = "idle" /\ proc.kept = "none" /\ marker = NoMarker /\ head.own = 0 /\ ~landed
      /\ flying = {} /\ owed = {} /\ past = Files(hub.tree)
      /\ head.tree = hub.tree /\ remote.tree = hub.tree
    BY DEF Init, Free
<1>3. StageOK
    BY <1>2, NoMarkerTyped DEF StageOK, At, Working, Sending, Undoing, OfSave
<1>4. SafeOK
    BY <1>2 DEF SafeOK, KeptOK, MergeOK, SourceOK, WrittenOK, ListedOK, OwnOK, UndoOK, At, Working
<1>5. HistoryOK
    BY <1>2, NoIsShared DEF HistoryOK, Shared
<1>6. SentOK
  <2>1. \A f \in Path : hub.tree[f].by # "hand"
    BY Texts DEF Init
  <2>2. OnlyInboxIsSent
    BY <1>1, <1>2, <2>1, Fields, FilesOf DEF OnlyInboxIsSent
  <2> QED BY <1>2, <2>2 DEF SentOK, At, Working
<1>7. NoTextLost
    BY <1>2 DEF NoTextLost
<1> QED BY <1>3, <1>4, <1>5, <1>6, <1>7 DEF IInv

\* The invariant holds while nobody writes where the engine cannot tell.
THEOREM Invariance == ASSUME Guarded PROVE Spec => []IInv
<1> QED BY InitIsTyped, InitKeeps, StepIsTyped, StepKeeps, PTL DEF Spec

\* What a person wrote and did not write over is still in the folder, in the
\* history or set aside: setAside, Undo and Update of recover.go copy what they
\* cannot prove to be an operation's before they write over it. Not so of a text
\* written in a gap, after that copy or comparison and before the file is put
\* back; but whatever is written there, every other text is kept.
THEOREM NothingOfPeopleIsLost == ASSUME Guarded PROVE Spec => []NoTextLost
<1>1. IInv => NoTextLost
    BY DEF IInv
<1> QED BY <1>1, Invariance, PTL

\* A text that a person wrote outside the inbox is never sent as it stands:
\* changed (recover.go) leaves out what was untracked or edited at Begin.
THEOREM OnlyDropsAreSent == ASSUME Guarded PROVE Spec => []OnlyInboxIsSent
<1>1. IInv => OnlyInboxIsSent
    BY DEF IInv, SentOK
<1> QED BY <1>1, Invariance, PTL

(***************************************************************************)
(* The second invariant, step by step. Nobody takes a liberty.             *)
(***************************************************************************)
LEMMA FilesAreKnown ==
    /\ \A f \in Path : (disk[f] = head.tree[f] \/ disk[f] = No) => ~Stray(f)
    /\ \A f \in Path : disk[f] = No => Shown(f)
BY Texts DEF Stray, Untracked, Tracked, Shown

\* What an operation has in a shared tree is in the shared history, and no inbox
\* file of such a tree is an operation's.
LEMMA SharedIsShown ==
    ASSUME HalfOK, NEW t \in Tree, Shared(t)
    PROVE  /\ \A f \in Path : t[f].by = "op" => <<f, t[f]>> \in past
           /\ t["inbox"].by # "op"
<1>1. ASSUME NEW f \in Path, t[f].by = "op" PROVE <<f, t[f]>> \in past
    BY <1>1, FilesOf, Texts DEF Shared
<1>2. t["inbox"].by # "op"
    BY <1>1 DEF HalfOK, Path
<1> QED BY <1>1, <1>2

\* Steps that change neither the folder, nor its marker, nor a branch.
LEMMA SameFolder ==
    ASSUME Shape, JInv, UNCHANGED <<hub, past, landed, head, disk, marker, told>>,
           flying' \subseteq flying, remote' \in {remote, hub}
    PROVE  VersionsOK' /\ StraysOK' /\ HalfOK' /\ SavedIsShared'
<1>1. VersionsOK'
  <2>1. Known(hub.ver, hub.tree)
    BY Fields DEF Known
  <2> QED BY <2>1 DEF JInv, VersionsOK, Known, BaseTree
<1>2. StraysOK'
    BY DEF JInv, StraysOK, NoStray, Stray, HubHas, Untracked, Tracked
<1>3. HalfOK'
    BY DEF JInv, HalfOK, Shown
<1>4. SavedIsShared'
    BY DEF JInv, SavedIsShared
<1> QED BY <1>1, <1>2, <1>3, <1>4

\* ... and the next state of the process asks for nothing.
LEMMA GoesOn ==
    ASSUME Shape, JInv, UNCHANGED <<hub, past, landed, head, disk, marker, told>>,
           flying' \subseteq flying, remote' \in {remote, hub},
           \/ proc'.pc \in {"idle", "recover", "update", "written", "push", "wait"}
           \/ proc'.pc = "reset" /\ proc'.sweep
           \/ proc'.pc = "reset" /\ \A f \in Path \ (proc'.mine \cup {"inbox"}) : Apart(f),
           proc'.pc = "reset" => head.ver = marker.ver
    PROVE  JInv'
<1>1. VersionsOK' /\ StraysOK' /\ HalfOK' /\ SavedIsShared'
    BY SameFolder
<1>2. UpdateOK' /\ AttemptOK'
    BY DEF UpdateOK, AttemptOK, At
<1>3. RestoreOK'
    BY DEF RestoreOK, Undoing, At, Apart, Shown
<1> QED BY <1>1, <1>2, <1>3 DEF JInv

\* The process stands where it stood, or does nothing that changes the folder.
LEMMA SameStand ==
    ASSUME Shape, JInv, UNCHANGED <<hub, past, landed, head, disk, marker, told, remote>>,
           flying' \subseteq flying, proc'.pc = proc.pc, proc'.mine = proc.mine,
           proc'.sweep = proc.sweep,
           At("merging") => proc'.todo = proc.todo,
           At("undo") => \A f \in proc.todo \ proc'.todo :
                           Shown(f) /\ (marker.op \in OfSave => ~Stray(f))
    PROVE  JInv'
<1>1. VersionsOK' /\ StraysOK' /\ HalfOK' /\ SavedIsShared'
    BY SameFolder
<1>2. UpdateOK'
    BY DEF JInv, UpdateOK, Touched, Differs, HubHas, Tracked, At
<1>3. AttemptOK'
    BY DEF JInv, AttemptOK, NoStray, Stray, Shown, Untracked, Tracked, At
<1>4. RestoreOK'
    BY DEF JInv, RestoreOK, Apart, Stray, Shown, Untracked, Tracked, At
<1> QED BY <1>1, <1>2, <1>3, <1>4 DEF JInv

\* Files of the folder are put back, moved away, merged or written over by hand:
\* each that changes is shown after the step and no new stray.
LEMMA FilesChange ==
    ASSUME Shape, JInv, UNCHANGED <<hub, past, flying, landed, head, remote, marker, told>>,
           disk' \in Tree, proc'.pc = proc.pc, proc'.mine = proc.mine, proc'.sweep = proc.sweep,
           At("merging") => /\ proc'.todo = proc.todo
                            /\ \A f \in Path \ {"inbox"} : disk[f] = No => disk'[f] = No,
           \A f \in Path : \/ disk'[f] = disk[f] \/ Shown(f)',
           \A f \in Path : Stray(f)' => Stray(f),
           disk'["inbox"].by # "op",
           At("undo") => \A f \in proc.todo \ proc'.todo : Shown(f)' /\ ~Stray(f)',
           At("undo") => head.tree = marker.tree,
           proc.pc # "reset" \/ (disk["note"] = No => disk'["note"] = No),
           proc.pc \in {"run", "ran"} => \A f \in Path : disk[f] # No => disk'[f] # No
    PROVE  JInv'
<1>0. \A f \in Path : Shown(f) => Shown(f)'
    BY DEF Shown
<1>1. VersionsOK'
    BY DEF JInv, VersionsOK, Known, BaseTree
<1>2. StraysOK'
    BY DEF JInv, StraysOK, NoStray, HubHas
<1>3. HalfOK' /\ SavedIsShared'
  <2>1. head.own # 0 => \A f \in Path : disk'[f] = head.tree[f] \/ Shown(f)'
    BY <1>0 DEF JInv, HalfOK
  <2>2. marker.untracked \subseteq Path
    BY DEF Shape, IsMarker
  <2> QED BY <1>0, <2>1, <2>2 DEF JInv, HalfOK, SavedIsShared
<1>4. UpdateOK'
  <2>1. ~Tracked("note") /\ disk'["note"] # No => disk["note"] # No
    BY DEF Stray, Untracked, Tracked, Path
  <2>2. At("merging") => \A f \in Touched \ ({"inbox"} \cup proc.todo) :
                           remote.tree[f] = No => disk'[f] = No
    BY DifferIn DEF JInv, UpdateOK, Touched
  <2> QED BY <2>1, <2>2 DEF JInv, UpdateOK, HubHas, Tracked, Touched, At
<1>5. AttemptOK'
  <2>1. marker.untracked \subseteq Path
    BY DEF Shape, IsMarker
  <2> QED BY <1>0, <2>1 DEF JInv, AttemptOK, NoStray, At
<1>6. RestoreOK'
  <2>1. proc.pc \in Undoing /\ marker.tree["note"] = No /\ disk["note"] = No => disk'["note"] = No
    BY DEF Stray, Untracked, Tracked, Undoing, Path, At
  <2>2. \A f \in Path : proc.pc \in Undoing /\ Apart(f) => Apart(f)'
    BY <1>0, <2>1 DEF Apart
  <2> QED BY <1>0, <2>2 DEF JInv, RestoreOK, At
<1> QED BY <1>1, <1>2, <1>3, <1>4, <1>5, <1>6 DEF JInv

\* The marker is removed: all is shown and the hub has every stray.
LEMMA MarkerGone ==
    ASSUME Shape, JInv, marker' = NoMarker,
           \/ head' = head /\ head.own = 0
           \/ head' = Settled /\ landed,
           landed' = FALSE, UNCHANGED <<hub, past, flying, disk>>, remote' \in {remote, hub},
           \A r \in flying : r.id # 0,
           \A f \in Path : Shown(f), \A f \in Path : Stray(f) => HubHas(f),
           told' \subseteq told \cup Files(disk), \A x \in told' \ told : x[2].by = "op",
           \/ proc'.pc \in {"idle", "update"}
           \/ proc'.pc \in {"attempt", "op"} /\ NoStray
    PROVE  JInv'
<1>0. /\ head'.own = 0 /\ head'.tree = head.tree /\ Settled.own = 0 /\ Settled.tree = head.tree
      /\ Settled.ver = head.ver + 1 /\ marker'.op = "none" /\ marker'.dirty = NoMarker.dirty
    BY NoMarkerTyped DEF Settled
<1>a. /\ \A f \in Path : Shown(f)'
      /\ \A f \in Path : Stray(f)' <=> Stray(f)
    BY <1>0 DEF Shown, Stray, Untracked, Tracked
<1>1. VersionsOK'
  <2>1. Known(hub.ver, hub.tree)
    BY Fields DEF Known
  <2>2. Known(head'.ver, head'.tree)
    BY <1>0 DEF JInv, VersionsOK, BaseTree
  <2> QED BY <1>0, <2>1, <2>2 DEF JInv, VersionsOK, Known, BaseTree, OfSave
<1>2. StraysOK'
    BY <1>0, <1>a, NoMarkerTyped DEF StraysOK, HubHas, OfSave
<1>3. HalfOK'
    BY <1>0, <1>a, NoMarkerTyped DEF JInv, HalfOK
<1>4. SavedIsShared'
  <2> SUFFICES ASSUME NEW x \in told', x \notin told PROVE x \in past
    BY DEF JInv, SavedIsShared
  <2>1. PICK f \in Path : x = <<f, disk[f]>>
    BY FilesOf, Fields
  <2> QED BY <2>1 DEF Shown
<1>5. UpdateOK' /\ RestoreOK'
    BY DEF UpdateOK, RestoreOK, Undoing, At
<1>6. AttemptOK'
    BY <1>a DEF AttemptOK, NoStray, At
<1> QED BY <1>1, <1>2, <1>3, <1>4, <1>5, <1>6 DEF JInv

\* A marker is made where there was none.
LEMMA MarkerMade ==
    ASSUME Shape, JInv, NEW op \in {"update", "inbox", "op"}, Begin(op),
           marker = NoMarker, head.own = 0, op \in OfSave => NoStray,
           UNCHANGED <<hub, past, flying, landed, head, disk, told>>, remote' \in {remote, hub}
    PROVE  /\ VersionsOK' /\ StraysOK' /\ HalfOK' /\ SavedIsShared'
           /\ \A f \in Path : Shown(f)'
           /\ \A f \in Path : Stray(f)' <=> Stray(f)
           /\ marker'.op = op
<1>1. /\ marker'.op = op /\ marker'.ver = head.ver /\ marker'.tree = head.tree
      /\ marker'.untracked = {f \in Path : Untracked(f)}
      /\ DOMAIN marker'.dirty = {f \in Path : Changed(f)}
      /\ \A f \in DOMAIN marker'.dirty : marker'.dirty[f] = disk[f]
    BY BeginTyped
<1>2. /\ \A f \in Path : Shown(f) /\ Shown(f)'
      /\ \A f \in Path : Stray(f)' <=> Stray(f)
    BY NoMarkerTyped DEF JInv, HalfOK, Shown, Stray, Untracked, Tracked
<1>3. VersionsOK'
  <2>1. Known(hub.ver, hub.tree)
    BY Fields DEF Known
  <2> QED BY <1>1, <2>1 DEF JInv, VersionsOK, Known, BaseTree
<1>4. StraysOK'
  <2>1. \A f \in Path : Stray(f) => HubHas(f)
    BY NoMarkerTyped DEF JInv, StraysOK, OfSave
  <2>2. \A f \in DOMAIN marker'.dirty : marker'.tree[f] # No
    BY <1>1 DEF Changed, Tracked
  <2>3. marker'.op \in OfSave => "note" \notin marker'.untracked
    BY <1>1 DEF NoStray, Stray
  <2> QED BY <1>2, <2>1, <2>2, <2>3 DEF StraysOK, NoStray, HubHas
<1>5. HalfOK'
  <2>1. \A f \in DOMAIN marker'.dirty :
          marker'.dirty[f].by = "op" => <<f, marker'.dirty[f]>> \in past'
    BY <1>1, <1>2 DEF Shown
  <2>2. \A f \in marker'.untracked : Shown(f)'
    BY <1>1, <1>2
  <2> QED BY <1>2, <2>1, <2>2 DEF JInv, HalfOK
<1>6. SavedIsShared'
    BY DEF JInv, SavedIsShared
<1> QED BY <1>1, <1>2, <1>3, <1>4, <1>5, <1>6

\* Who writes by hand writes over a note that is there, or into the inbox.
LEMMA WritesHalf ==
    ASSUME Shape, IInv, JInv, Liberties = {}, NEW f \in Path, Writes(f)
    PROVE  JInv'
<1>1. /\ UNCHANGED <<hub, past, flying, landed, head, remote, marker, told, proc>>
      /\ disk' = [disk EXCEPT ![f] = Hand(edits')] /\ edits' \in Nat
      /\ f = "inbox" \/ disk[f] # No
    BY DEF Writes, Shape, hubVars, countVars
<1>2. /\ disk'[f] = Hand(edits') /\ disk'[f].by = "hand"
      /\ \A g \in Path \ {f} : disk'[g] = disk[g]
    BY <1>1, Fields, TreeFacts, Texts
<1>t. disk' \in Tree
    BY <1>1, Fields, TreeFacts, Texts
<1>3. \A g \in Path : disk'[g] = disk[g] \/ Shown(g)'
    BY <1>2 DEF Shown
<1>4. \A g \in Path : Stray(g)' => Stray(g)
    BY <1>1, <1>2 DEF Stray, Untracked, Tracked
<1>5. disk'["inbox"].by # "op"
    BY <1>2 DEF JInv, HalfOK, Path
<1>6. /\ disk["note"] = No => disk'["note"] = No
      /\ \A g \in Path : disk[g] # No => disk'[g] # No
    BY <1>1, <1>2, Texts DEF Path
<1>7. At("undo") => head.tree = marker.tree
    BY DEF IInv, StageOK
<1>8. \A g \in Path \ {"inbox"} : disk[g] = No => disk'[g] = No
    BY <1>1, <1>2
<1> QED BY <1>1, <1>2, <1>3, <1>4, <1>5, <1>6, <1>7, <1>8, <1>t, FilesChange DEF At

\* The main line moves: it keeps the notes that this place has not.
LEMMA HubHalf ==
    ASSUME Shape, JInv, NEW t \in Tree, HubMoves(t), t["inbox"].by # "op",
           ~Tracked("note") /\ HubHas("note") => t["note"] # No,
           landed' => head.ver + 1 <= hub.ver \/ head.tree = t,
           UNCHANGED <<head, remote, disk, marker, proc, told>>
    PROVE  JInv'
<1>1. /\ hub'.ver = hub.ver + 1 /\ hub'.tree = t /\ past' = past \cup Files(t) /\ flying' = {}
    BY DEF HubMoves
<1>2. /\ \A f \in Path : Shown(f) => Shown(f)'
      /\ \A f \in Path : Stray(f)' <=> Stray(f)
      /\ \A f \in Path : Stray(f) /\ HubHas(f) => HubHas(f)'
      /\ marker.untracked \subseteq Path
    BY <1>1 DEF Shape, IsMarker, Shown, Stray, Untracked, Tracked, HubHas
<1>3. VersionsOK'
  <2>1. \A v \in Nat : \A u : Known(v, u) => Known(v, u)' /\ v # hub'.ver
    BY <1>1, Fields DEF Known
  <2>2. landed' => Known(head.ver + 1, head.tree)'
    BY <1>1, Fields DEF Known, JInv, VersionsOK
  <2>3. \A v, u : Known(v, u)' <=> (v <= hub'.ver /\ (v = hub'.ver => u = hub'.tree))
    BY DEF Known
  <2>4. Known(head.ver, BaseTree)' /\ Known(remote.ver, remote.tree)'
        /\ (marker.op # "none" => Known(marker.ver, marker.tree)')
    BY <2>1, <2>3, Fields DEF JInv, VersionsOK, Known
  <2> QED BY <1>1, <2>2, <2>4 DEF JInv, VersionsOK
<1>4. StraysOK'
    BY <1>2 DEF JInv, StraysOK, NoStray
<1>5. HalfOK'
  <2>1. \A x \in past' : x[1] = "inbox" => x[2].by # "op"
    BY <1>1, FilesOf DEF JInv, HalfOK
  <2> QED BY <1>1, <1>2, <2>1 DEF JInv, HalfOK
<1>6. SavedIsShared'
    BY <1>1 DEF JInv, SavedIsShared
<1>7. UpdateOK'
    BY <1>1 DEF JInv, UpdateOK, HubHas, Tracked, Touched, At
<1>8. AttemptOK' /\ RestoreOK'
    BY <1>2 DEF JInv, AttemptOK, RestoreOK, Apart, NoStray, At
<1> QED BY <1>3, <1>4, <1>5, <1>6, <1>7, <1>8 DEF JInv

LEMMA ForeignHalf ==
    ASSUME Shape, IInv, JInv, Liberties = {}, NEW f \in Path, ForeignCommit(f)
    PROVE  JInv'
<1>1. PICK t \in {Other(foreign'), No} :
        /\ t = No /\ f = "note" => Tracked(f)
        /\ HubMoves([hub.tree EXCEPT ![f] = t])
    BY DEF ForeignCommit
<1> DEFINE u == [hub.tree EXCEPT ![f] = t]
<1>2. t \in Text /\ t.by # "op" /\ (t = No \/ t # No)
    BY <1>1, Texts DEF ForeignCommit, Shape
<1>3. u \in Tree /\ u[f] = t /\ \A g \in Path \ {f} : u[g] = hub.tree[g]
    BY <1>2, Fields, TreeFacts
<1>4. u["inbox"].by # "op"
    BY <1>2, <1>3, SharedIsShown, Fields DEF IInv, HistoryOK, JInv, Path
<1>5. ~Tracked("note") /\ HubHas("note") => u["note"] # No
    BY <1>1, <1>3 DEF HubHas, Path
<1>6. landed => head.ver + 1 <= hub.ver
    BY DEF JInv, VersionsOK, Known
<1> HIDE DEF u
<1> QED BY <1>1, <1>3, <1>4, <1>5, <1>6, HubHalf DEF u, ForeignCommit, handVars, countVars

LEMMA LandsHalf ==
    ASSUME Shape, IInv, JInv, NEW r \in flying, Lands(r)
    PROVE  JInv'
<1>1. r.tree \in Tree /\ r.tree["inbox"].by # "op"
    BY Fields DEF JInv, HalfOK
<1>2. HubHas("note") => r.tree["note"] # No
    BY DEF JInv, VersionsOK, HubHas, Path
<1>3. landed' => head.tree = r.tree
    BY DEF Lands, IInv, HistoryOK
<1> QED BY <1>1, <1>2, <1>3, HubHalf DEF Lands, handVars, countVars

\* What a commit of this place left out was there before, or is not of the save.
LEMMA OwnIsApart ==
    ASSUME Shape, JInv, head.own # 0, NEW f \in Path, f \notin Differs(head.tree, marker.tree)
    PROVE  Apart(f)
<1>1. head.tree[f] = marker.tree[f]
    BY DEF Differs
<1>2. disk[f] = head.tree[f] \/ Shown(f)
    BY DEF JInv, HalfOK
<1>3. f = "note" /\ head.tree[f] = No => disk[f] = No
    BY DEF JInv, StraysOK, NoStray, Stray, Untracked, Tracked
<1> QED BY <1>1, <1>2, <1>3, Texts DEF Apart, Shown

\* Steps that only change what the process knows.
LEMMA KnowsHalf ==
    ASSUME Shape, IInv, JInv,
           \/ Stops \/ StaysUnsettled \/ RecoverUncommitted \/ Cleansed
           \/ \E kind \in Kinds \cup {"daemon"} : TakesLock(kind)
           \/ OpFails \/ OpBreaks \/ CommitFails \/ LosesRace
           \/ \E r \in flying : IsRefused(r) \/ Lost(r)
    PROVE  JInv'
<1>1. CASE Stops \/ StaysUnsettled
  <2>1. proc'.pc = "idle"
    BY <1>1, GoesTo, Fields DEF Stops, StaysUnsettled
  <2> QED BY <1>1, <2>1, GoesOn DEF Stops, StaysUnsettled, FetchHub, hubVars, countVars
<1>2. CASE RecoverUncommitted \/ OpFails \/ OpBreaks
  <2>1. proc'.pc = "reset" /\ proc'.sweep
    BY <1>2, GoesTo, Fields DEF RecoverUncommitted, OpFails, OpBreaks
  <2>2. head.ver = marker.ver
    BY <1>2 DEF RecoverUncommitted, OpFails, OpBreaks, IInv, StageOK, Working, JInv, VersionsOK, At
  <2> QED BY <1>2, <2>1, <2>2, GoesOn DEF RecoverUncommitted, OpFails, OpBreaks, hubVars, countVars
<1>3. CASE Cleansed
  <2>1. proc'.pc = "update"
    BY <1>3, GoesTo, Fields DEF Cleansed
  <2> QED BY <1>3, <2>1, GoesOn DEF Cleansed, hubVars, countVars
<1>4. ASSUME NEW kind \in Kinds \cup {"daemon"}, TakesLock(kind) PROVE JInv'
  <2>1. proc'.pc = "recover"
    BY <1>4 DEF TakesLock, Free
  <2> QED BY <1>4, <2>1, GoesOn DEF TakesLock, hubVars
<1>5. CASE CommitFails
  <2>1. /\ proc'.pc = "reset" /\ proc'.mine = proc.mine
    BY <1>5, GoesTo, Fields DEF CommitFails
  <2>2. \A f \in Path \ (proc.mine \cup {"inbox"}) : Apart(f)
    BY <1>5 DEF CommitFails, IInv, StageOK, JInv, AttemptOK, Apart, Stray, Untracked, Tracked, At
  <2>3. head.ver = marker.ver
    BY <1>5 DEF CommitFails, IInv, StageOK, JInv, VersionsOK, At
  <2> QED BY <1>5, <2>1, <2>2, <2>3, GoesOn DEF CommitFails, hubVars
<1>6. CASE LosesRace
  <2>1. /\ proc'.pc = "reset" /\ proc'.mine = proc.mine
    BY <1>6, GoesTo, Fields DEF LosesRace
  <2>2. \A f \in Path \ (proc.mine \cup {"inbox"}) : Apart(f)
    BY <1>6, OwnIsApart DEF LosesRace, IInv, StageOK, Sending, At
  <2>3. head.ver = marker.ver
    BY <1>6 DEF LosesRace, IInv, StageOK, Sending, JInv, VersionsOK, At
  <2> QED BY <1>6, <2>1, <2>2, <2>3, GoesOn DEF LosesRace, FetchHub, hubVars, countVars
<1>7. ASSUME NEW r \in flying, IsRefused(r) PROVE JInv'
  <2>1. /\ proc'.pc = "reset" /\ proc'.mine = proc.mine
    BY <1>7, GoesTo, Fields DEF IsRefused
  <2>2. \A f \in Path \ (proc.mine \cup {"inbox"}) : Apart(f)
    BY <1>7, OwnIsApart DEF IsRefused, IInv, StageOK, Sending, At
  <2>3. head.ver = marker.ver
    BY <1>7 DEF IsRefused, IInv, StageOK, Sending, JInv, VersionsOK, At
  <2> QED BY <1>7, <2>1, <2>2, <2>3, GoesOn DEF IsRefused, countVars
<1>8. ASSUME NEW r \in flying, Lost(r) PROVE JInv'
    BY <1>8, SameStand DEF Lost, countVars
<1> QED BY <1>1, <1>2, <1>3, <1>4, <1>5, <1>6, <1>7, <1>8

\* Copies, and files that are left as they are.
LEMMA KeepsHalf ==
    ASSUME Shape, JInv, NEW f \in Path, Keeps(f) \/ FindsOwn(f), ~At("merging")
    PROVE  JInv'
<1>1. /\ proc'.pc = proc.pc /\ proc'.mine = proc.mine /\ proc'.sweep = proc.sweep
      /\ proc'.todo = proc.todo
    BY Fields DEF Keeps, FindsOwn, AnyProc
<1> QED BY <1>1, SameStand DEF Keeps, FindsOwn, hubVars, countVars

LEMMA LeavesHalf ==
    ASSUME Shape, IInv, JInv, NEW f \in Path, Leaves(f)
    PROVE  JInv'
<1>1. /\ proc'.pc = proc.pc /\ proc'.mine = proc.mine /\ proc'.sweep = proc.sweep
      /\ proc'.todo = proc.todo \ {f}
    BY Fields DEF Leaves, AnyProc
<1>2. Shown(f) /\ (marker.op \in OfSave => ~Stray(f))
  <2>1. CASE Tracked(f) /\ UnchangedSinceBegin(f)
    BY <2>1 DEF JInv, HalfOK, UnchangedSinceBegin, Shown, Stray, Untracked
  <2>2. CASE f = "inbox"
    BY <2>2 DEF JInv, HalfOK, Shown, Stray
  <2>3. CASE ~Tracked(f) /\ f # "inbox" /\ f \notin proc.mine /\ marker.op \in OfSave /\ ~proc.sweep
    <3>1. head.tree = marker.tree /\ At("undo")
      BY DEF Leaves, Undoes, IInv, StageOK
    <3>2. Apart(f) /\ marker.tree[f] = No
      BY <2>3, <3>1 DEF JInv, RestoreOK, Undoing, Tracked, At
    <3> QED BY <3>2 DEF Apart, Stray, Untracked
  <2>4. CASE marker.op \notin OfSave
    BY <2>4 DEF JInv, HalfOK, OfSave
  <2> QED BY <2>1, <2>2, <2>3, <2>4 DEF Leaves, OfSave
<1>3. At("undo")
    BY DEF Leaves, Undoes
<1> QED BY <1>1, <1>2, <1>3, SameStand DEF Leaves, hubVars, countVars, At

\* Files that are put back or moved away are shown and known.
LEMMA PutsBackHalf ==
    ASSUME Shape, IInv, JInv, NEW f \in Path, PutsBack(f), Tidying
    PROVE  JInv'
<1>1. head.own = 0 /\ Shared(head.tree) /\ (At("undo") => head.tree = marker.tree)
    BY NoMarkerTyped DEF IInv, StageOK, HistoryOK, Tidying, At, OfSave
<1>2. /\ UNCHANGED <<hub, past, flying, landed, head, remote, marker, told>>
      /\ disk' = [disk EXCEPT ![f] = head.tree[f]]
    BY DEF PutsBack, hubVars, countVars
<1>3. /\ proc'.pc = proc.pc /\ proc'.mine = proc.mine /\ proc'.sweep = proc.sweep
      /\ proc'.todo = proc.todo \ {f} /\ proc.pc \notin {"merging", "reset", "run", "ran"}
    BY Fields DEF PutsBack, AnyProc, Tidying, At
<1>t. disk' \in Tree
    BY <1>2, Fields, TreeFacts
<1>4. disk'[f] = head.tree[f] /\ \A g \in Path \ {f} : disk'[g] = disk[g]
    BY <1>2, Fields, TreeFacts
<1>5. Shown(f)' /\ ~Stray(f)'
    BY <1>1, <1>2, <1>4, SharedIsShown, Fields DEF JInv, Shown, Stray, Untracked, Tracked
<1>6. \A g \in Path : /\ disk'[g] = disk[g] \/ Shown(g)'
                      /\ Stray(g)' => Stray(g)
    BY <1>2, <1>4, <1>5 DEF Stray, Untracked, Tracked
<1>7. disk'["inbox"].by # "op"
    BY <1>4 DEF JInv, HalfOK, Path
<1> QED BY <1>1, <1>2, <1>3, <1>4, <1>5, <1>6, <1>7, <1>t, FilesChange DEF At

LEMMA MovesAwayHalf ==
    ASSUME Shape, IInv, JInv, NEW f \in Path, MovesAway(f), Tidying
    PROVE  JInv'
<1>1. At("undo") => head.tree = marker.tree
    BY DEF IInv, StageOK
<1>2. /\ UNCHANGED <<hub, past, flying, landed, head, remote, marker, told>>
      /\ disk' = [disk EXCEPT ![f] = No]
    BY DEF MovesAway, hubVars, countVars
<1>3. /\ proc'.pc = proc.pc /\ proc'.mine = proc.mine /\ proc'.sweep = proc.sweep
      /\ proc'.todo = proc.todo \ {f} /\ proc.pc \notin {"merging", "reset", "run", "ran"}
    BY Fields DEF MovesAway, AnyProc, Tidying, At
<1>t. disk' \in Tree
    BY <1>2, Fields, TreeFacts, Texts
<1>4. disk'[f] = No /\ \A g \in Path \ {f} : disk'[g] = disk[g]
    BY <1>2, Fields, TreeFacts, Texts
<1>5. Shown(f)' /\ ~Stray(f)'
    BY <1>4, Texts DEF Shown, Stray, Untracked
<1>6. \A g \in Path : /\ disk'[g] = disk[g] \/ Shown(g)'
                      /\ Stray(g)' => Stray(g)
    BY <1>2, <1>4, <1>5 DEF Stray, Untracked, Tracked
<1>7. disk'["inbox"].by # "op"
    BY <1>4, Texts DEF JInv, HalfOK, Path
<1> QED BY <1>1, <1>2, <1>3, <1>4, <1>5, <1>6, <1>7, <1>t, FilesChange DEF At

LEMMA TidyHalf ==
    ASSUME Shape, IInv, JInv, NEW f \in Path,
           \/ Cleanses(f) \/ UndoesNote(f) \/ UndoesFile(f) \/ ClearsNote(f) \/ ClearsFile(f)
           \/ SetsAsideStray(f)
    PROVE  JInv'
<1>1. Tidying
    BY DEF Cleanses, UndoesNote, UndoesFile, ClearsNote, ClearsFile, SetsAsideStray, Undoes, Tidying
<1>2. Keeps(f) \/ FindsOwn(f) \/ MovesAway(f)
    BY DEF Cleanses, UndoesNote, UndoesFile, ClearsNote, ClearsFile, SetsAsideStray
<1>3. ~At("merging")
    BY <1>1 DEF Tidying, At
<1> QED BY <1>1, <1>2, <1>3, KeepsHalf, MovesAwayHalf

LEMMA PutsBackKeptHalf ==
    ASSUME Shape, IInv, JInv, PutsBackKept
    PROVE  JInv'
<1>1. Tidying /\ proc.kept \in Path
    BY ProcFields, Fields DEF PutsBackKept, IInv, StageOK, Tidying
<1> QED BY <1>1, PutsBackHalf DEF PutsBackKept

LEMMA RecoverHalf ==
    ASSUME Shape, IInv, JInv, RecoverCommitted
    PROVE  JInv'
<1>1. CASE head.own = 0
  <2>1. /\ marker.op \notin OfSave /\ marker.op # "op" /\ head.ver # marker.ver
    BY <1>1 DEF RecoverCommitted, JInv, VersionsOK, OfSave
  <2>2. /\ marker' = NoMarker /\ Go("update") /\ UNCHANGED <<head, landed>> /\ remote' = hub
        /\ UNCHANGED <<hub, past, flying, disk, told>>
    BY <1>1 DEF RecoverCommitted, End, FetchHub, countVars
  <2>3. proc'.pc = "update" /\ landed' = FALSE
    BY <1>1, <2>2, GoesTo, NoCommit, Fields
  <2>4. /\ \A f \in Path : Shown(f)
        /\ \A f \in Path : Stray(f) => HubHas(f)
        /\ \A r \in flying : r.id # 0
    BY <2>1 DEF JInv, HalfOK, StraysOK, IInv, HistoryOK
  <2> QED BY <1>1, <2>2, <2>3, <2>4, MarkerGone
<1>2. CASE head.own # 0 /\ landed
  <2>1. /\ marker' = NoMarker /\ Go("update") /\ head' = Settled /\ landed' = FALSE /\ remote' = hub
        /\ UNCHANGED <<hub, past, flying, disk, told>>
    BY <1>2 DEF RecoverCommitted, End, FetchHub, countVars
  <2>2. proc'.pc = "update"
    BY <2>1, GoesTo, Fields
  <2>3. /\ \A f \in Path : Shown(f)
        /\ \A f \in Path : ~Stray(f)
        /\ \A r \in flying : r.id # 0
    BY <1>2, SharedIsShown, Fields DEF JInv, HalfOK, StraysOK, NoStray, IInv, HistoryOK, Shown
  <2> QED BY <1>2, <2>1, <2>2, <2>3, MarkerGone
<1>3. CASE head.own # 0 /\ ~landed
  <2>1. /\ UndoWith(Differs(head.tree, marker.tree), TRUE, "update")
        /\ UNCHANGED <<hub, past, flying, landed, head, disk, marker, told>> /\ remote' = hub
    BY <1>3 DEF RecoverCommitted, FetchHub, countVars
  <2>2. proc'.pc = "reset" /\ proc'.sweep
    BY <2>1, GoesTo, Fields
  <2>3. head.ver = marker.ver
    BY <1>3 DEF IInv, StageOK, JInv, VersionsOK
  <2> QED BY <2>1, <2>2, <2>3, GoesOn
<1> QED BY <1>1, <1>2, <1>3

\* reset: what is not listed as different is as the marker's tree has it.
LEMMA ResetsHalf ==
    ASSUME Shape, IInv, JInv, Resets
    PROVE  JInv'
<1>1. /\ At("reset") /\ head'.ver = marker.ver /\ head'.tree = marker.tree /\ head'.own = 0
      /\ landed' = FALSE /\ marker.op # "none"
      /\ UNCHANGED <<hub, past, flying, remote, disk, marker, told>>
    BY DEF Resets, countVars, IInv, StageOK, At
<1>2. /\ proc'.pc = "undo" /\ proc'.mine = proc.mine /\ proc'.sweep = proc.sweep
      /\ proc'.todo = Differs(disk, marker.tree)
    BY Fields DEF Resets, AnyProc
<1>3. /\ \A f \in Path : marker.tree[f].by = "op" => <<f, marker.tree[f]>> \in past
      /\ marker.tree["inbox"].by # "op"
    BY SharedIsShown, Fields DEF IInv, HistoryOK, JInv
<1>4. VersionsOK'
    BY <1>1 DEF JInv, VersionsOK, Known, BaseTree, IInv, HistoryOK
<1>5. StraysOK'
  <2>1. CASE marker.op \in OfSave
    BY <1>1, <2>1 DEF JInv, StraysOK
  <2>2. CASE marker.op \notin OfSave
    <3>1. head.own = 0
      BY <2>2, NoMarkerNoCommit
    <3>2. head.tree = marker.tree
      BY <1>1, <2>2, <3>1 DEF JInv, VersionsOK, RestoreOK, At
    <3> QED BY <1>1, <2>2, <3>2 DEF JInv, StraysOK, HubHas, Stray, Untracked, Tracked
  <2> QED BY <2>1, <2>2
<1>6. HalfOK'
    BY <1>1, <1>3 DEF JInv, HalfOK, Shown
<1>7. SavedIsShared'
    BY <1>1 DEF JInv, SavedIsShared
<1>8. UpdateOK' /\ AttemptOK'
    BY <1>2 DEF UpdateOK, AttemptOK, At
<1>9. RestoreOK'
  <2>1. \A f \in Path \ proc'.todo : disk[f] = marker.tree[f]
    BY <1>2 DEF Differs
  <2>2. \A f \in Path \ proc'.todo : Shown(f)' /\ ~Stray(f)'
    BY <1>1, <1>3, <2>1 DEF Shown, Stray, Untracked, Tracked
  <2>3. \A f \in Path : Apart(f) => Apart(f)'
    BY <1>1 DEF Apart, Shown
  <2> QED BY <1>1, <1>2, <2>2, <2>3 DEF JInv, RestoreOK, Undoing, At
<1> QED BY <1>4, <1>5, <1>6, <1>7, <1>8, <1>9 DEF JInv

LEMMA EndsUndoHalf ==
    ASSUME Shape, IInv, JInv, EndsUndo
    PROVE  JInv'
<1>1. /\ At("undo") /\ proc.todo = {} /\ marker' = NoMarker /\ head.own = 0
      /\ UNCHANGED <<hub, past, flying, landed, head, remote, disk, told>>
    BY DEF EndsUndo, End, hubVars, countVars, IInv, StageOK, At
<1>2. proc'.pc \in {"update", "idle"}
    BY DEF EndsUndo, Free
<1>3. /\ \A f \in Path : Shown(f)
      /\ \A f \in Path : Stray(f) => HubHas(f)
      /\ \A r \in flying : r.id # 0
    BY <1>1 DEF JInv, RestoreOK, StraysOK, IInv, HistoryOK
<1> QED BY <1>1, <1>2, <1>3, NoCommit, MarkerGone

LEMMA UpdateStartsHalf ==
    ASSUME Shape, IInv, JInv, UpdateStarts
    PROVE  JInv'
<1>1. /\ marker = NoMarker /\ marker.op = "none" /\ head.own = 0 /\ At("update")
      /\ UNCHANGED <<hub, past, flying, landed, head, disk, told>> /\ remote' = hub
    BY NoMarkerTyped DEF UpdateStarts, FetchHub, hubVars, countVars, IInv, StageOK, At
<1>2. /\ \A f \in Path : Shown(f)
      /\ \A f \in Path : Stray(f) => HubHas(f)
    BY <1>1 DEF JInv, HalfOK, StraysOK, OfSave
<1>3. CASE head.ver = hub.ver
  <2>1. proc'.pc = "attempt" /\ UNCHANGED marker
    BY <1>3, GoesTo, Fields DEF UpdateStarts
  <2>2. head.tree = hub.tree
    BY <1>1, <1>3 DEF JInv, VersionsOK, Known, BaseTree
  <2>3. NoStray
    BY <1>2, <2>2 DEF NoStray, Stray, HubHas, Untracked, Tracked
  <2>4. NoStray'
    BY <1>1, <2>3 DEF NoStray, Stray, Untracked, Tracked
  <2>5. VersionsOK' /\ StraysOK' /\ HalfOK' /\ SavedIsShared'
    BY <1>1, <2>1, SameFolder
  <2>6. UpdateOK' /\ AttemptOK' /\ RestoreOK'
    BY <2>1, <2>4 DEF UpdateOK, AttemptOK, RestoreOK, Undoing, At
  <2> QED BY <2>5, <2>6 DEF JInv
<1>4. CASE head.ver # hub.ver
  <2>1. proc'.pc = "touch" /\ Begin("update")
    BY <1>4, GoesTo, Fields DEF UpdateStarts
  <2>2. VersionsOK' /\ StraysOK' /\ HalfOK' /\ SavedIsShared'
    BY <1>1, <2>1, MarkerMade DEF OfSave
  <2>3. UpdateOK'
    <3>1. marker'.ver = head.ver
      BY <2>1, BeginTyped
    <3> QED BY <1>1, <1>2, <1>4, <2>1, <3>1 DEF UpdateOK, Stray, HubHas, Untracked, Tracked, Path, At
  <2>4. AttemptOK' /\ RestoreOK'
    BY <2>1 DEF AttemptOK, RestoreOK, Undoing, At
  <2> QED BY <2>2, <2>3, <2>4 DEF JInv
<1> QED BY <1>3, <1>4

LEMMA MergesHalf ==
    ASSUME Shape, IInv, JInv, Merges
    PROVE  JInv'
<1>1. UNCHANGED <<hub, past, flying, landed, head, remote, disk, marker, told>> /\ At("touch")
    BY DEF Merges, hubVars, countVars
<1>2. CASE proc' = [proc EXCEPT !.pc = "merging", !.todo = Touched]
  <2>1. proc'.pc = "merging" /\ proc'.todo = Touched
    BY <1>2, Fields DEF AnyProc
  <2>2. VersionsOK' /\ StraysOK' /\ HalfOK' /\ SavedIsShared'
    BY <1>1, SameFolder
  <2>3. UpdateOK'
    BY <1>1, <2>1 DEF JInv, UpdateOK, HubHas, Tracked, Touched, At
  <2>4. AttemptOK' /\ RestoreOK'
    BY <2>1 DEF AttemptOK, RestoreOK, Undoing, At
  <2> QED BY <2>2, <2>3, <2>4 DEF JInv
<1>3. CASE proc' = Free
    BY <1>1, <1>3, GoesTo, Fields, GoesOn
<1> QED BY <1>2, <1>3 DEF Merges

\* A file is merged: it is the hub's. If the merge is cut short and the file is
\* new, the hub has it still.
LEMMA MergesFileHalf ==
    ASSUME Shape, IInv, JInv, NEW f \in Path, MergesFile(f)
    PROVE  JInv'
<1>1. /\ UNCHANGED <<hub, past, flying, landed, head, remote, marker, told>>
      /\ disk' = [disk EXCEPT ![f] = remote.tree[f]]
      /\ At("merging") /\ marker.op = "update" /\ head.own = 0
    BY DEF MergesFile, hubVars, countVars, IInv, StageOK, At
<1>2. proc'.pc = "merging" /\ proc'.todo = proc.todo \ {f}
    BY <1>1, Fields DEF MergesFile, AnyProc, At
<1>3. disk'[f] = remote.tree[f] /\ \A g \in Path \ {f} : disk'[g] = disk[g]
    BY <1>1, Fields, TreeFacts
<1>4. /\ \A g \in Path : remote.tree[g].by = "op" => <<g, remote.tree[g]>> \in past
      /\ remote.tree["inbox"].by # "op"
    BY SharedIsShown, Fields DEF IInv, HistoryOK, JInv
<1>5. VersionsOK'
    BY <1>1 DEF JInv, VersionsOK, Known, BaseTree
<1>6. UpdateOK'
  <2>1. ~Tracked("note") =>
          /\ disk'["note"] # No => remote.tree["note"] # No
          /\ remote.tree["note"] # No => HubHas("note")
    BY <1>1, <1>3 DEF JInv, UpdateOK, Path, At
  <2>2. \A g \in Touched \ ({"inbox"} \cup proc'.todo) : remote.tree[g] = No => disk'[g] = No
    BY <1>1, <1>2, <1>3, DifferIn DEF JInv, UpdateOK, Touched
  <2> QED BY <1>1, <1>2, <2>1, <2>2 DEF JInv, UpdateOK, HubHas, Tracked, Touched, At
<1>7. StraysOK'
  <2>1. \A g \in Path : Stray(g)' => HubHas(g)'
    BY <1>1, <1>2, <1>6 DEF UpdateOK, Stray, HubHas, Untracked, Tracked, At
  <2> QED BY <1>1, <2>1 DEF JInv, StraysOK, OfSave
<1>8. HalfOK'
  <2>1. \A g \in Path : Shown(g)'
    BY <1>1, <1>3, <1>4 DEF JInv, HalfOK, Shown
  <2>2. disk'["inbox"].by # "op"
    BY <1>3, <1>4 DEF JInv, HalfOK, Path
  <2>3. marker.untracked \subseteq Path
    BY DEF Shape, IsMarker
  <2> QED BY <1>1, <2>1, <2>2, <2>3 DEF JInv, HalfOK
<1>9. SavedIsShared' /\ AttemptOK' /\ RestoreOK'
    BY <1>1, <1>2 DEF JInv, SavedIsShared, AttemptOK, RestoreOK, Undoing, At
<1> QED BY <1>5, <1>6, <1>7, <1>8, <1>9 DEF JInv

LEMMA MergedHalf ==
    ASSUME Shape, IInv, JInv, Merged
    PROVE  JInv'
<1>1. /\ UNCHANGED <<hub, past, flying, landed, remote, disk, marker, told>>
      /\ head'.ver = remote.ver /\ head'.tree = remote.tree /\ head'.own = 0
      /\ At("merging") /\ proc.todo = {} /\ marker.op = "update" /\ head.own = 0 /\ ~landed
    BY DEF Merged, hubVars, countVars, IInv, StageOK, HistoryOK, At
<1>2. proc'.pc = "merged"
    BY GoesTo, Fields DEF Merged
<1>3. NoStray'
  <2> SUFFICES ASSUME NEW f \in {"note"}, remote.tree[f] = No PROVE disk[f] = No
    BY <1>1 DEF NoStray, Stray, Untracked, Tracked
  <2>1. CASE f \in Touched
    BY <1>1, <2>1 DEF JInv, UpdateOK
  <2>2. CASE f \notin Touched
    BY <1>1, <2>2 DEF JInv, UpdateOK, Touched, Differs, Tracked, Path, At
  <2> QED BY <2>1, <2>2
<1>4. VersionsOK'
  <2>1. \A r \in flying : r.id # 0
    BY DEF IInv, HistoryOK
  <2>2. remote.ver # marker.ver
    BY <1>1 DEF JInv, UpdateOK, At
  <2> QED BY <1>1, <2>1, <2>2 DEF JInv, VersionsOK, Known, BaseTree, OfSave
<1>5. StraysOK'
    BY <1>1, <1>3 DEF JInv, StraysOK, NoStray, OfSave
<1>6. HalfOK'
  <2>1. remote.tree["inbox"].by # "op"
    BY SharedIsShown, Fields DEF IInv, HistoryOK, JInv
  <2> QED BY <1>1, <2>1 DEF JInv, HalfOK, Shown
<1>7. SavedIsShared'
    BY <1>1 DEF JInv, SavedIsShared
<1>8. UpdateOK' /\ AttemptOK' /\ RestoreOK'
    BY <1>2, <1>3 DEF UpdateOK, AttemptOK, RestoreOK, Undoing, At
<1> QED BY <1>4, <1>5, <1>6, <1>7, <1>8 DEF JInv

LEMMA UpdateEndsHalf ==
    ASSUME Shape, IInv, JInv, UpdateEnds
    PROVE  JInv'
<1>1. /\ At("merged") /\ marker.op = "update" /\ head.own = 0 /\ marker' = NoMarker
      /\ UNCHANGED <<hub, past, flying, landed, head, remote, disk, told>>
    BY DEF UpdateEnds, End, hubVars, countVars, IInv, StageOK, At
<1>2. proc'.pc = "attempt"
    BY GoesTo, Fields DEF UpdateEnds
<1>3. /\ NoStray
      /\ \A f \in Path : Shown(f)
      /\ \A r \in flying : r.id # 0
    BY <1>1 DEF JInv, AttemptOK, HalfOK, IInv, HistoryOK, At
<1> QED BY <1>1, <1>2, <1>3, NoCommit, MarkerGone DEF NoStray

LEMMA NoDropHalf ==
    ASSUME Shape, IInv, JInv, NoDrop
    PROVE  JInv'
<1>1. /\ UNCHANGED <<hub, past, flying, landed, head, remote, disk, marker, told>> /\ At("attempt")
    BY DEF NoDrop, hubVars, countVars
<1>2. proc'.pc \in {"idle", "op"}
    BY GoesTo, Fields DEF NoDrop
<1>3. VersionsOK' /\ StraysOK' /\ HalfOK' /\ SavedIsShared'
    BY <1>1, SameFolder
<1>4. NoStray'
    BY <1>1 DEF JInv, AttemptOK, NoStray, Stray, Untracked, Tracked, At
<1>5. UpdateOK' /\ AttemptOK' /\ RestoreOK'
    BY <1>2, <1>4 DEF UpdateOK, AttemptOK, RestoreOK, Undoing, At
<1> QED BY <1>3, <1>5 DEF JInv

LEMMA BeginsHalf ==
    ASSUME Shape, IInv, JInv, SendsDrop \/ BeginsOp
    PROVE  JInv'
<1>1. /\ UNCHANGED <<hub, past, flying, landed, head, remote, disk, told>> /\ NoStray
      /\ marker = NoMarker /\ head.own = 0
    BY DEF SendsDrop, BeginsOp, hubVars, countVars, IInv, StageOK, JInv, AttemptOK, At
<1>2. CASE SendsDrop
  <2>1. proc'.pc = "ready" /\ Begin("inbox")
    BY <1>2, Fields DEF SendsDrop, AnyProc
  <2>2. /\ VersionsOK' /\ StraysOK' /\ HalfOK' /\ SavedIsShared'
        /\ \A f \in Path : Shown(f)' /\ ~Stray(f)'
    BY <1>1, <2>1, MarkerMade DEF NoStray
  <2>3. UpdateOK' /\ AttemptOK' /\ RestoreOK'
    BY <2>1, <2>2 DEF UpdateOK, AttemptOK, RestoreOK, Undoing, At
  <2> QED BY <2>2, <2>3 DEF JInv
<1>3. CASE BeginsOp
  <2>1. proc'.pc = "run" /\ Begin("op")
    BY <1>3, Fields DEF BeginsOp, AnyProc
  <2>2. /\ VersionsOK' /\ StraysOK' /\ HalfOK' /\ SavedIsShared'
        /\ \A f \in Path : Shown(f)' /\ ~Stray(f)'
    BY <1>1, <2>1, MarkerMade DEF NoStray
  <2>3. \A f \in marker'.untracked : disk'[f] # No
    BY <1>1, <2>1, BeginTyped DEF Untracked
  <2>4. UpdateOK' /\ AttemptOK' /\ RestoreOK'
    BY <2>1, <2>2, <2>3 DEF UpdateOK, AttemptOK, RestoreOK, NoStray, Undoing, At
  <2> QED BY <2>2, <2>4 DEF JInv
<1> QED BY <1>2, <1>3

\* An operation writes: none of its texts is in the inbox.
LEMMA OperatesHalf ==
    ASSUME Shape, OpKind, IInv, JInv, OpWrites \/ OpEnds
    PROVE  JInv'
<1>1. /\ UNCHANGED <<hub, past, flying, landed, head, remote, marker, told>>
      /\ proc.pc \in Working /\ marker.op = "op" /\ head.own = 0
    BY DEF OpWrites, OpEnds, hubVars, countVars, IInv, StageOK, Working, At
<1>2. proc'.pc \in {"ran", "written"}
    BY GoesTo, Fields DEF OpWrites, OpEnds
<1>3. disk'["inbox"].by # "op"
  <2>1. proc.kind \in {"commit", "capture", "ingest"}
    BY DEF OpKind, OpWrites, OpEnds, At
  <2>2. PICK w \in {FirstWrite, LastWrite} : Write(w)
    BY DEF OpWrites, OpEnds
  <2>3. w[1] = "inbox" => w[2] = No
    BY <2>1 DEF FirstWrite, LastWrite
  <2>4. disk'["inbox"] \in {disk["inbox"], No}
    BY <2>2, <2>3, Fields, TreeFacts DEF Write, Path
  <2> QED BY <2>4, Texts DEF JInv, HalfOK
<1>4. VersionsOK'
    BY <1>1 DEF JInv, VersionsOK, Known, BaseTree
<1>5. StraysOK'
    BY <1>1 DEF JInv, StraysOK, OfSave
<1>u. \A f \in marker.untracked : Shown(f)' /\ (f # "inbox" => disk'[f] = disk[f])
  <2> SUFFICES ASSUME NEW f \in marker.untracked, f # "inbox"
               PROVE  disk'[f] = disk[f]
    BY <1>1, <1>3 DEF JInv, HalfOK, Shown
  <2>1. f = "added" /\ disk[f] # No
    BY <1>1 DEF JInv, StraysOK, AttemptOK, OfSave, Shape, IsMarker, Path, OpWrites, OpEnds, At
  <2>2. PICK w \in {FirstWrite, LastWrite} : Write(w)
    BY DEF OpWrites, OpEnds
  <2> QED BY <2>1, <2>2, Fields, TreeFacts DEF Write, Path
<1>6. HalfOK' /\ SavedIsShared'
    BY <1>1, <1>3, <1>u DEF JInv, HalfOK, SavedIsShared
<1>7. UpdateOK' /\ AttemptOK' /\ RestoreOK'
  <2>1. \A f \in marker.untracked \ {"inbox"} : proc'.pc = "ran" => disk'[f] # No
    BY <1>2, <1>u DEF JInv, AttemptOK, OpWrites, OpEnds, At, Go
  <2> QED BY <1>1, <1>2, <2>1 DEF UpdateOK, AttemptOK, RestoreOK, Undoing, At
<1> QED BY <1>4, <1>5, <1>6, <1>7 DEF JInv

\* What is not listed is as it was at Begin.
LEMMA UnlistedIsShown ==
    ASSUME Shape, IInv, JInv, At("written")
    PROVE  \A f \in Path \ Written : Shown(f) /\ ~Stray(f)
<1> SUFFICES ASSUME NEW f \in Path, f \notin Written PROVE Shown(f) /\ ~Stray(f)
    OBVIOUS
<1>1. head.tree = marker.tree /\ marker.op \in OfSave /\ Shared(marker.tree)
    BY DEF IInv, StageOK, HistoryOK, Working, At
<1>2. CASE f \in marker.untracked
    BY <1>1, <1>2 DEF JInv, HalfOK, StraysOK, Stray
<1>3. CASE f \notin Differing
  <2>1. disk[f] = head.tree[f]
    BY <1>3 DEF Differing, Changed, Untracked, Tracked
  <2> QED BY <1>1, <2>1, SharedIsShown, Fields DEF JInv, Shown, Stray, Untracked, Tracked
<1>4. CASE UnchangedSinceBegin(f)
    BY <1>1, <1>4 DEF JInv, HalfOK, StraysOK, UnchangedSinceBegin, Shown, Stray, Untracked, Tracked
<1>5. CASE f = "inbox"
    BY <1>5 DEF JInv, HalfOK, Shown, Stray
<1> QED BY <1>2, <1>3, <1>4, <1>5 DEF Written

LEMMA ListsWrittenHalf ==
    ASSUME Shape, IInv, JInv, ListsWritten
    PROVE  JInv'
<1>1. /\ At("written") /\ head.own = 0 /\ head.tree = marker.tree /\ marker.op = "op"
      /\ UNCHANGED <<hub, past, flying, landed, head, remote, disk>>
      /\ landed = FALSE /\ \A r \in flying : r.id # 0
    BY NoCommit DEF ListsWritten, hubVars, IInv, StageOK, HistoryOK, Working, At
<1>2. \A f \in Path \ Written : Shown(f) /\ ~Stray(f)
    BY <1>1, UnlistedIsShown
<1>3. CASE Written = {} /\ End /\ proc' = Free /\ told' = told \cup OwnTexts
  <2>1. proc'.pc = "idle" /\ marker' = NoMarker
    BY <1>3, GoesTo, Fields DEF End
  <2>2. told' \subseteq told \cup Files(disk) /\ \A x \in told' \ told : x[2].by = "op"
    BY <1>3 DEF OwnTexts
  <2> QED BY <1>1, <1>2, <1>3, <2>1, <2>2, MarkerGone
<1>4. CASE UNCHANGED <<marker, told>> /\ proc' = [proc EXCEPT !.pc = "ready", !.mine = Written]
  <2>1. proc'.pc = "ready" /\ proc'.mine = Written
    BY <1>4, Fields DEF AnyProc
  <2>2. VersionsOK' /\ StraysOK' /\ HalfOK' /\ SavedIsShared'
    BY <1>1, <1>4, SameFolder
  <2>3. \A f \in Path \ proc'.mine : Shown(f)' /\ ~Stray(f)'
    BY <1>1, <1>2, <2>1 DEF Shown, Stray, Untracked, Tracked
  <2>4. UpdateOK' /\ AttemptOK' /\ RestoreOK'
    BY <2>1, <2>3 DEF UpdateOK, AttemptOK, RestoreOK, Undoing, At
  <2> QED BY <2>2, <2>4 DEF JInv
<1>5. CASE UNCHANGED <<marker, told>> /\ UndoWith(Written, FALSE, "end")
  <2>1. proc'.pc = "reset" /\ proc'.mine = Written
    BY <1>5, GoesTo, Fields
  <2>2. \A f \in Path \ (Written \cup {"inbox"}) : Apart(f)
    BY <1>1, <1>2 DEF Apart, Stray, Untracked, Tracked
  <2>3. head.ver = marker.ver
    BY <1>1 DEF JInv, VersionsOK, OfSave
  <2> QED BY <1>1, <1>5, <2>1, <2>2, <2>3, GoesOn
<1> QED BY <1>3, <1>4, <1>5 DEF ListsWritten

LEMMA CommitsHalf ==
    ASSUME Shape, IInv, JInv, Commits
    PROVE  JInv'
<1>1. /\ At("ready") /\ head.own = 0 /\ marker.tree = head.tree /\ marker.op \in OfSave
      /\ UNCHANGED <<hub, past, flying, remote, disk, marker, told>> /\ landed' = FALSE
    BY DEF Commits, countVars, IInv, StageOK, At, Working
<1>2. proc'.pc = "push"
    BY <1>1, GoesTo, Fields DEF Commits
<1>3. /\ head'.tree = [f \in Path |-> IF f \in proc.mine THEN disk[f] ELSE head.tree[f]]
      /\ head'.own = FreshId /\ head'.ver = head.ver
    BY DEF Commits, Shape
<1>4. /\ head'.own # 0 /\ \A r \in flying : r.id # head'.own
    BY <1>3, FreshIdTyped
<1>5. /\ \A f \in Path : f \in proc.mine => head'.tree[f] = disk[f]
      /\ \A f \in Path \ proc.mine : head'.tree[f] = head.tree[f]
      /\ head'.tree["inbox"] \in {disk["inbox"], head.tree["inbox"]}
    BY <1>3 DEF Path
<1>6. VersionsOK'
    BY <1>1, <1>3, <1>4 DEF JInv, VersionsOK, Known, BaseTree, OfSave
<1>7. StraysOK'
  <2>1. NoStray'
    <3> SUFFICES ASSUME NEW f \in Path, f = "note", head'.tree[f] = No PROVE disk[f] = No
      BY <1>1 DEF NoStray, Stray, Untracked, Tracked
    <3>1. CASE f \in proc.mine
      BY <1>5, <3>1
    <3>2. CASE f \notin proc.mine
      BY <1>1, <1>5, <3>2 DEF JInv, AttemptOK, Stray, Untracked, Tracked, At
    <3> QED BY <3>1, <3>2
  <2> QED BY <1>1, <2>1 DEF JInv, StraysOK, NoStray
<1>8. HalfOK'
  <2>1. head'.tree["inbox"].by # "op"
    BY <1>5 DEF JInv, HalfOK
  <2>2. \A f \in Path : disk'[f] = head'.tree[f] \/ Shown(f)'
    BY <1>1, <1>5 DEF JInv, AttemptOK, Shown, At
  <2> QED BY <1>1, <2>1, <2>2 DEF JInv, HalfOK, Shown
<1>9. SavedIsShared'
    BY <1>1 DEF JInv, SavedIsShared
<1>10. UpdateOK' /\ AttemptOK' /\ RestoreOK'
    BY <1>2 DEF UpdateOK, AttemptOK, RestoreOK, Undoing, At
<1> QED BY <1>6, <1>7, <1>8, <1>9, <1>10 DEF JInv

LEMMA PushesHalf ==
    ASSUME Shape, IInv, JInv, Pushes
    PROVE  JInv'
<1>1. /\ UNCHANGED <<hub, past, landed, head, remote, disk, marker, told>>
      /\ At("push") /\ head.own # 0 /\ marker.op \in OfSave
      /\ proc.mine = Differs(head.tree, marker.tree)
    BY DEF Pushes, countVars, IInv, StageOK, Sending, At
<1>2. CASE hub.ver = head.ver
  <2> DEFINE own == [id |-> head.own, tree |-> head.tree]
  <2>1. flying' = flying \cup {own} /\ Go("wait")
    BY <1>2 DEF Pushes
  <2>2. own.id = head.own /\ own.tree = head.tree
    OBVIOUS
  <2> HIDE DEF own
  <2>3. proc'.pc = "wait"
    BY <2>1, GoesTo, Fields
  <2>4. hub.tree = marker.tree
    BY <1>1, <1>2 DEF JInv, VersionsOK, Known, BaseTree
  <2>5. \A f \in Path \ {"inbox"} : hub.tree[f] # No => own.tree[f] # No
    <3> SUFFICES ASSUME NEW f \in Path \ {"inbox"}, marker.tree[f] # No PROVE head.tree[f] # No
      BY <2>2, <2>4
    <3>1. CASE f \in Differs(head.tree, marker.tree)
      BY <1>1, <3>1, Texts DEF IInv, SentOK
    <3>2. CASE f \notin Differs(head.tree, marker.tree)
      BY <3>2 DEF Differs
    <3> QED BY <3>1, <3>2
  <2>6. VersionsOK'
    BY <1>1, <1>2, <2>1, <2>2, <2>5 DEF JInv, VersionsOK, Known, BaseTree
  <2>7. StraysOK'
    BY <1>1 DEF JInv, StraysOK, NoStray, Stray, HubHas, Untracked, Tracked
  <2>8. HalfOK' /\ SavedIsShared'
    BY <1>1, <2>1, <2>2 DEF JInv, HalfOK, Shown, SavedIsShared
  <2>9. UpdateOK' /\ AttemptOK' /\ RestoreOK'
    BY <2>3 DEF UpdateOK, AttemptOK, RestoreOK, Undoing, At
  <2> QED BY <2>6, <2>7, <2>8, <2>9 DEF JInv
<1>3. CASE hub.ver # head.ver
  <2>1. UndoWith(proc.mine, FALSE, "retry") /\ UNCHANGED flying
    BY <1>3 DEF Pushes
  <2>2. proc'.pc = "reset" /\ proc'.mine = proc.mine
    BY <2>1, GoesTo, Fields
  <2>3. \A f \in Path \ (proc.mine \cup {"inbox"}) : Apart(f)
    BY <1>1, OwnIsApart
  <2>4. head.ver = marker.ver
    BY <1>1 DEF JInv, VersionsOK
  <2> QED BY <1>1, <2>1, <2>2, <2>3, <2>4, GoesOn
<1> QED BY <1>2, <1>3

\* The hub has the commit, so it has all that the save wrote.
LEMMA SendOKHalf ==
    ASSUME Shape, IInv, JInv, SendOK
    PROVE  JInv'
<1>1. /\ At("wait") /\ landed /\ marker' = NoMarker /\ head' = Settled /\ landed' = FALSE
      /\ remote' = hub /\ UNCHANGED <<hub, past, flying, disk>>
      /\ told' \in {told, told \cup OwnTexts}
    BY DEF SendOK, End, FetchHub
<1>2. proc'.pc \in {"op", "idle"}
    BY <1>1, GoesTo, Fields DEF SendOK
<1>3. /\ \A f \in Path : Shown(f)
      /\ NoStray
      /\ \A r \in flying : r.id # 0
    BY <1>1, SharedIsShown, Fields DEF JInv, HalfOK, StraysOK, IInv, HistoryOK, Shown
<1>4. told' \subseteq told \cup Files(disk) /\ \A x \in told' \ told : x[2].by = "op"
    BY <1>1 DEF OwnTexts
<1> QED BY <1>1, <1>2, <1>3, <1>4, MarkerGone DEF NoStray

LEMMA StepHalf ==
    ASSUME Shape, OpKind, IInv, JInv, Liberties = {}, [Next]_vars
    PROVE  JInv'
<1>1. CASE UNCHANGED vars
    BY <1>1, SameStand DEF vars, At
<1>2. CASE Next
  <2>1. CASE AtRest
    BY <1>1, <2>1 DEF AtRest
  <2> QED BY <1>2, <2>1, WritesHalf, ForeignHalf, LandsHalf, KnowsHalf, KeepsHalf, LeavesHalf,
             TidyHalf, PutsBackKeptHalf, RecoverHalf, ResetsHalf, EndsUndoHalf, UpdateStartsHalf,
             MergesHalf, MergesFileHalf, MergedHalf, UpdateEndsHalf, NoDropHalf, BeginsHalf,
             OperatesHalf, ListsWrittenHalf, CommitsHalf, PushesHalf, SendOKHalf
          DEF Next
<1> QED BY <1>1, <1>2

LEMMA InitHalf ==
    ASSUME Init
    PROVE  JInv
<1>1. Shape
    BY InitIsTyped
<1>2. /\ proc.pc = "idle" /\ marker = NoMarker /\ marker.op = "none" /\ head.own = 0 /\ ~landed
      /\ flying = {} /\ told = {} /\ past = Files(hub.tree)
      /\ head.tree = hub.tree /\ head.ver = hub.ver /\ remote = hub /\ disk = hub.tree
    BY NoMarkerTyped DEF Init, Free
<1>3. \A f \in Path : hub.tree[f].by # "op"
    BY Texts DEF Init
<1>4. VersionsOK
    BY <1>1, <1>2, Fields DEF VersionsOK, Known, BaseTree, OfSave
<1>5. StraysOK
    BY <1>2, NoMarkerTyped DEF StraysOK, HubHas, Stray, Untracked, Tracked, OfSave
<1>6. HalfOK
  <2>1. \A x \in past : x[1] = "inbox" => x[2].by # "op"
    BY <1>1, <1>2, <1>3, FilesOf, Fields
  <2> QED BY <1>2, <1>3, <2>1, NoMarkerTyped DEF HalfOK, Shown, Path
<1>7. SavedIsShared /\ UpdateOK /\ AttemptOK /\ RestoreOK
    BY <1>2 DEF SavedIsShared, UpdateOK, AttemptOK, RestoreOK, Undoing, At
<1> QED BY <1>4, <1>5, <1>6, <1>7 DEF JInv

\* The second invariant holds while nobody takes a liberty.
THEOREM HalfInvariance == ASSUME Liberties = {} PROVE Spec => []JInv
<1>1. Guarded
    BY DEF Guarded
<1> QED BY <1>1, InitIsTyped, InitKeeps, InitHalf, StepIsTyped, StepKeeps, StepHalf, PTL DEF Spec

\* What a save that is answered SAVED wrote is in the shared history, although
\* changed (recover.go) leaves out every file that was untracked at Begin.
THEOREM SavedTextsAreShared == ASSUME Liberties = {} PROVE Spec => []SavedIsShared
<1>1. JInv => SavedIsShared
    BY DEF JInv
<1> QED BY <1>1, HalfInvariance, PTL

\* No save leaves a half of what it wrote, whichever way it ended: Undo and the
\* recovery of the next holder (recover.go) take back all that was not committed.
THEOREM NoHalfIsLeft == ASSUME Liberties = {} PROVE Spec => []NoHalfSave
<1>1. JInv => NoHalfSave
    BY NoMarkerTyped DEF JInv, HalfOK, NoHalfSave, Shown
<1> QED BY <1>1, HalfInvariance, PTL
=============================================================================
