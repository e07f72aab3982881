----------------------------- MODULE VaultSync -----------------------------
(***************************************************************************)
(* The save step and the sync daemon of package vaultsync: several places  *)
(* (working copies of one notes vault) exchange commits through one bare   *)
(* repository, the hub, that only fast-forwards.                           *)
(*                                                                         *)
(* A place has a branch head, a remote-tracking ref, a folder lock, a      *)
(* "save in progress" marker on disk and the inbox files in its folder.    *)
(* Whoever holds the folder lock is either a save (one invocation of       *)
(* commit, capture, publish-knowledge or ingest) or a pass of the daemon;  *)
(* run[p] is that holder's program counter and local variables, lost when  *)
(* the process dies, while head, remote, marker and disk survive.          *)
(*                                                                         *)
(* A push is a request <old, new> that travels to the hub on its own: it   *)
(* may be taken, refused or lost after the sender has stopped waiting.     *)
(* Contents of notes are abstracted to what a save saw of them; the files  *)
(* an undo touches are the subject of PlaceFolder.                         *)
(***************************************************************************)
EXTENDS History

CONSTANTS
    HomeOf,      \* the place a save is invoked in
    DropAt,      \* the place whose inbox receives a drop
    DaemonAt,    \* the places where sync-daemon runs
    TooBig,      \* saves and drops that break a limit on size or type
    MaxRetries,  \* Config.MaxRetries: tries of one save
    Stamp,       \* bound: times at which a place makes inbox commits on one version
    MaxFaults    \* bound: processes killed and marker files that stay

ASSUME VaultAssumption ==
    /\ HomeOf \in [Save -> Place]
    /\ DropAt \in [Drop -> Place]
    /\ DaemonAt \subseteq Place
    /\ MaxRetries \in Nat \ {0}
    /\ Stamp \subseteq Nat
    /\ MaxFaults \in Nat

VARIABLES
    hub,      \* the commits of refs/heads/main on the hub, oldest first
    net,      \* pushes under way: [old, new], both branch histories
    expired,  \* how many hub commits are older than 24 hours
    head,     \* per place: history of its HEAD
    remote,   \* per place: history of its remote-tracking ref
    marker,   \* per place: _meta/guards/save-in-progress.json
    disk,     \* per place: the inbox files in the folder
    arrived,  \* drops that were put into an inbox
    aside,    \* drops moved to _quarantine/<place>/
    run,      \* per place: the holder of the folder lock
    seen,     \* per save: the version its fingerprint names
    answer,   \* per save: the last line it printed
    faults    \* faults so far

vars == <<hub, net, expired, head, remote, marker, disk, arrived, aside,
          run, seen, answer, faults>>
hubVars == <<hub, net, expired>>
dropVars == <<arrived, aside>>

(***************************************************************************)
(* The holder of a folder lock                                             *)
(***************************************************************************)
Idle == [who |-> Daemon, pc |-> "idle", try |-> 0, load |-> "none",
         then |-> "none", reply |-> "none"]

Untracked(p) == disk[p] \ InTree(head[p])

Started(w) == [Idle EXCEPT !.who = w, !.pc = "recover", !.try = 1]

NoMarker == [op |-> "none", base |-> <<>>]

At(p, pc) == run[p].pc = pc
Go(p, pc) == run' = [run EXCEPT ![p].pc = pc, ![p].reply = "none"]

IsSave(p) == run[p].who \in Save

\* The holder prints its last line and lets go of the lock.
Ends(p, a) ==
    /\ run' = [run EXCEPT ![p] = Idle]
    /\ answer' = IF IsSave(p) THEN [answer EXCEPT ![run[p].who] = a] ELSE answer

\* The folder is to be put back to the marker's base, then go on with t.
UndoThen(p, t) ==
    run' = [run EXCEPT ![p].pc = "undo", ![p].then = t, ![p].reply = "none"]

OpenMarker(p, op) == marker' = [marker EXCEPT ![p] = [op |-> op, base |-> head[p]]]
End(p) == marker' = [marker EXCEPT ![p] = NoMarker]

\* `_ = r.End()`: a marker file that cannot be removed stays, unnoticed.
EndOrLeave(p) ==
    \/ End(p) /\ UNCHANGED faults
    \/ faults < MaxFaults /\ faults' = faults + 1 /\ UNCHANGED marker

Fetch(p) == remote' = [remote EXCEPT ![p] = hub]

Init ==
    /\ hub = <<>> /\ net = {} /\ expired = 0
    /\ head = [p \in Place |-> <<>>]
    /\ remote = [p \in Place |-> <<>>]
    /\ marker = [p \in Place |-> NoMarker]
    /\ disk = [p \in Place |-> {}]
    /\ arrived = {} /\ aside = {}
    /\ run = [p \in Place |-> Idle]
    /\ seen = [s \in Save |-> Original]
    /\ answer = [s \in Save |-> "none"]
    /\ faults = 0

(***************************************************************************)
(* People and agents                                                       *)
(***************************************************************************)
\* A file is put into the inbox of a place.
DropArrives(d) ==
    /\ d \notin arrived
    /\ arrived' = arrived \cup {d}
    /\ disk' = [disk EXCEPT ![DropAt[d]] = @ \cup {d}]
    /\ UNCHANGED <<hubVars, head, remote, marker, aside, run, seen, answer, faults>>

\* read-record takes no lock: it reports whatever version the folder holds,
\* also one whose send is not confirmed. Then the command is issued.
ReadAndAsk(s) ==
    /\ answer[s] = "none"
    /\ KindOf(s) = "ingest" => Note(s) \in arrived
    /\ answer' = [answer EXCEPT ![s] = "asked"]
    /\ seen' = [seen EXCEPT ![s] = IF KindOf(s) = "commit"
                                   THEN Version(head[HomeOf[s]], Note(s)) ELSE Original]
    /\ UNCHANGED <<hubVars, dropVars, head, remote, marker, disk, run, faults>>

LockTimesOut(s) ==
    /\ answer[s] = "asked"
    /\ ~At(HomeOf[s], "idle") /\ run[HomeOf[s]].who # s
    /\ answer' = [answer EXCEPT ![s] = "busy"]
    /\ UNCHANGED <<hubVars, dropVars, head, remote, marker, disk, run, seen, faults>>

TakesLock(s) ==
    /\ answer[s] = "asked"
    /\ At(HomeOf[s], "idle")
    /\ run' = [run EXCEPT ![HomeOf[s]] = Started(s)]
    /\ UNCHANGED <<hubVars, dropVars, head, remote, marker, disk, seen, answer, faults>>

\* A pass that finds nothing new, waiting or left over takes no lock.
DaemonTakesLock(p) ==
    /\ p \in DaemonAt
    /\ At(p, "idle")
    /\ hub # head[p] \/ Untracked(p) # {} \/ marker[p] # NoMarker
    /\ run' = [run EXCEPT ![p] = Started(Daemon)]
    /\ UNCHANGED <<hubVars, dropVars, head, remote, marker, disk, seen, answer, faults>>

\* The process is killed, or a git command fails where the code gives up
\* without undoing: the folder and the marker stay as they are.
Stops(p) ==
    /\ ~At(p, "idle")
    /\ faults < MaxFaults
    /\ faults' = faults + 1
    /\ \E a \in {"killed", "engine-error"} : Ends(p, a)
    /\ UNCHANGED <<hubVars, dropVars, head, remote, marker, disk, seen>>

\* A day passes: --since=24.hours.ago no longer finds the commits so far.
DayPasses ==
    /\ expired < Len(hub)
    /\ expired' = Len(hub)
    /\ UNCHANGED <<hub, net, dropVars, head, remote, marker, disk, run, seen, answer, faults>>

(***************************************************************************)
(* Recover: settle what the previous lock holder left                      *)
(***************************************************************************)
RecoverNothing(p) ==
    /\ At(p, "recover") /\ marker[p] = NoMarker
    /\ Go(p, "update")
    /\ UNCHANGED <<hubVars, dropVars, head, remote, marker, disk, seen, answer, faults>>

\* Nothing was committed: only files have to go back.
RecoverUncommitted(p) ==
    /\ At(p, "recover") /\ marker[p] # NoMarker
    /\ head[p] = marker[p].base
    /\ UndoThen(p, "update")
    /\ UNCHANGED <<hubVars, dropVars, head, remote, marker, disk, seen, answer, faults>>

\* A commit was made: the hub says whether it arrived.
RecoverCommitted(p) ==
    /\ At(p, "recover") /\ marker[p] # NoMarker
    /\ head[p] # marker[p].base
    /\ Fetch(p)
    /\ IF IsPrefix(head[p], hub)
       THEN End(p) /\ Go(p, "update")
       ELSE UndoThen(p, "update") /\ UNCHANGED marker
    /\ UNCHANGED <<hubVars, dropVars, head, disk, seen, answer, faults>>

\* No answer from the hub where one is needed: decide nothing.
NoConnection(p) ==
    /\ \/ At(p, "recover") /\ marker[p] # NoMarker /\ head[p] # marker[p].base
       \/ At(p, "update")
       \/ At(p, "ask")
    /\ Ends(p, "no-connection")
    /\ UNCHANGED <<hubVars, dropVars, head, remote, marker, disk, seen, faults>>

\* reset --mixed to the base and put tracked files back. A file under _inbox/
\* that is not tracked at the base stays where it is.
UndoFolder(p) ==
    /\ At(p, "undo")
    /\ head' = [head EXCEPT ![p] = marker[p].base]
    /\ disk' = [disk EXCEPT ![p] = @ \cup InTree(marker[p].base)]
    /\ Go(p, "undone")
    /\ UNCHANGED <<hubVars, dropVars, remote, marker, seen, answer, faults>>

Again(p, n) ==
    /\ run' = [run EXCEPT ![p] = [Started(run[p].who) EXCEPT !.pc = "update", !.try = n]]
    /\ UNCHANGED answer

\* (mutant) One try too many.
EndUndoOnceMore(p) ==
    /\ At(p, "undone")
    /\ IF run[p].then = "update" THEN End(p) /\ UNCHANGED faults ELSE EndOrLeave(p)
    /\ CASE run[p].then = "update" -> Again(p, run[p].try)
         [] run[p].then = "retry" /\ run[p].try <= MaxRetries -> Again(p, run[p].try + 1)
         [] run[p].then = "retry" /\ run[p].try > MaxRetries -> Ends(p, "busy")
         [] OTHER -> Ends(p, run[p].then)
    /\ UNCHANGED <<hubVars, dropVars, head, remote, disk, seen>>

\* The undo is complete. A lost race is tried again until the tries are used up.
EndUndo(p) ==
    /\ At(p, "undone")
    /\ IF run[p].then = "update" THEN End(p) /\ UNCHANGED faults ELSE EndOrLeave(p)
    /\ CASE run[p].then = "update" -> Again(p, run[p].try)
         [] run[p].then = "retry" /\ run[p].try < MaxRetries -> Again(p, run[p].try + 1)
         [] run[p].then = "retry" /\ run[p].try >= MaxRetries -> Ends(p, "busy")
         [] OTHER -> Ends(p, run[p].then)
    /\ UNCHANGED <<hubVars, dropVars, head, remote, disk, seen>>

(***************************************************************************)
(* Update: one fast-forward to the hub's newest version                    *)
(***************************************************************************)
\* (mutant) The remote-tracking ref is taken for the hub.
UpdateStartsUnasked(p) ==
    /\ At(p, "update")
    /\ IF head[p] = remote[p]
       THEN Go(p, "attempt") /\ UNCHANGED marker
       ELSE OpenMarker(p, "update") /\ Go(p, "forward")
    /\ UNCHANGED <<hubVars, dropVars, head, remote, disk, seen, answer, faults>>

UpdateStarts(p) ==
    /\ At(p, "update")
    /\ Fetch(p)
    /\ IF head[p] = hub
       THEN Go(p, "attempt") /\ UNCHANGED marker
       ELSE OpenMarker(p, "update") /\ Go(p, "forward")
    /\ UNCHANGED <<hubVars, dropVars, head, disk, seen, answer, faults>>

\* merge --ff-only: incoming files appear, files deleted upstream disappear.
FastForward(p) ==
    /\ At(p, "forward")
    /\ IsPrefix(head[p], remote[p])
    /\ head' = [head EXCEPT ![p] = remote[p]]
    /\ disk' = [disk EXCEPT ![p] = (@ \ InTree(head[p])) \cup InTree(remote[p])]
    /\ Go(p, "forwarded")
    /\ UNCHANGED <<hubVars, dropVars, remote, marker, seen, answer, faults>>

UpdateEnds(p) ==
    /\ At(p, "forwarded")
    /\ End(p)
    /\ Go(p, "attempt")
    /\ UNCHANGED <<hubVars, dropVars, head, remote, disk, seen, answer, faults>>

(***************************************************************************)
(* One attempt: key check, inbox file, operation, commit                   *)
(***************************************************************************)
KeyFound(p) ==
    LET s == run[p].who
    IN  Keyed(s) /\ \E i \in SameRequest(remote[p], s) : i > expired

AlreadySaved(p) ==
    /\ At(p, "attempt") /\ IsSave(p)
    /\ KeyFound(p)
    /\ Ends(p, "SAVED")
    /\ UNCHANGED <<hubVars, dropVars, head, remote, marker, disk, seen, faults>>

\* The inbox files this holder would send now: an ingest its source, the
\* daemon whatever waits.
ToSend(p) ==
    IF ~IsSave(p) THEN Untracked(p)
    ELSE IF KindOf(run[p].who) = "ingest" THEN Untracked(p) \cap {Note(run[p].who)}
    ELSE {}

ReadyToSend(p) == At(p, "attempt") /\ (IsSave(p) => ~KeyFound(p))

\* (mutant) A bad drop is removed.
RemovesBad(p) ==
    /\ ReadyToSend(p)
    /\ LET bad == ToSend(p) \cap TooBig
       IN  bad # {} /\ disk' = [disk EXCEPT ![p] = @ \ bad]
    /\ IF IsSave(p) THEN Ends(p, "too-large") ELSE UNCHANGED <<run, answer>>
    /\ UNCHANGED <<hubVars, dropVars, head, remote, marker, seen, faults>>

\* A drop that breaks a limit is moved to quarantine; the daemon goes on with
\* the others, an ingest ends.
SetAsideBad(p) ==
    /\ ReadyToSend(p)
    /\ LET bad == ToSend(p) \cap TooBig
       IN  /\ bad # {}
           /\ disk' = [disk EXCEPT ![p] = @ \ bad]
           /\ aside' = aside \cup bad
    /\ IF IsSave(p) THEN Ends(p, "too-large") ELSE UNCHANGED <<run, answer>>
    /\ UNCHANGED <<hubVars, arrived, head, remote, marker, seen, faults>>

BeginInbox(p) ==
    /\ ReadyToSend(p)
    /\ ToSend(p) # {} /\ ToSend(p) \cap TooBig = {}
    /\ marker[p] = NoMarker
    /\ OpenMarker(p, "inbox")
    /\ run' = [run EXCEPT ![p].pc = "commit", ![p].load = "inbox"]
    /\ UNCHANGED <<hubVars, dropVars, head, remote, disk, seen, answer, faults>>

BeginOp(p) ==
    /\ IsSave(p)
    /\ At(p, "op") \/ (ReadyToSend(p) /\ ToSend(p) = {})
    /\ marker[p] = NoMarker
    /\ OpenMarker(p, "op")
    /\ run' = [run EXCEPT ![p].pc = "run", ![p].load = "op"]
    /\ UNCHANGED <<hubVars, dropVars, head, remote, disk, seen, answer, faults>>

\* begin never opens a marker over one that is there.
MarkerInTheWay(p) ==
    /\ At(p, "op") \/ (ReadyToSend(p) /\ (IsSave(p) \/ ToSend(p) # {}))
    /\ marker[p] # NoMarker
    /\ Ends(p, "engine-error")
    /\ UNCHANGED <<hubVars, dropVars, head, remote, marker, disk, seen, faults>>

\* Nothing waits, or what waits is not quiet yet, or the send step backs off.
DaemonEnds(p) ==
    /\ At(p, "attempt") /\ ~IsSave(p)
    /\ Ends(p, "none")
    /\ UNCHANGED <<hubVars, dropVars, head, remote, marker, disk, seen, faults>>

(***************************************************************************)
(* op.Run and what the folder looks like after it                          *)
(***************************************************************************)
\* (mutant) The fingerprint is not compared.
ConflictIgnored(p) == FALSE

\* CommitRecord compares the fingerprint with the note as it is now.
Conflict(p) == KindOf(run[p].who) = "commit"
               /\ Version(head[p], Note(run[p].who)) # seen[run[p].who]

\* IngestFile reads its source first.
SourceGone(p) == KindOf(run[p].who) = "ingest" /\ Note(run[p].who) \notin disk[p]

\* (mutant) The ledger is not looked up.
NotInLedger(p) == FALSE

\* RecordCapture returns the entry its ledger already holds.
InLedger(p) == KindOf(run[p].who) = "capture" /\ SameRequest(head[p], run[p].who) # {}

OpFails(p) ==
    /\ At(p, "run")
    /\ \/ Conflict(p) /\ UndoThen(p, "note-changed")
       \/ SourceGone(p) /\ UndoThen(p, "engine-error")
    /\ UNCHANGED <<hubVars, dropVars, head, remote, marker, disk, seen, answer, faults>>

NothingChanged(p) ==
    /\ At(p, "run") /\ InLedger(p)
    /\ EndOrLeave(p)
    /\ Ends(p, "SAVED")
    /\ UNCHANGED <<hubVars, dropVars, head, remote, disk, seen>>

\* The operation writes; ingest deletes its source. precheck then refuses what
\* the hub would refuse.
OpWrites(p) ==
    /\ At(p, "run")
    /\ ~Conflict(p) /\ ~SourceGone(p) /\ ~InLedger(p)
    /\ LET s == run[p].who
       IN  /\ disk' = IF KindOf(s) = "ingest" THEN [disk EXCEPT ![p] = @ \ {Note(s)}] ELSE disk
           /\ IF s \in TooBig THEN UndoThen(p, "too-large") ELSE Go(p, "commit")
    /\ UNCHANGED <<hubVars, dropVars, head, remote, marker, seen, answer, faults>>

OpCommit(p) ==
    LET s == run[p].who
    IN  [place |-> p, save |-> s, try |-> run[p].try, drops |-> {},
         saw |-> IF KindOf(s) = "commit" THEN seen[s] ELSE Basis(head[p], s)]

InboxCommit(p, n) ==
    [place |-> p, save |-> Daemon, try |-> n, drops |-> ToSend(p), saw |-> Original]

\* A new commit has a time of its own: it is none that the hub has or may get.
Fresh(p) ==
    {n \in Stamp : LET new == Append(head[p], InboxCommit(p, n))
                   IN  ~IsPrefix(new, hub) /\ \A r \in net : r.new # new}

MakesCommit(p) ==
    /\ At(p, "commit")
    /\ IF run[p].load = "op"
       THEN head' = [head EXCEPT ![p] = Append(@, OpCommit(p))]
       ELSE \E n \in Fresh(p) :
              /\ \A k \in Fresh(p) : n <= k
              /\ head' = [head EXCEPT ![p] = Append(@, InboxCommit(p, n))]
    /\ Go(p, "push")
    /\ UNCHANGED <<hubVars, dropVars, remote, marker, disk, seen, answer, faults>>

(***************************************************************************)
(* record: push, and what its answer means                                 *)
(***************************************************************************)
\* (mutant) A save that lost the race is put on top of what came in between.
PushesRebased(p) ==
    /\ At(p, "push")
    /\ net' = net \cup {[old |-> hub, new |-> Append(hub, Last(head[p]))]}
    /\ head' = [head EXCEPT ![p] = Append(hub, Last(head[p]))]
    /\ run' = [run EXCEPT ![p].pc = "wait", ![p].reply = "none"]
    /\ UNCHANGED <<hub, expired, dropVars, remote, marker, disk, seen, answer, faults>>

\* git compares with what the hub advertises: not a fast-forward is refused
\* at once ("[rejected]"), otherwise <old, new> is sent.
Pushes(p) ==
    /\ At(p, "push")
    /\ IF IsPrefix(hub, head[p])
       THEN /\ net' = net \cup {[old |-> hub, new |-> head[p]]}
            /\ run' = [run EXCEPT ![p].pc = "wait", ![p].reply = "none"]
       ELSE UndoThen(p, "retry") /\ UNCHANGED net
    /\ UNCHANGED <<hub, expired, dropVars, head, remote, marker, disk, seen, answer, faults>>

\* The hub has the commit.
SendOK(p) ==
    /\ EndOrLeave(p)
    /\ CASE run[p].load = "op" -> Ends(p, "SAVED")
         [] run[p].load = "inbox" /\ IsSave(p) -> Go(p, "op") /\ UNCHANGED answer
         [] OTHER -> Ends(p, "none")

Hears(p) ==
    /\ At(p, "wait")
    /\ \/ run[p].reply = "ok" /\ SendOK(p)
       \/ run[p].reply = "race" /\ UndoThen(p, "retry") /\ UNCHANGED <<marker, answer, faults>>
       \/ run[p].reply = "refused" /\ UndoThen(p, "too-large") /\ UNCHANGED <<marker, answer, faults>>
    /\ UNCHANGED <<hubVars, dropVars, head, remote, disk, seen>>

\* (mutants) No answer is taken for a good one; the push is repeated.
GivesUpTrusting(p) ==
    /\ At(p, "wait")
    /\ SendOK(p)
    /\ UNCHANGED <<hubVars, dropVars, head, remote, disk, seen>>
GivesUpAndPushes(p) ==
    /\ At(p, "wait")
    /\ Go(p, "push")
    /\ UNCHANGED <<hubVars, dropVars, head, remote, marker, disk, seen, answer, faults>>

\* Time limit or cut connection: the answer, if any, is not heard.
GivesUp(p) ==
    /\ At(p, "wait")
    /\ Go(p, "ask")
    /\ UNCHANGED <<hubVars, dropVars, head, remote, marker, disk, seen, answer, faults>>

\* (mutants) A hub that did not move is a lost race; an unclear save is dropped.
AsksHubHastily(p) ==
    /\ At(p, "ask")
    /\ Fetch(p)
    /\ \/ IsPrefix(head[p], hub) /\ SendOK(p)
       \/ /\ ~IsPrefix(head[p], hub)
          /\ UndoThen(p, "retry") /\ UNCHANGED <<marker, answer, faults>>
    /\ UNCHANGED <<hubVars, dropVars, head, disk, seen>>
AsksHubAndForgets(p) ==
    /\ At(p, "ask")
    /\ Fetch(p)
    /\ \/ IsPrefix(head[p], hub) /\ SendOK(p)
       \/ /\ ~IsPrefix(head[p], hub)
          /\ End(p) /\ Ends(p, "no-connection") /\ UNCHANGED faults
    /\ UNCHANGED <<hubVars, dropVars, head, disk, seen>>

\* Unclear: ask the hub. It shows the commit; or it moved without it, so the
\* commit can never be taken; or it did not move, so nothing is known.
AsksHub(p) ==
    /\ At(p, "ask")
    /\ Fetch(p)
    /\ \/ IsPrefix(head[p], hub) /\ SendOK(p)
       \/ /\ ~IsPrefix(head[p], hub) /\ hub # marker[p].base
          /\ UndoThen(p, "retry") /\ UNCHANGED <<marker, answer, faults>>
       \/ /\ ~IsPrefix(head[p], hub) /\ hub = marker[p].base
          /\ Ends(p, "no-connection") /\ UNCHANGED <<marker, faults>>
    /\ UNCHANGED <<hubVars, dropVars, head, disk, seen>>

(***************************************************************************)
(* The hub                                                                 *)
(***************************************************************************)
\* The sender hears the answer if it still waits for this very request.
Replies(r, a) ==
    run' = [p \in Place |-> IF At(p, "wait") /\ head[p] = r.new
                            THEN [run[p] EXCEPT !.reply = a] ELSE run[p]]

\* (mutant) Pushes are forced.
HubTakesForced(r) ==
    /\ hub' = r.new
    /\ net' = net \ {r}
    /\ Replies(r, "ok")
    /\ UNCHANGED <<expired, dropVars, head, remote, marker, disk, seen, answer, faults>>

HubTakes(r) ==
    /\ hub = r.old
    /\ hub' = r.new
    /\ net' = net \ {r}
    /\ Replies(r, "ok")
    /\ UNCHANGED <<expired, dropVars, head, remote, marker, disk, seen, answer, faults>>

\* The ref moved since it was advertised.
HubLosesRace(r) ==
    /\ hub # r.old
    /\ net' = net \ {r}
    /\ Replies(r, "race")
    /\ UNCHANGED <<hub, expired, dropVars, head, remote, marker, disk, seen, answer, faults>>

\* PreReceive refuses: a limit, the daily allowance, or a fault of its own.
HubRefuses(r) ==
    /\ net' = net \ {r}
    /\ Replies(r, "refused")
    /\ UNCHANGED <<hub, expired, dropVars, head, remote, marker, disk, seen, answer, faults>>

RequestLost(r) ==
    /\ net' = net \ {r}
    /\ UNCHANGED <<hub, expired, dropVars, head, remote, marker, disk, run, seen, answer, faults>>

HolderStep(p) ==
    \/ RecoverNothing(p) \/ RecoverUncommitted(p) \/ RecoverCommitted(p)
    \/ UndoFolder(p) \/ EndUndo(p)
    \/ UpdateStarts(p) \/ FastForward(p) \/ UpdateEnds(p)
    \/ AlreadySaved(p) \/ SetAsideBad(p) \/ BeginInbox(p) \/ BeginOp(p)
    \/ MarkerInTheWay(p) \/ DaemonEnds(p)
    \/ OpFails(p) \/ NothingChanged(p) \/ OpWrites(p) \/ MakesCommit(p)
    \/ Pushes(p) \/ Hears(p) \/ AsksHub(p)

HubStep(r) == HubTakes(r) \/ HubLosesRace(r) \/ HubRefuses(r)

\* Everything is at rest: no command runs, no request is under way, and a pass
\* of any daemon finds nothing new, waiting or left over.
NothingToDo ==
    /\ net = {}
    /\ \A p \in Place : /\ At(p, "idle")
                         /\ p \in DaemonAt => /\ hub = head[p] /\ Untracked(p) = {}
                                              /\ marker[p] = NoMarker
    /\ UNCHANGED vars

Next ==
    \/ NothingToDo
    \/ \E d \in Drop : DropArrives(d)
    \/ \E s \in Save : ReadAndAsk(s) \/ LockTimesOut(s) \/ TakesLock(s)
    \/ \E p \in Place : \/ DaemonTakesLock(p) \/ HolderStep(p)
                        \/ NoConnection(p) \/ GivesUp(p) \/ Stops(p)
    \/ DayPasses
    \/ \E r \in net : HubStep(r) \/ RequestLost(r)

Spec == Init /\ [][Next]_vars

(***************************************************************************)
(* Fairness. A running process goes on: every git command has a time       *)
(* limit, so a step ends, and a sender does not wait for ever. A command   *)
(* polls the lock until it has it or its time is up; the daemon ticks. The *)
(* connection comes back: who asks the hub again and again is answered at  *)
(* some time; a push under way reaches the hub or is lost.                 *)
(***************************************************************************)
Fairness ==
    /\ \A p \in Place : /\ WF_vars(HolderStep(p) \/ NoConnection(p))
                         /\ WF_vars(GivesUp(p))
                         /\ WF_vars(DaemonTakesLock(p))
                         /\ SF_vars(RecoverCommitted(p))
                         /\ SF_vars(UpdateStarts(p))
    /\ \A q \in Place : WF_vars(\E r \in net : Last(r.new).place = q /\ (HubStep(r) \/ RequestLost(r)))
    /\ \A s \in Save : WF_vars(LockTimesOut(s) \/ TakesLock(s))
FairSpec == Spec /\ Fairness

(***************************************************************************)
(* Properties                                                              *)
(***************************************************************************)
Answers == {"none", "asked", "SAVED", "no-connection", "note-changed",
            "too-large", "engine-error", "busy", "killed"}

Pcs == {"idle", "recover", "undo", "undone", "update", "forward", "forwarded",
        "attempt", "op", "run", "commit", "push", "wait", "ask"}

Marker == [op : {"none", "update", "inbox", "op"}, base : Seq(Commit)]

Holder == [who : Save \cup {Daemon}, pc : Pcs, try : 0..MaxRetries,
           load : {"none", "inbox", "op"},
           then : Answers \cup {"update", "retry"},
           reply : {"none", "ok", "race", "refused"}]

\* Every variable has its type; no save is tried more than MaxRetries times.
TypeOK ==
    /\ hub \in Seq(Commit)
    /\ net \subseteq [old : Seq(Commit), new : Seq(Commit)]
    /\ expired \in Nat
    /\ head \in [Place -> Seq(Commit)]
    /\ remote \in [Place -> Seq(Commit)]
    /\ marker \in [Place -> Marker]
    /\ disk \in [Place -> SUBSET Drop]
    /\ arrived \subseteq Drop /\ aside \subseteq Drop
    /\ run \in [Place -> Holder]
    /\ seen \in [Save -> Reading]
    /\ answer \in [Save -> Answers]
    /\ faults \in Nat

\* `SAVED` means "the shared copy has it": the hub holds a commit of this save
\* or, for a save that is told apart by a key, of an earlier one with that key.
SavedIsOnHub ==
    \A s \in Save : answer[s] = "SAVED" =>
        IF KindOf(s) = "commit" THEN Own(hub, s) # {} ELSE SameRequest(hub, s) # {}

\* A save answered REFUSED note-changed, too-large or busy is never on the hub,
\* not even later: no push of any of its tries is still able to be taken.
\* (no-connection and engine-error are no such promise.)
Definitive == {"note-changed", "too-large", "busy"}
RefusedNeverLands ==
    \A s \in Save : answer[s] \in Definitive => Own(hub, s) = {}

\* Whatever an operation read before it wrote (the note's version, the next
\* idea number) still held on the hub when its commit was taken: no update is
\* lost and no idea number is given twice, whichever place saved in between.
NoLostUpdate ==
    \A i \in DOMAIN hub : IsOp(hub[i]) =>
        hub[i].saw = Basis(SubSeq(hub, 1, i - 1), hub[i].save)

\* No request is carried out twice: a capture never, a publish or an ingest not
\* within 24 hours, however often agents repeat a command whose answer was lost.
DoneOnce ==
    \A i, j \in DOMAIN hub :
        /\ i < j /\ IsOp(hub[i]) /\ IsOp(hub[j])
        /\ Request[hub[i].save] = Request[hub[j].save]
        /\ KindOf(hub[i].save) # "commit"
        => KindOf(hub[i].save) # "capture" /\ i <= expired

\* A branch that is not part of the hub's history is exactly one commit ahead
\* of the marker's base, so the next lock holder always knows what to settle.
UnsentIsMarked ==
    \A p \in Place : ~IsPrefix(head[p], hub) =>
        /\ marker[p] # NoMarker
        /\ head[p] # <<>> /\ marker[p].base = Front(head[p])
        /\ IsPrefix(marker[p].base, hub)

\* An inbox file is in the folder it was put into, in quarantine, or in the
\* hub's history: ingest, which deletes its source, never loses one.
DropKept ==
    \A d \in arrived : d \in disk[DropAt[d]] \cup aside \cup Sent(hub)

\* Every command that was issued ends with a last line (or is killed).
EveryoneAnswered == \A s \in Save : (answer[s] = "asked") ~> (answer[s] # "asked")

\* Places with a daemon end up at the hub's version, with every save and every
\* update settled, and stay so.
Converges == <>[](\A p \in DaemonAt : head[p] = hub /\ marker[p] = NoMarker)

(***************************************************************************)
(* The shared log implements SharedLog                                     *)
(***************************************************************************)
Verdict(a) == CASE a \in {"none", "asked"} -> "open"
                [] a = "SAVED" -> "saved"
                [] a \in Definitive -> "refused"
                [] OTHER -> "unsettled"

Log == INSTANCE SharedLog WITH log <- hub, verdict <- [s \in Save |-> Verdict(answer[s])]

\* Every behaviour of places, hub, pushes and crashes is one of the shared log.
ImplementsSharedLog == Log!Spec
=============================================================================
