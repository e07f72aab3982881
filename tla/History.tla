------------------------------ MODULE History ------------------------------
(***************************************************************************)
(* Branch histories of a shared vault, and what can be read from one.      *)
(*                                                                         *)
(* A history is the sequence of the commits from the first to the tip: the *)
(* main line has one parent per commit. A commit is the work of a save     *)
(* (one invocation of commit, capture, publish-knowledge or ingest) or a   *)
(* batch of inbox files; of its content a history keeps who asked for what *)
(* and what the operation had read when it decided what to write.          *)
(***************************************************************************)
EXTENDS Naturals, Sequences, SequencesExt, FiniteSets

CONSTANTS
    Place,    \* working copies of the vault
    Save,     \* invocations of a saving command
    Drop,     \* files put into an inbox by hand
    Daemon,   \* the author of inbox commits
    Request   \* what a save asks for: [kind, subject]

Kinds == {"commit", "capture", "publish", "ingest"}

ASSUME HistoryAssumption ==
    /\ Daemon \notin Save
    /\ \A s \in Save : Request[s].kind \in Kinds
    /\ \A s \in Save : Request[s].kind = "ingest" => Request[s].subject \in Drop

KindOf(s) == Request[s].kind
Note(s)   == Request[s].subject

\* What a save can have read: the version of a note, named by the save and the
\* try that wrote it, or the number of the next idea, or nothing saved yet.
Reading == (Save \cup {Daemon}) \X Nat
Original == <<Daemon, 0>>

Commit == [place : Place, save : Save \cup {Daemon}, try : Nat,
           drops : SUBSET Drop, saw : Reading]

IsOp(c) == c.save \in Save

Ingests(c, d) == IsOp(c) /\ Request[c.save] = [kind |-> "ingest", subject |-> d]

\* Drops that are a tracked file at the end of history h.
InTree(h) ==
    {d \in Drop : \E i \in DOMAIN h :
        /\ d \in h[i].drops
        /\ \A j \in DOMAIN h : j > i => ~Ingests(h[j], d)}

Sent(h) == {d \in Drop : \E i \in DOMAIN h : d \in h[i].drops}

\* The version of note n after h: the save, and its try, that wrote it last.
Version(h, n) ==
    LET writes == {i \in DOMAIN h : IsOp(h[i]) /\
                     Request[h[i].save] = [kind |-> "commit", subject |-> n]}
    IN  IF writes = {} THEN Original
        ELSE LET c == h[CHOOSE i \in writes : \A j \in writes : j <= i]
             IN  <<c.save, c.try>>

\* NextIdeaID: one past the ideas that are in the folder.
NextIdea(h) ==
    <<Daemon, 1 + Cardinality({i \in DOMAIN h :
                     IsOp(h[i]) /\ KindOf(h[i].save) = "ingest"})>>

\* What the operation of s reads of a folder at history h to decide its write.
Basis(h, s) == CASE KindOf(s) = "commit" -> Version(h, Note(s))
                 [] KindOf(s) = "ingest" -> NextIdea(h)
                 [] OTHER -> Original

\* The saves of h that ask for what s asks for.
SameRequest(h, s) == {i \in DOMAIN h : IsOp(h[i]) /\ Request[h[i].save] = Request[s]}

Own(h, s) == {i \in DOMAIN h : h[i].save = s}

\* ingest and publish-knowledge carry a one-time key; commit and capture do not.
Keyed(s) == KindOf(s) \in {"publish", "ingest"}
=============================================================================
