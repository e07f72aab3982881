---------------------------- MODULE MCVaultSync ----------------------------
(* Small instances of VaultSync: which saves exist, where, and what they ask. *)
EXTENDS VaultSync, TLC

CONSTANTS p1, p2, s1, s2, s3, d1, d2, n1

Asks(kind, subject) == [kind |-> kind, subject |-> subject]

\* Three saves of the same note, two of them in one place.
NotesHome == s1 :> p1 @@ s2 :> p2 @@ s3 :> p1
NotesRequest == [s \in {s1, s2, s3} |-> Asks("commit", n1)]

\* The same publish, asked for in two places.
PairHome == s1 :> p1 @@ s2 :> p2
PublishRequest == [s \in {s1, s2} |-> Asks("publish", n1)]

\* One inbox file, ingested where it was put and where the hub brought it, and
\* another one.
InboxHome == s1 :> p1 @@ s2 :> p2 @@ s3 :> p2
InboxRequest == s1 :> Asks("ingest", d1) @@ s2 :> Asks("ingest", d1) @@ s3 :> Asks("ingest", d2)

\* The same capture in two places, and a save of a note.
CaptureRequest == s1 :> Asks("capture", n1) @@ s2 :> Asks("capture", n1) @@ s3 :> Asks("commit", n1)

DropHome == d1 :> p1 @@ d2 :> p2
NoDropHome == [d \in {} |-> p1]
=============================================================================
