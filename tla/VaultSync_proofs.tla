-------------------------- MODULE VaultSync_proofs --------------------------
(***************************************************************************)
(* The save step of VaultSync, proved for any number of places, saves and  *)
(* inbox files, any number of tries and faults.                            *)
(***************************************************************************)
EXTENDS VaultSync, SequenceTheorems, FiniteSetTheorems, WellFoundedInduction, TLAPS

(***************************************************************************)
(* Branch histories: the prefix order of git's fast-forwards, one commit   *)
(* on top of a history, and what History's operators read from a history   *)
(* when it grows                                                           *)
(***************************************************************************)
\* A prefix agrees with the longer history commit by commit.
LEMMA PrefixPointwise ==
    ASSUME NEW g \in Seq(Commit), NEW h \in Seq(Commit)
    PROVE  IsPrefix(g, h) <=> /\ Len(g) <= Len(h)
                              /\ \A i \in 1..Len(g) : g[i] = h[i]
<1>1. Len(g) \in Nat /\ Len(h) \in Nat /\ SubSeq(g, 1, Len(g)) = g
  BY LenProperties, SubSeqFull
<1>2. ASSUME Len(g) <= Len(h)
      PROVE  /\ SubSeq(h, 1, Len(g)) \in Seq(Commit)
             /\ Len(SubSeq(h, 1, Len(g))) = Len(g)
             /\ \A i \in 1..Len(g) : SubSeq(h, 1, Len(g))[i] = h[i]
  <2>1. \A i \in 1..Len(g) : h[i] \in Commit
    BY <1>1, <1>2, ElementOfSeq
  <2>2. /\ SubSeq(h, 1, Len(g)) \in Seq(Commit)
        /\ Len(SubSeq(h, 1, Len(g))) = IF 1 <= Len(g) THEN Len(g) - 1 + 1 ELSE 0
        /\ \A i \in 1..(Len(g) - 1 + 1) : SubSeq(h, 1, Len(g))[i] = h[1 + i - 1]
    BY <1>1, <2>1, SubSeqProperties
  <2> QED BY <1>1, <2>2
<1>3. ASSUME Len(g) <= Len(h), \A i \in 1..Len(g) : g[i] = h[i]
      PROVE  g = SubSeq(h, 1, Len(g))
  BY <1>2, <1>3, SeqEqual
<1> QED BY <1>1, <1>2, <1>3 DEF IsPrefix

\* The prefix order is an order, with the empty history below all others.
LEMMA PrefixReflexive ==
    ASSUME NEW h \in Seq(Commit)
    PROVE  IsPrefix(h, h)
BY PrefixPointwise, LenProperties

LEMMA PrefixTransitive ==
    ASSUME NEW f \in Seq(Commit), NEW g \in Seq(Commit), NEW h \in Seq(Commit),
           IsPrefix(f, g), IsPrefix(g, h)
    PROVE  IsPrefix(f, h)
<1>1. Len(f) \in Nat /\ Len(g) \in Nat /\ Len(h) \in Nat
  BY LenProperties
<1>2. Len(f) <= Len(g) /\ \A i \in 1..Len(f) : f[i] = g[i]
  BY PrefixPointwise
<1>3. Len(g) <= Len(h) /\ \A i \in 1..Len(g) : g[i] = h[i]
  BY PrefixPointwise
<1>4. Len(f) <= Len(h) /\ \A i \in 1..Len(f) : f[i] = h[i]
  BY <1>1, <1>2, <1>3
<1> QED BY <1>4, PrefixPointwise

LEMMA PrefixAntisymmetric ==
    ASSUME NEW g \in Seq(Commit), NEW h \in Seq(Commit), IsPrefix(g, h), IsPrefix(h, g)
    PROVE  g = h
<1>1. Len(g) \in Nat /\ Len(h) \in Nat
  BY LenProperties
<1>2. Len(g) <= Len(h) /\ \A i \in 1..Len(g) : g[i] = h[i]
  BY PrefixPointwise
<1>3. Len(h) <= Len(g)
  BY PrefixPointwise
<1> QED BY <1>1, <1>2, <1>3, SeqEqual

LEMMA EmptyIsPrefix ==
    ASSUME NEW h \in Seq(Commit)
    PROVE  <<>> \in Seq(Commit) /\ IsPrefix(<<>>, h)
<1>1. <<>> \in Seq(Commit) /\ Len(<<>>) = 0 /\ Len(h) \in Nat
  BY EmptySeq, LenProperties
<1> DEFINE e == <<>>
<1>2. e \in Seq(Commit) /\ Len(e) <= Len(h) /\ \A i \in 1..Len(e) : e[i] = h[i]
  BY <1>1
<1> HIDE DEF e
<1>3. IsPrefix(e, h)
  BY <1>2, PrefixPointwise
<1> QED BY <1>1, <1>3 DEF e

\* One commit on top of a history.
LEMMA AppendedCommit ==
    ASSUME NEW h \in Seq(Commit), NEW c \in Commit
    PROVE  /\ Append(h, c) \in Seq(Commit)
           /\ Len(Append(h, c)) = Len(h) + 1
           /\ \A i \in 1..Len(h) : Append(h, c)[i] = h[i]
           /\ Append(h, c)[Len(h) + 1] = c
OBVIOUS

LEMMA AppendIsLonger ==
    ASSUME NEW h \in Seq(Commit), NEW c \in Commit
    PROVE  /\ Append(h, c) # <<>>
           /\ Front(Append(h, c)) = h
           /\ Last(Append(h, c)) = c
           /\ IsPrefix(h, Append(h, c))
           /\ ~IsPrefix(Append(h, c), h)
<1>1. Len(h) \in Nat
  BY LenProperties
<1>2. /\ Append(h, c) \in Seq(Commit)
      /\ Len(Append(h, c)) = Len(h) + 1
      /\ \A i \in 1..Len(h) : Append(h, c)[i] = h[i]
      /\ Append(h, c)[Len(h) + 1] = c
  BY AppendedCommit
<1>3. IsPrefix(h, Append(h, c))
  <2>1. Len(h) <= Len(Append(h, c)) /\ \A i \in 1..Len(h) : h[i] = Append(h, c)[i]
    BY <1>1, <1>2
  <2> QED BY <1>2, <2>1, PrefixPointwise
<1>4. Front(Append(h, c)) = h
  <2>1. SubSeq(Append(h, c), 1, Len(h)) = SubSeq(h, 1, Len(h))
    BY <1>3 DEF IsPrefix
  <2>2. SubSeq(h, 1, Len(h)) = h
    BY SubSeqFull
  <2>3. Len(Append(h, c)) - 1 = Len(h)
    BY <1>1, <1>2
  <2> QED BY <2>1, <2>2, <2>3 DEF Front
<1>5. ~IsPrefix(Append(h, c), h)
  BY <1>1, <1>2 DEF IsPrefix
<1>6. Append(h, c) # <<>>
  BY <1>1, <1>2, EmptySeq
<1> QED BY <1>2, <1>3, <1>4, <1>5, <1>6 DEF Last

\* A history with commits is its last commit on top of the others.
LEMMA FrontAndLast ==
    ASSUME NEW h \in Seq(Commit), h # <<>>
    PROVE  /\ Front(h) \in Seq(Commit)
           /\ Last(h) \in Commit
           /\ h = Append(Front(h), Last(h))
           /\ Len(Front(h)) = Len(h) - 1
           /\ IsPrefix(Front(h), h)
<1>1. Len(h) \in Nat \ {0}
  BY EmptySeq
<1>2. \A i \in 1..(Len(h) - 1) : h[i] \in Commit
  BY <1>1, ElementOfSeq
<1> DEFINE n == Len(h) - 1
<1>3. /\ SubSeq(h, 1, n) \in Seq(Commit)
      /\ Len(SubSeq(h, 1, n)) = IF 1 <= n THEN n - 1 + 1 ELSE 0
      /\ \A i \in 1..(n - 1 + 1) : SubSeq(h, 1, n)[i] = h[1 + i - 1]
  BY <1>1, <1>2, SubSeqProperties
<1>4. /\ Front(h) \in Seq(Commit)
      /\ Len(Front(h)) = n
      /\ \A i \in 1..n : Front(h)[i] = h[i]
  <2>1. n \in Nat /\ Front(h) = SubSeq(h, 1, n)
    BY <1>1 DEF Front
  <2> HIDE DEF n
  <2> DEFINE f == SubSeq(h, 1, n)
  <2>2. /\ f \in Seq(Commit)
        /\ Len(f) = IF 1 <= n THEN n - 1 + 1 ELSE 0
        /\ \A i \in 1..(n - 1 + 1) : f[i] = h[1 + i - 1]
    BY <1>3
  <2> HIDE DEF f
  <2>3. Len(f) = n /\ \A i \in 1..n : f[i] = h[i]
    BY <2>1, <2>2
  <2> QED BY <2>1, <2>2, <2>3 DEF f
<1>5. Last(h) \in Commit /\ Last(h) = h[Len(h)]
  BY <1>1, ElementOfSeq DEF Last
<1>6. h = Append(Front(h), Last(h))
  <2>1. /\ Append(Front(h), Last(h)) \in Seq(Commit)
        /\ Len(Append(Front(h), Last(h))) = Len(Front(h)) + 1
        /\ \A i \in 1..Len(Front(h)) : Append(Front(h), Last(h))[i] = Front(h)[i]
        /\ Append(Front(h), Last(h))[Len(Front(h)) + 1] = Last(h)
    BY <1>4, <1>5, AppendedCommit
  <2>2. \A i \in 1..Len(h) : h[i] = Append(Front(h), Last(h))[i]
    BY <1>1, <1>4, <1>5, <2>1
  <2>3. Len(h) = Len(Append(Front(h), Last(h)))
    BY <1>1, <1>4, <2>1
  <2> QED BY <2>1, <2>2, <2>3, SeqEqual
<1>7. IsPrefix(Front(h), h)
  BY <1>1, <1>4, PrefixPointwise
<1> QED BY <1>4, <1>5, <1>6, <1>7

\* There is nothing between a history and one commit on top of it.
LEMMA NothingBetween ==
    ASSUME NEW g \in Seq(Commit), NEW h \in Seq(Commit), h # <<>>,
           IsPrefix(Front(h), g), IsPrefix(g, h)
    PROVE  g = Front(h) \/ g = h
<1>1. Len(h) \in Nat \ {0} /\ Len(g) \in Nat
  BY EmptySeq, LenProperties
<1>2. Front(h) \in Seq(Commit) /\ Len(Front(h)) = Len(h) - 1 /\ IsPrefix(Front(h), h)
  BY FrontAndLast
<1>3. Len(Front(h)) <= Len(g) /\ \A i \in 1..Len(Front(h)) : Front(h)[i] = g[i]
  BY <1>2, PrefixPointwise
<1>4. Len(g) <= Len(h) /\ \A i \in 1..Len(g) : g[i] = h[i]
  BY PrefixPointwise
<1>5. CASE Len(g) = Len(h)
  BY <1>4, <1>5, SeqEqual
<1>6. CASE Len(g) = Len(h) - 1
  <2>1. \A i \in 1..Len(g) : g[i] = Front(h)[i]
    BY <1>2, <1>3, <1>6
  <2> QED BY <1>2, <1>6, <2>1, SeqEqual
<1> QED BY <1>1, <1>2, <1>3, <1>4, <1>5, <1>6

(***************************************************************************)
(* What can be read from a history                                         *)
(***************************************************************************)
\* The commits of a save, and those with the same request, only get more.
LEMMA ReadsOfPrefix ==
    ASSUME NEW g \in Seq(Commit), NEW h \in Seq(Commit), IsPrefix(g, h), NEW s
    PROVE  Own(g, s) \subseteq Own(h, s) /\ SameRequest(g, s) \subseteq SameRequest(h, s)
<1>1. DOMAIN g = 1..Len(g) /\ DOMAIN h = 1..Len(h) /\ Len(g) \in Nat /\ Len(h) \in Nat
  BY LenProperties
<1>2. Len(g) <= Len(h) /\ \A i \in 1..Len(g) : g[i] = h[i]
  BY PrefixPointwise
<1>3. \A i \in DOMAIN g : i \in DOMAIN h /\ g[i] = h[i]
  BY <1>1, <1>2
<1> QED BY <1>3 DEF Own, SameRequest

LEMMA OwnOfAppend ==
    ASSUME NEW h \in Seq(Commit), NEW c \in Commit, NEW s
    PROVE  Own(Append(h, c), s) = {} <=> Own(h, s) = {} /\ c.save # s
<1> DEFINE a == Append(h, c)
<1>1. Len(h) \in Nat /\ DOMAIN h = 1..Len(h)
  BY LenProperties
<1>2. /\ a \in Seq(Commit) /\ Len(a) = Len(h) + 1
      /\ \A i \in 1..Len(h) : a[i] = h[i]
      /\ a[Len(h) + 1] = c
  BY AppendedCommit
<1>3. DOMAIN a = 1..Len(a)
  BY <1>2, LenProperties
<1> HIDE DEF a
<1>4. DOMAIN a = DOMAIN h \cup {Len(h) + 1}
  BY <1>1, <1>2, <1>3
<1>5. Own(a, s) = {} <=> Own(h, s) = {} /\ c.save # s
  BY <1>1, <1>2, <1>4 DEF Own
<1> QED BY <1>5 DEF a

\* The last commit is one of the history.
LEMMA LastIsIn ==
    ASSUME NEW h \in Seq(Commit), h # <<>>, NEW s \in Save, Last(h).save = s
    PROVE  Own(h, s) # {} /\ SameRequest(h, s) # {}
<1>1. Len(h) \in Nat \ {0} /\ DOMAIN h = 1..Len(h)
  BY EmptySeq, LenProperties
<1>2. Len(h) \in DOMAIN h /\ h[Len(h)].save = s
  BY <1>1 DEF Last
<1> QED BY <1>2 DEF Own, SameRequest, IsOp

\* A save reads something that can be read.
LEMMA VersionType ==
    ASSUME NEW h \in Seq(Commit), NEW n
    PROVE  Version(h, n) \in Reading
<1> DEFINE writes == {i \in DOMAIN h : IsOp(h[i]) /\
                        Request[h[i].save] = [kind |-> "commit", subject |-> n]}
<1>1. CASE writes = {}
  BY <1>1 DEF Version, Original, Reading
<1>2. CASE writes # {}
  <2>1. Len(h) \in Nat /\ DOMAIN h = 1..Len(h)
    BY LenProperties
  <2> DEFINE left == {Len(h) - i : i \in writes}
  <2>2. left \subseteq Nat /\ left # {}
    BY <1>2, <2>1
  <2>3. PICK m \in left : \A k \in left : <<k, m>> \notin OpToRel(<, Nat)
    BY <2>2, WFMin, NatLessThanWellFounded
  <2>4. \A k \in left : ~(k < m)
    BY <2>2, <2>3 DEF OpToRel
  <2>5. \E i \in writes : \A j \in writes : j <= i
    <3>1. PICK i \in writes : m = Len(h) - i
      OBVIOUS
    <3>2. \A j \in writes : ~(Len(h) - j < Len(h) - i)
      BY <2>4, <3>1
    <3> QED BY <2>1, <3>2
  <2> DEFINE last == CHOOSE i \in writes : \A j \in writes : j <= i
  <2>6. last \in writes
    BY <2>5
  <2>7. h[last] \in Commit
    BY <2>1, <2>6, ElementOfSeq
  <2>8. Version(h, n) = <<h[last].save, h[last].try>>
    BY <1>2 DEF Version
  <2> QED BY SMTT(20), <2>7, <2>8 DEF Commit, Reading
<1> QED BY <1>1, <1>2

LEMMA BasisType ==
    ASSUME NEW h \in Seq(Commit), NEW s \in Save
    PROVE  Basis(h, s) \in Reading
<1>1. Original \in Reading
  BY DEF Original, Reading
<1>2. NextIdea(h) \in Reading
  <2> DEFINE ingests == {i \in DOMAIN h : IsOp(h[i]) /\ KindOf(h[i].save) = "ingest"}
  <2>1. Len(h) \in Nat /\ DOMAIN h = 1..Len(h)
    BY LenProperties
  <2>2. IsFiniteSet(1..Len(h)) /\ ingests \in SUBSET (1..Len(h))
    BY <2>1, FS_Interval
  <2>3. Cardinality(ingests) \in Nat
    BY <2>2, FS_Subset, FS_CardinalityType
  <2> QED BY <2>3 DEF NextIdea, Reading
<1>3. Version(h, Note(s)) \in Reading
  BY VersionType
<1> QED BY <1>1, <1>2, <1>3 DEF Basis

\* Every operation of h read what was true when its commit was added.
TrueReads(h) == \A i \in DOMAIN h : IsOp(h[i]) => h[i].saw = Basis(SubSeq(h, 1, i - 1), h[i].save)

LEMMA TrueReadsOfAppend ==
    ASSUME NEW h \in Seq(Commit), NEW c \in Commit, TrueReads(h),
           IsOp(c) => c.saw = Basis(h, c.save)
    PROVE  TrueReads(Append(h, c))
<1> DEFINE a == Append(h, c)
<1>1. Len(h) \in Nat /\ DOMAIN h = 1..Len(h) /\ SubSeq(h, 1, Len(h)) = h
  BY LenProperties, SubSeqFull
<1>2. /\ a \in Seq(Commit) /\ Len(a) = Len(h) + 1
      /\ \A i \in 1..Len(h) : a[i] = h[i]
      /\ a[Len(h) + 1] = c
  BY AppendedCommit
<1>3. DOMAIN a = 1..Len(a)
  BY <1>2, LenProperties
<1> HIDE DEF a
<1>4. \A n \in 0..Len(h) : SubSeq(a, 1, n) = SubSeq(h, 1, n)
  <2> TAKE n \in 0..Len(h)
  <2>1. \A i \in 1..n : a[i] \in Commit /\ h[i] \in Commit
    BY <1>1, <1>2, ElementOfSeq
  <2>2. n \in Int /\ (IF 1 <= n THEN n - 1 + 1 ELSE 0) = n
    BY <1>1
  <2>3. /\ SubSeq(a, 1, n) \in Seq(Commit) /\ Len(SubSeq(a, 1, n)) = n
        /\ \A i \in 1..(n - 1 + 1) : SubSeq(a, 1, n)[i] = a[1 + i - 1]
    BY <2>1, <2>2, SubSeqProperties
  <2>4. /\ SubSeq(h, 1, n) \in Seq(Commit) /\ Len(SubSeq(h, 1, n)) = n
        /\ \A i \in 1..(n - 1 + 1) : SubSeq(h, 1, n)[i] = h[1 + i - 1]
    BY <2>1, <2>2, SubSeqProperties
  <2> DEFINE x == SubSeq(a, 1, n)
  <2> DEFINE y == SubSeq(h, 1, n)
  <2> HIDE DEF x, y
  <2>5. \A i \in 1..n : x[i] = y[i]
    BY <1>1, <1>2, <2>3, <2>4 DEF x, y
  <2>6. x \in Seq(Commit) /\ y \in Seq(Commit) /\ Len(x) = n /\ Len(y) = n
    BY <2>3, <2>4 DEF x, y
  <2>7. x = y
    BY <2>5, <2>6, SeqEqual
  <2> QED BY <2>7 DEF x, y
<1>5. \A i \in DOMAIN h : IsOp(a[i]) => a[i].saw = Basis(SubSeq(a, 1, i - 1), a[i].save)
  <2> SUFFICES ASSUME NEW i \in DOMAIN h, IsOp(a[i])
               PROVE  a[i].saw = Basis(SubSeq(a, 1, i - 1), a[i].save)
    OBVIOUS
  <2>1. i - 1 \in 0..Len(h) /\ a[i] = h[i]
    BY <1>1, <1>2
  <2>2. SubSeq(a, 1, i - 1) = SubSeq(h, 1, i - 1)
    BY <1>4, <2>1
  <2>3. h[i].saw = Basis(SubSeq(h, 1, i - 1), h[i].save)
    BY <2>1 DEF TrueReads
  <2> QED BY <2>1, <2>2, <2>3
<1>6. SubSeq(a, 1, Len(h)) = h
  <2>1. Len(h) \in 0..Len(h)
    BY <1>1
  <2>2. SubSeq(a, 1, Len(h)) = SubSeq(h, 1, Len(h))
    BY <1>4, <2>1
  <2> QED BY <1>1, <2>2
<1>7. \A i \in DOMAIN a : i \in DOMAIN h \/ (i = Len(h) + 1 /\ i - 1 = Len(h))
  BY <1>1, <1>2, <1>3
<1>8. TrueReads(a)
  <2> SUFFICES ASSUME NEW i \in DOMAIN a, IsOp(a[i])
               PROVE  a[i].saw = Basis(SubSeq(a, 1, i - 1), a[i].save)
    BY DEF TrueReads
  <2>1. CASE i \in DOMAIN h
    BY <1>5, <2>1
  <2>2. CASE i = Len(h) + 1 /\ i - 1 = Len(h)
    BY <1>2, <1>6, <2>2
  <2> QED BY <1>7, <2>1, <2>2
<1> QED BY <1>8 DEF a

(***************************************************************************)
(* The inductive invariant: what holds of each place, of each save, and of *)
(* the hub with the requests under way                                     *)
(***************************************************************************)
\* What a place once heard from the hub stays part of the hub's history.
HeardFromHub(p) ==
    /\ IsPrefix(remote[p], hub)
    /\ marker[p] # NoMarker => IsPrefix(marker[p].base, hub)

\* A branch is one commit ahead of the marker's base.
Ahead(p) == head[p] # <<>> /\ marker[p] # NoMarker /\ marker[p].base = Front(head[p])

\* Where the lock holder stands tells how branch, marker and hub relate.
Settled == {"update", "forward", "forwarded", "attempt", "op", "run", "commit", "undone"}
Sending == {"push", "wait", "ask"}

BranchFits(p) ==
    /\ ~IsPrefix(head[p], hub) => Ahead(p)
    /\ run[p].pc \in Settled => IsPrefix(head[p], hub)
    /\ run[p].pc \in {"run", "commit"} => marker[p] # NoMarker /\ marker[p].base = head[p]
    /\ run[p].pc = "undo" => marker[p] # NoMarker
    /\ run[p].pc \in Sending => Ahead(p)
    /\ run[p].pc = "wait" /\ run[p].reply = "ok" => IsPrefix(head[p], hub)

\* Who holds the lock, and for what.
UndoGoals == {"update", "retry", "note-changed", "engine-error", "too-large"}

HolderKnown(p) ==
    /\ IsSave(p) => p = HomeOf[run[p].who] /\ answer[run[p].who] = "asked"
    /\ run[p].pc = "run" => IsSave(p) /\ run[p].load = "op"
    /\ run[p].pc \in {"commit"} \cup Sending =>
         run[p].load \in {"inbox", "op"} /\ (run[p].load = "op" => IsSave(p))
    /\ run[p].pc \in Sending =>
         Last(head[p]).save = IF run[p].load = "op" THEN run[p].who ELSE Daemon
    /\ run[p].pc \in {"undo", "undone"} => run[p].then \in UndoGoals

\* The try a save waits for is on the hub, or the only one that can get there.
Awaits(p) == run[p].pc \in {"wait", "ask"} /\ run[p].load = "op"

OpenTry(p) ==
    Awaits(p) =>
        /\ \/ IsPrefix(head[p], hub)
           \/ /\ Own(hub, run[p].who) = {}
              /\ \A r \in net : r.old = hub /\ r.new # head[p] => Own(r.new, run[p].who) = {}
        /\ IsPrefix(head[p], hub) => \A r \in net : r.new # head[p]
        /\ run[p].reply # "none" => \A r \in net : r.new # head[p]
        /\ run[p].reply \in {"race", "refused"} => ~IsPrefix(head[p], hub)

\* What a commit says it read is true of the version it is made on.
ReadsHere(p) ==
    /\ run[p].pc \in Sending /\ run[p].load = "op" =>
         Last(head[p]).saw = Basis(Front(head[p]), run[p].who)
    /\ run[p].pc = "commit" /\ run[p].load = "op" /\ KindOf(run[p].who) = "commit" =>
         seen[run[p].who] = Version(head[p], Note(run[p].who))

PlaceOK(p) == HeardFromHub(p) /\ BranchFits(p) /\ HolderKnown(p) /\ OpenTry(p) /\ ReadsHere(p)

\* Nothing of s is on the hub, and no request of s can still be taken.
Lost(s) == Own(hub, s) = {} /\ \A r \in net : r.old = hub => Own(r.new, s) = {}

\* A save without an answer, or with a definite refusal, has lost all its tries
\* but the one it waits for.
LostOrOpen(s) ==
    /\ answer[s] \in {"none", "asked"} \cup Definitive
    /\ ~(run[HomeOf[s]].who = s /\ Awaits(HomeOf[s]))
    => Lost(s)

OnHub(s) == IF KindOf(s) = "commit" THEN Own(hub, s) # {} ELSE SameRequest(hub, s) # {}

SaveOK(s) == LostOrOpen(s) /\ (answer[s] = "SAVED" => OnHub(s))

\* A request adds one commit to a version the hub had. (The push of an inbox
\* commit that is already there would add nothing.)
RequestOK(r) ==
    /\ IsPrefix(r.old, hub)
    /\ r.new # <<>>
    /\ r.old = Front(r.new) \/ (r.old = r.new /\ Last(r.new).save = Daemon)
    /\ IsOp(Last(r.new)) => Last(r.new).saw = Basis(Front(r.new), Last(r.new).save)

IInv ==
    /\ TypeOK
    /\ \A p \in Place : PlaceOK(p)
    /\ \A s \in Save : SaveOK(s)
    /\ \A r \in net : RequestOK(r)
    /\ TrueReads(hub)

(***************************************************************************)
(* What the operators that move a lock holder do to it                     *)
(***************************************************************************)
LEMMA HolderConstants ==
    /\ NoMarker \in Marker
    /\ Idle \in Holder
    /\ \A w \in Save \cup {Daemon} : Started(w) \in Holder
<1>1. 0 \in 0..MaxRetries /\ 1 \in 0..MaxRetries
  BY VaultAssumption DEF VaultAssumption
<1>2. <<>> \in Seq(Commit)
  BY EmptySeq
<1> QED BY <1>1, <1>2 DEF NoMarker, Marker, Idle, Started, Holder, Pcs, Answers

OthersStay(p) == \A q \in Place : q # p => run'[q] = run[q]

LEMMA GoEffect ==
    ASSUME TypeOK, NEW p \in Place, NEW pc \in Pcs, Go(p, pc)
    PROVE  /\ run' \in [Place -> Holder]
           /\ run'[p].pc = pc /\ run'[p].reply = "none"
           /\ run'[p].who = run[p].who /\ run'[p].try = run[p].try
           /\ run'[p].load = run[p].load /\ run'[p].then = run[p].then
           /\ OthersStay(p)
BY ZenonT(20) DEF Go, TypeOK, Holder, OthersStay

LEMMA BeginEffect ==
    ASSUME TypeOK, NEW p \in Place, NEW pc \in Pcs, NEW load \in {"inbox", "op"},
           run' = [run EXCEPT ![p].pc = pc, ![p].load = load]
    PROVE  /\ run' \in [Place -> Holder]
           /\ run'[p].pc = pc /\ run'[p].load = load
           /\ run'[p].who = run[p].who /\ run'[p].try = run[p].try
           /\ run'[p].then = run[p].then /\ run'[p].reply = run[p].reply
           /\ OthersStay(p)
BY ZenonT(20) DEF TypeOK, Holder, OthersStay

LEMMA UndoEffect ==
    ASSUME TypeOK, NEW p \in Place, NEW t \in UndoGoals, UndoThen(p, t)
    PROVE  /\ run' \in [Place -> Holder]
           /\ run'[p].pc = "undo" /\ run'[p].then = t /\ run'[p].reply = "none"
           /\ run'[p].who = run[p].who /\ run'[p].try = run[p].try
           /\ run'[p].load = run[p].load
           /\ OthersStay(p)
<1>1. t \in Answers \cup {"update", "retry"} /\ "undo" \in Pcs
  BY DEF UndoGoals, Answers, Pcs
<1> QED BY ZenonT(20), <1>1 DEF UndoThen, TypeOK, Holder, OthersStay

LEMMA EndsEffect ==
    ASSUME TypeOK, NEW p \in Place, NEW a \in Answers, Ends(p, a)
    PROVE  /\ run' \in [Place -> Holder] /\ answer' \in [Save -> Answers]
           /\ run'[p] = Idle /\ OthersStay(p)
           /\ \A s \in Save : answer'[s] = IF s = run[p].who THEN a ELSE answer[s]
<1>1. Idle \in Holder
  BY HolderConstants
<1> QED BY <1>1 DEF Ends, IsSave, TypeOK, OthersStay

LEMMA StartedEffect ==
    ASSUME TypeOK, NEW p \in Place, NEW w \in Save \cup {Daemon},
           run' = [run EXCEPT ![p] = Started(w)]
    PROVE  /\ run' \in [Place -> Holder]
           /\ run'[p].who = w /\ run'[p].pc = "recover" /\ run'[p].reply = "none"
           /\ run'[p].load = "none" /\ run'[p].then = "none"
           /\ OthersStay(p)
<1>1. /\ Started(w).who = w /\ Started(w).pc = "recover" /\ Started(w).reply = "none"
      /\ Started(w).load = "none" /\ Started(w).then = "none"
  BY DEF Started, Idle
<1>2. Started(w) \in Holder
  BY HolderConstants
<1> QED BY <1>1, <1>2 DEF TypeOK, OthersStay

LEMMA AgainEffect ==
    ASSUME TypeOK, NEW p \in Place, NEW n \in 0..MaxRetries, Again(p, n)
    PROVE  /\ run' \in [Place -> Holder]
           /\ run'[p].who = run[p].who /\ run'[p].pc = "update" /\ run'[p].reply = "none"
           /\ run'[p].load = "none" /\ run'[p].then = "none"
           /\ OthersStay(p)
           /\ answer' = answer
<1> DEFINE new == [Started(run[p].who) EXCEPT !.pc = "update", !.try = n]
<1>1. run[p].who \in Save \cup {Daemon} /\ "update" \in Pcs
  BY DEF TypeOK, Holder, Pcs
<1>2. Started(run[p].who) \in Holder
  BY <1>1, HolderConstants
<1>3. new \in Holder
  BY <1>1, <1>2 DEF Holder
<1>4. /\ new.who = run[p].who /\ new.pc = "update" /\ new.reply = "none"
      /\ new.load = "none" /\ new.then = "none"
  BY DEF Started, Idle
<1> HIDE DEF new
<1>5. run' = [run EXCEPT ![p] = new] /\ answer' = answer
  BY DEF Again, new
<1> QED BY <1>3, <1>4, <1>5 DEF TypeOK, OthersStay

LEMMA RepliesEffect ==
    ASSUME TypeOK, NEW r, NEW a \in {"ok", "race", "refused"}, Replies(r, a)
    PROVE  /\ run' \in [Place -> Holder]
           /\ \A p \in Place :
                /\ run'[p].pc = run[p].pc /\ run'[p].who = run[p].who
                /\ run'[p].try = run[p].try
                /\ run'[p].load = run[p].load /\ run'[p].then = run[p].then
                /\ run'[p].reply = IF run[p].pc = "wait" /\ head[p] = r.new
                                   THEN a ELSE run[p].reply
<1>1. \A p \in Place : run[p] \in Holder
  BY DEF TypeOK
<1>2. \A p \in Place : [run[p] EXCEPT !.reply = a] \in Holder
  BY <1>1 DEF Holder
<1>3. run' = [p \in Place |-> IF run[p].pc = "wait" /\ head[p] = r.new
                             THEN [run[p] EXCEPT !.reply = a] ELSE run[p]]
  BY DEF Replies, At
<1>4. \A p \in Place : /\ [run[p] EXCEPT !.reply = a].pc = run[p].pc
                        /\ [run[p] EXCEPT !.reply = a].who = run[p].who
                        /\ [run[p] EXCEPT !.reply = a].try = run[p].try
                        /\ [run[p] EXCEPT !.reply = a].load = run[p].load
                        /\ [run[p] EXCEPT !.reply = a].then = run[p].then
                        /\ [run[p] EXCEPT !.reply = a].reply = a
  BY <1>1 DEF Holder
<1> QED BY <1>1, <1>2, <1>3, <1>4

\* A marker that cannot be removed changes nothing but the fault count.
LEMMA EndOrLeaveEffect ==
    ASSUME TypeOK, NEW p \in Place, EndOrLeave(p)
    PROVE  /\ marker' \in [Place -> Marker] /\ faults' \in Nat
           /\ marker'[p] \in {marker[p], NoMarker}
           /\ \A q \in Place : q # p => marker'[q] = marker[q]
<1>1. NoMarker \in Marker
  BY HolderConstants
<1>2. marker \in [Place -> Marker] /\ faults \in Nat
  BY DEF TypeOK
<1>3. CASE End(p) /\ UNCHANGED faults
  BY <1>1, <1>2, <1>3 DEF End
<1>4. CASE faults' = faults + 1 /\ UNCHANGED marker
  BY <1>2, <1>4
<1> QED BY <1>3, <1>4 DEF EndOrLeave

LEMMA EndEffect ==
    ASSUME TypeOK, NEW p \in Place, End(p)
    PROVE  /\ marker' \in [Place -> Marker]
           /\ marker'[p] = NoMarker
           /\ \A q \in Place : q # p => marker'[q] = marker[q]
<1>1. NoMarker \in Marker
  BY HolderConstants
<1> QED BY <1>1 DEF End, TypeOK

LEMMA OpenMarkerEffect ==
    ASSUME TypeOK, NEW p \in Place, NEW op \in {"update", "inbox", "op"}, OpenMarker(p, op)
    PROVE  /\ marker' \in [Place -> Marker]
           /\ marker'[p] # NoMarker /\ marker'[p].base = head[p]
           /\ \A q \in Place : q # p => marker'[q] = marker[q]
<1>1. [op |-> op, base |-> head[p]] \in Marker /\ [op |-> op, base |-> head[p]] # NoMarker
  BY DEF Marker, NoMarker, TypeOK
<1> QED BY <1>1 DEF OpenMarker, TypeOK

(***************************************************************************)
(* Type correctness                                                        *)
(***************************************************************************)
LEMMA OpCommitType ==
    ASSUME TypeOK, NEW p \in Place, IsSave(p)
    PROVE  OpCommit(p) \in Commit
<1>1. /\ run[p].who \in Save /\ run[p].try \in Nat
      /\ head[p] \in Seq(Commit) /\ seen \in [Save -> Reading]
  BY VaultAssumption DEF VaultAssumption, TypeOK, Holder, IsSave
<1>2. Basis(head[p], run[p].who) \in Reading
  BY <1>1, BasisType
<1> QED BY <1>1, <1>2 DEF OpCommit, Commit

LEMMA InboxCommitType ==
    ASSUME TypeOK, NEW p \in Place, NEW n \in Stamp
    PROVE  InboxCommit(p, n) \in Commit
<1>1. ToSend(p) \subseteq Drop
  BY DEF ToSend, Untracked, TypeOK
<1>2. n \in Nat /\ Original \in Reading
  BY VaultAssumption DEF VaultAssumption, Original, Reading
<1> QED BY <1>1, <1>2 DEF InboxCommit, Commit

LEMMA InTreeType == \A h : InTree(h) \subseteq Drop
BY DEF InTree

\* Every step keeps the types: no counter, marker or history leaves its set.
LEMMA TypeStep == IInv /\ [Next]_vars => TypeOK'
<1> SUFFICES ASSUME TypeOK, \A p \in Place : HolderKnown(p), [Next]_vars  PROVE TypeOK'
  BY DEF IInv, PlaceOK
<1> USE DEF hubVars, dropVars
<1>1. CASE UNCHANGED vars
  BY <1>1 DEF vars, TypeOK
<1>2. CASE NothingToDo
  BY <1>2 DEF NothingToDo, vars, TypeOK
<1>3. ASSUME NEW d \in Drop, DropArrives(d)  PROVE TypeOK'
  <2>1. DropAt[d] \in Place
    BY VaultAssumption DEF VaultAssumption
  <2> QED BY <1>3, <2>1 DEF DropArrives, TypeOK
<1>4. ASSUME NEW s \in Save, ReadAndAsk(s)  PROVE TypeOK'
  <2>1. HomeOf[s] \in Place
    BY VaultAssumption DEF VaultAssumption
  <2>2. Version(head[HomeOf[s]], Note(s)) \in Reading /\ Original \in Reading
    BY <2>1, VersionType DEF TypeOK, Original, Reading
  <2>3. "asked" \in Answers
    BY DEF Answers
  <2> QED BY <1>4, <2>2, <2>3 DEF ReadAndAsk, TypeOK
<1>5. ASSUME NEW s \in Save, LockTimesOut(s)  PROVE TypeOK'
  <2>1. "busy" \in Answers
    BY DEF Answers
  <2> QED BY <1>5, <2>1 DEF LockTimesOut, TypeOK
<1>6. ASSUME NEW s \in Save, TakesLock(s)  PROVE TypeOK'
  <2>1. HomeOf[s] \in Place
    BY VaultAssumption DEF VaultAssumption
  <2>2. run' \in [Place -> Holder]
    BY <1>6, <2>1, StartedEffect DEF TakesLock
  <2> QED BY <1>6, <2>2 DEF TakesLock, TypeOK
<1>7. CASE DayPasses
  BY <1>7, LenProperties DEF DayPasses, TypeOK
<1>8. ASSUME NEW p \in Place, DaemonTakesLock(p)  PROVE TypeOK'
  <2>1. run' \in [Place -> Holder]
    BY <1>8, StartedEffect DEF DaemonTakesLock
  <2> QED BY <1>8, <2>1 DEF DaemonTakesLock, TypeOK
<1>9. ASSUME NEW p \in Place, NoConnection(p) \/ Stops(p)  PROVE TypeOK'
  <2>1. {"no-connection", "killed", "engine-error"} \subseteq Answers
    BY DEF Answers
  <2>2. run' \in [Place -> Holder] /\ answer' \in [Save -> Answers]
    BY <1>9, <2>1, EndsEffect DEF NoConnection, Stops
  <2> QED BY <1>9, <2>2 DEF NoConnection, Stops, TypeOK
<1>10. ASSUME NEW p \in Place, GivesUp(p)  PROVE TypeOK'
  <2>1. run' \in [Place -> Holder]
    BY <1>10, GoEffect DEF GivesUp, Pcs
  <2> QED BY <1>10, <2>1 DEF GivesUp, TypeOK
<1>11. ASSUME NEW p \in Place, RecoverNothing(p)  PROVE TypeOK'
  <2>1. run' \in [Place -> Holder]
    BY <1>11, GoEffect DEF RecoverNothing, Pcs
  <2> QED BY <1>11, <2>1 DEF RecoverNothing, TypeOK
<1>12. ASSUME NEW p \in Place, RecoverUncommitted(p)  PROVE TypeOK'
  <2>1. run' \in [Place -> Holder]
    BY <1>12, UndoEffect DEF RecoverUncommitted, UndoGoals
  <2> QED BY <1>12, <2>1 DEF RecoverUncommitted, TypeOK
<1>13. ASSUME NEW p \in Place, RecoverCommitted(p)  PROVE TypeOK'
  <2>1. run' \in [Place -> Holder]
    BY <1>13, GoEffect, UndoEffect DEF RecoverCommitted, Pcs, UndoGoals
  <2>2. marker' \in [Place -> Marker]
    BY <1>13, EndEffect DEF RecoverCommitted, TypeOK
  <2> QED BY <1>13, <2>1, <2>2 DEF RecoverCommitted, Fetch, TypeOK
<1>14. ASSUME NEW p \in Place, UndoFolder(p)  PROVE TypeOK'
  <2>1. run' \in [Place -> Holder]
    BY <1>14, GoEffect DEF UndoFolder, Pcs
  <2>2. head' \in [Place -> Seq(Commit)] /\ disk' \in [Place -> SUBSET Drop]
    BY <1>14, InTreeType DEF UndoFolder, TypeOK, Marker
  <2> QED BY <1>14, <2>1, <2>2 DEF UndoFolder, TypeOK
<1>15. ASSUME NEW p \in Place, EndUndo(p)  PROVE TypeOK'
  <2>1. marker' \in [Place -> Marker] /\ faults' \in Nat
    BY <1>15, EndEffect, EndOrLeaveEffect DEF EndUndo, TypeOK
  <2>2. run[p].try \in 0..MaxRetries /\ run[p].then \in Answers \cup {"update", "retry"}
    BY DEF TypeOK, Holder
  <2>3. CASE Again(p, run[p].try)
    BY <1>15, <2>1, <2>2, <2>3, AgainEffect DEF EndUndo, TypeOK
  <2>4. CASE run[p].try < MaxRetries /\ Again(p, run[p].try + 1)
    <3>1. run[p].try + 1 \in 0..MaxRetries
      BY <2>2, <2>4, VaultAssumption DEF VaultAssumption
    <3>2. run' \in [Place -> Holder] /\ answer' = answer
      BY <2>4, <3>1, AgainEffect
    <3> QED BY <1>15, <2>1, <3>2 DEF EndUndo, TypeOK
  <2>5. ASSUME NEW a \in Answers, Ends(p, a)  PROVE TypeOK'
    BY <1>15, <2>1, <2>5, EndsEffect DEF EndUndo, TypeOK
  <2>6. \/ Again(p, run[p].try) \/ (run[p].try < MaxRetries /\ Again(p, run[p].try + 1))
        \/ Ends(p, "busy")
        \/ (run[p].then \notin {"update", "retry"} /\ Ends(p, run[p].then))
    BY <1>15, <2>2, VaultAssumption DEF EndUndo, VaultAssumption
  <2> QED BY <2>2, <2>3, <2>4, <2>5, <2>6 DEF Answers
<1>16. ASSUME NEW p \in Place, UpdateStarts(p)  PROVE TypeOK'
  <2>1. run' \in [Place -> Holder]
    BY <1>16, GoEffect DEF UpdateStarts, Pcs
  <2>2. marker' \in [Place -> Marker]
    BY <1>16, OpenMarkerEffect DEF UpdateStarts, TypeOK
  <2> QED BY <1>16, <2>1, <2>2 DEF UpdateStarts, Fetch, TypeOK
<1>17. ASSUME NEW p \in Place, FastForward(p)  PROVE TypeOK'
  <2>1. run' \in [Place -> Holder]
    BY <1>17, GoEffect DEF FastForward, Pcs
  <2>2. head' \in [Place -> Seq(Commit)] /\ disk' \in [Place -> SUBSET Drop]
    BY <1>17, InTreeType DEF FastForward, TypeOK
  <2> QED BY <1>17, <2>1, <2>2 DEF FastForward, TypeOK
<1>18. ASSUME NEW p \in Place, UpdateEnds(p)  PROVE TypeOK'
  <2>1. run' \in [Place -> Holder] /\ marker' \in [Place -> Marker]
    BY <1>18, GoEffect, EndEffect DEF UpdateEnds, Pcs
  <2> QED BY <1>18, <2>1 DEF UpdateEnds, TypeOK
<1>19. ASSUME NEW p \in Place, AlreadySaved(p) \/ DaemonEnds(p) \/ MarkerInTheWay(p)
       PROVE  TypeOK'
  <2>1. {"SAVED", "none", "engine-error"} \subseteq Answers
    BY DEF Answers
  <2>2. run' \in [Place -> Holder] /\ answer' \in [Save -> Answers]
    BY <1>19, <2>1, EndsEffect DEF AlreadySaved, DaemonEnds, MarkerInTheWay
  <2> QED BY <1>19, <2>2 DEF AlreadySaved, DaemonEnds, MarkerInTheWay, TypeOK
<1>20. ASSUME NEW p \in Place, SetAsideBad(p)  PROVE TypeOK'
  <2>1. ToSend(p) \subseteq Drop
    BY DEF ToSend, Untracked, TypeOK
  <2>2. disk' \in [Place -> SUBSET Drop] /\ aside' \subseteq Drop
    BY <1>20, <2>1 DEF SetAsideBad, TypeOK
  <2>3. "too-large" \in Answers
    BY DEF Answers
  <2>4. run' \in [Place -> Holder] /\ answer' \in [Save -> Answers]
    BY <1>20, <2>3, EndsEffect DEF SetAsideBad, TypeOK
  <2> QED BY <1>20, <2>2, <2>4 DEF SetAsideBad, TypeOK
<1>21. ASSUME NEW p \in Place, BeginInbox(p)  PROVE TypeOK'
  <2>0. "commit" \in Pcs
    BY DEF Pcs
  <2>1. run' \in [Place -> Holder]
    BY <1>21, <2>0, BeginEffect DEF BeginInbox
  <2>2. marker' \in [Place -> Marker]
    BY <1>21, OpenMarkerEffect DEF BeginInbox
  <2> QED BY <1>21, <2>1, <2>2 DEF BeginInbox, TypeOK
<1>22. ASSUME NEW p \in Place, BeginOp(p)  PROVE TypeOK'
  <2>0. "run" \in Pcs
    BY DEF Pcs
  <2>1. run' \in [Place -> Holder]
    BY <1>22, <2>0, BeginEffect DEF BeginOp
  <2>2. marker' \in [Place -> Marker]
    BY <1>22, OpenMarkerEffect DEF BeginOp
  <2> QED BY <1>22, <2>1, <2>2 DEF BeginOp, TypeOK
<1>23. ASSUME NEW p \in Place, OpFails(p)  PROVE TypeOK'
  <2>1. run' \in [Place -> Holder]
    BY <1>23, UndoEffect DEF OpFails, UndoGoals
  <2> QED BY <1>23, <2>1 DEF OpFails, TypeOK
<1>24. ASSUME NEW p \in Place, NothingChanged(p)  PROVE TypeOK'
  <2>1. "SAVED" \in Answers
    BY DEF Answers
  <2>2. run' \in [Place -> Holder] /\ answer' \in [Save -> Answers]
    BY <1>24, <2>1, EndsEffect DEF NothingChanged
  <2>3. marker' \in [Place -> Marker] /\ faults' \in Nat
    BY <1>24, EndOrLeaveEffect DEF NothingChanged
  <2> QED BY <1>24, <2>2, <2>3 DEF NothingChanged, TypeOK
<1>25. ASSUME NEW p \in Place, OpWrites(p)  PROVE TypeOK'
  <2>1. run' \in [Place -> Holder]
    BY <1>25, GoEffect, UndoEffect DEF OpWrites, Pcs, UndoGoals
  <2>2. disk' \in [Place -> SUBSET Drop]
    BY <1>25 DEF OpWrites, TypeOK
  <2> QED BY <1>25, <2>1, <2>2 DEF OpWrites, TypeOK
<1>26. ASSUME NEW p \in Place, MakesCommit(p)  PROVE TypeOK'
  <2>0. run[p].load = "op" => IsSave(p)
    BY <1>26 DEF MakesCommit, At, HolderKnown
  <2>1. run' \in [Place -> Holder]
    BY <1>26, GoEffect DEF MakesCommit, Pcs
  <2>2. PICK c \in Commit : head' = [head EXCEPT ![p] = Append(@, c)]
    BY <1>26, <2>0, OpCommitType, InboxCommitType DEF MakesCommit, Fresh
  <2>3. head' \in [Place -> Seq(Commit)]
    BY <2>2, AppendedCommit DEF TypeOK
  <2> QED BY <1>26, <2>1, <2>3 DEF MakesCommit, TypeOK
<1>27. ASSUME NEW p \in Place, Pushes(p)  PROVE TypeOK'
  <2>1. run' \in [Place -> Holder]
    <3>0. "wait" \in Pcs
      BY DEF Pcs
    <3>1. CASE run' = [run EXCEPT ![p].pc = "wait", ![p].reply = "none"]
      BY <3>0, <3>1, GoEffect DEF Go
    <3>2. CASE UndoThen(p, "retry")
      BY <3>2, UndoEffect DEF UndoGoals
    <3> QED BY <1>27, <3>1, <3>2 DEF Pushes
  <2>2. net' \subseteq [old : Seq(Commit), new : Seq(Commit)]
    BY <1>27 DEF Pushes, TypeOK
  <2> QED BY <1>27, <2>1, <2>2 DEF Pushes, TypeOK
<1>28. ASSUME NEW p \in Place, SendOK(p)
       PROVE  /\ run' \in [Place -> Holder] /\ answer' \in [Save -> Answers]
              /\ marker' \in [Place -> Marker] /\ faults' \in Nat
  <2>1. {"SAVED", "none"} \subseteq Answers /\ "op" \in Pcs
    BY DEF Answers, Pcs
  <2>2. Ends(p, "SAVED") \/ (Go(p, "op") /\ UNCHANGED answer) \/ Ends(p, "none")
    BY <1>28 DEF SendOK
  <2>3. run' \in [Place -> Holder] /\ answer' \in [Save -> Answers]
    BY <2>1, <2>2, EndsEffect, GoEffect DEF TypeOK
  <2> QED BY <1>28, <2>3, EndOrLeaveEffect DEF SendOK
<1>29. ASSUME NEW p \in Place, Hears(p)  PROVE TypeOK'
  <2>1. CASE SendOK(p)
    BY <1>28, <1>29, <2>1 DEF Hears, TypeOK
  <2>2. ASSUME NEW t \in UndoGoals, UndoThen(p, t), UNCHANGED <<marker, answer, faults>>
        PROVE  TypeOK'
    BY <1>29, <2>2, UndoEffect DEF Hears, TypeOK
  <2> QED BY <1>29, <2>1, <2>2 DEF Hears, UndoGoals
<1>30. ASSUME NEW p \in Place, AsksHub(p)  PROVE TypeOK'
  <2>1. CASE SendOK(p)
    BY <1>28, <1>30, <2>1 DEF AsksHub, Fetch, TypeOK
  <2>2. CASE UndoThen(p, "retry") /\ UNCHANGED <<marker, answer, faults>>
    BY <1>30, <2>2, UndoEffect DEF AsksHub, Fetch, UndoGoals, TypeOK
  <2>3. CASE Ends(p, "no-connection") /\ UNCHANGED <<marker, faults>>
    BY <1>30, <2>3, EndsEffect DEF AsksHub, Fetch, Answers, TypeOK
  <2> QED BY <1>30, <2>1, <2>2, <2>3 DEF AsksHub
<1>31. ASSUME NEW r \in net, HubStep(r) \/ RequestLost(r)  PROVE TypeOK'
  <2>1. \A a \in {"ok", "race", "refused"} : Replies(r, a) => run' \in [Place -> Holder]
    BY RepliesEffect
  <2>2. run' \in [Place -> Holder]
    BY <1>31, <2>1 DEF HubStep, HubTakes, HubLosesRace, HubRefuses, RequestLost, TypeOK
  <2>3. hub' \in Seq(Commit) /\ net' \subseteq net
    BY <1>31 DEF HubStep, HubTakes, HubLosesRace, HubRefuses, RequestLost, TypeOK
  <2> QED BY <1>31, <2>2, <2>3
           DEF HubStep, HubTakes, HubLosesRace, HubRefuses, RequestLost, TypeOK
<1> QED
  BY <1>1, <1>2, <1>3, <1>4, <1>5, <1>6, <1>7, <1>8, <1>9, <1>10, <1>11, <1>12, <1>13,
     <1>14, <1>15, <1>16, <1>17, <1>18, <1>19, <1>20, <1>21, <1>22, <1>23, <1>24, <1>25,
     <1>26, <1>27, <1>29, <1>30, <1>31
  DEF Next, HolderStep

(***************************************************************************)
(* The first state                                                         *)
(***************************************************************************)
LEMMA InitOK == Init => IInv
<1> SUFFICES ASSUME Init  PROVE IInv
  OBVIOUS
<1>1. <<>> \in Seq(Commit) /\ IsPrefix(<<>>, <<>>) /\ DOMAIN <<>> = {}
  <2>1. <<>> \in Seq(Commit)
    BY EmptySeq
  <2>2. IsPrefix(<<>>, <<>>)
    BY <2>1, PrefixReflexive
  <2>3. DOMAIN <<>> = {}
    BY <2>1, LenProperties, EmptySeq
  <2> QED BY <2>1, <2>2, <2>3
<1>2. NoMarker \in Marker /\ Idle \in Holder
  BY HolderConstants
<1>3. TypeOK
  <2>1. Original \in Reading /\ "none" \in Answers
    BY DEF Original, Reading, Answers
  <2> QED BY <1>1, <1>2, <2>1 DEF Init, TypeOK
<1>4. ASSUME NEW p \in Place  PROVE PlaceOK(p)
  <2>1. run[p].who = Daemon /\ run[p].pc = "idle"
    BY DEF Init, Idle
  <2>2. ~IsSave(p)
    BY <2>1, HistoryAssumption DEF HistoryAssumption, IsSave
  <2>3. head[p] = <<>> /\ remote[p] = <<>> /\ hub = <<>> /\ marker[p] = NoMarker
    BY DEF Init
  <2> QED BY <1>1, <2>1, <2>2, <2>3
      DEF PlaceOK, HeardFromHub, BranchFits, Settled, Sending, HolderKnown, OpenTry, Awaits,
          ReadsHere
<1>5. ASSUME NEW s \in Save  PROVE SaveOK(s)
  <2>1. Own(hub, s) = {} /\ net = {} /\ answer[s] = "none"
    BY <1>1 DEF Init, Own
  <2> QED BY <2>1 DEF SaveOK, LostOrOpen, Lost
<1>6. TrueReads(hub) /\ net = {}
  BY <1>1 DEF Init, TrueReads
<1> QED BY <1>3, <1>4, <1>5, <1>6 DEF IInv

(***************************************************************************)
(* Steps of a lock holder that send nothing                                *)
(***************************************************************************)
LocalStep(p) ==
    /\ hub' = hub /\ net' = net /\ seen' = seen
    /\ run'[p].who \in {run[p].who, Daemon}
    /\ \A q \in Place : q # p => /\ run'[q] = run[q] /\ head'[q] = head[q]
                                 /\ remote'[q] = remote[q] /\ marker'[q] = marker[q]
    /\ \A s \in Save : s # run[p].who => answer'[s] = answer[s]

\* What such a step owes: its own place, and the save it works for.
StepOK(p) ==
    /\ LocalStep(p)
    /\ PlaceOK(p)'
    /\ \A s \in Save : s = run[p].who => SaveOK(s)'

LEMMA OtherHolder ==
    ASSUME IInv, NEW p \in Place, NEW q \in Place, q # p, IsSave(q)
    PROVE  run[q].who # run[p].who
BY DEF IInv, PlaceOK, HolderKnown, IsSave

LEMMA LocalStepKeepsPlace ==
    ASSUME IInv, NEW p \in Place, LocalStep(p), NEW q \in Place, q # p
    PROVE  PlaceOK(q)'
<1>1. PlaceOK(q)
  BY DEF IInv
<1>2. IsSave(q) => answer'[run[q].who] = answer[run[q].who]
  BY OtherHolder DEF LocalStep, IsSave
<1>3. /\ run'[q] = run[q] /\ head'[q] = head[q] /\ remote'[q] = remote[q]
      /\ marker'[q] = marker[q] /\ hub' = hub /\ net' = net /\ seen' = seen
  BY DEF LocalStep
<1> QED BY <1>1, <1>2, <1>3
    DEF PlaceOK, HeardFromHub, BranchFits, Ahead, HolderKnown, IsSave, OpenTry, Awaits, ReadsHere

LEMMA LocalStepKeepsSave ==
    ASSUME IInv, NEW p \in Place, LocalStep(p), NEW s \in Save, s # run[p].who
    PROVE  SaveOK(s)'
<1>1. SaveOK(s) /\ answer'[s] = answer[s] /\ hub' = hub /\ net' = net
  BY DEF IInv, LocalStep
<1>2. HomeOf[s] \in Place /\ s # Daemon
  BY VaultAssumption, HistoryAssumption DEF VaultAssumption, HistoryAssumption
<1>3. ~(run'[HomeOf[s]].who = s /\ Awaits(HomeOf[s])')
        => ~(run[HomeOf[s]].who = s /\ Awaits(HomeOf[s]))
  BY <1>2 DEF LocalStep, Awaits
<1> QED BY <1>1, <1>3 DEF SaveOK, LostOrOpen, Lost, OnHub

LEMMA LocalStepKeeps ==
    ASSUME IInv, TypeOK', NEW p \in Place, StepOK(p)
    PROVE  IInv'
<1>1. \A q \in Place : PlaceOK(q)'
  BY LocalStepKeepsPlace DEF StepOK
<1>2. \A s \in Save : SaveOK(s)'
  BY LocalStepKeepsSave DEF StepOK
<1>3. hub' = hub /\ net' = net
  BY DEF StepOK, LocalStep
<1> QED BY <1>1, <1>2, <1>3 DEF IInv, RequestOK

\* A save that waits for nothing has lost what it tried.
LEMMA NotAwaiting ==
    ASSUME IInv, NEW p \in Place, IsSave(p), ~Awaits(p)
    PROVE  Lost(run[p].who)
<1>1. PlaceOK(p) /\ run[p].who \in Save
  BY DEF IInv, IsSave
<1>2. p = HomeOf[run[p].who] /\ answer[run[p].who] = "asked"
  BY <1>1 DEF PlaceOK, HolderKnown, IsSave
<1>3. SaveOK(run[p].who)
  BY <1>1 DEF IInv
<1> QED BY <1>2, <1>3 DEF SaveOK, LostOrOpen

\* ... and may be answered anything but SAVED, or go on.
LEMMA SaveMayEnd ==
    ASSUME NEW s \in Save, hub' = hub, net' = net, Lost(s), answer'[s] # "SAVED"
    PROVE  SaveOK(s)'
BY DEF SaveOK, LostOrOpen, Lost

LEMMA SaveGoesOn ==
    ASSUME IInv, NEW p \in Place, hub' = hub, net' = net, answer' = answer,
           ~Awaits(p) \/ Lost(run[p].who), NEW s \in Save, s = run[p].who
    PROVE  SaveOK(s)'
<1>1. IsSave(p)
  BY DEF IsSave
<1>2. answer[s] = "asked"
  BY <1>1 DEF IInv, PlaceOK, HolderKnown
<1> QED BY <1>1, <1>2, NotAwaiting, SaveMayEnd

\* An answer other than SAVED, given to a save that waits for nothing.
LEMMA SaveIsTold ==
    ASSUME IInv, NEW p \in Place, hub' = hub, net' = net, ~Awaits(p),
           NEW a \in Answers, a # "SAVED", Ends(p, a), NEW s \in Save, s = run[p].who
    PROVE  SaveOK(s)'
<1>1. IsSave(p) /\ TypeOK
  BY DEF IsSave, IInv
<1>2. answer'[s] = a
  BY <1>1, EndsEffect
<1> QED BY <1>1, <1>2, NotAwaiting, SaveMayEnd

\* The holder lets go: the place is in order if its branch is.
LEMMA IdlePlaceOK ==
    ASSUME NEW p \in Place, run'[p] = Idle, HeardFromHub(p)',
           IsPrefix(head[p], hub)' \/ Ahead(p)'
    PROVE  PlaceOK(p)'
<1>1. run'[p].who = Daemon /\ run'[p].pc = "idle"
  BY DEF Idle
<1>2. ~IsSave(p)'
  BY <1>1, HistoryAssumption DEF HistoryAssumption, IsSave
<1> QED BY <1>1, <1>2
    DEF PlaceOK, BranchFits, Settled, Sending, HolderKnown, OpenTry, Awaits, ReadsHere

\* An answer that promises nothing may be given at any time.
LEMMA SaveIsLeft ==
    ASSUME IInv, NEW p \in Place, NEW a \in {"no-connection", "engine-error", "killed"},
           Ends(p, a), NEW s \in Save, s = run[p].who
    PROVE  SaveOK(s)'
<1>1. answer'[s] = a
  BY EndsEffect DEF IInv, Answers
<1> QED BY <1>1 DEF SaveOK, LostOrOpen, Definitive

(***************************************************************************)
(* Each of these steps, one after the other                                *)
(***************************************************************************)
LEMMA PlaceTypes ==
    ASSUME TypeOK, NEW p \in Place
    PROVE  /\ hub \in Seq(Commit) /\ head[p] \in Seq(Commit) /\ remote[p] \in Seq(Commit)
           /\ marker[p].base \in Seq(Commit)
           /\ run[p].who \in Save \cup {Daemon} /\ run[p].pc \in Pcs
           /\ IsPrefix(hub, hub) /\ IsPrefix(head[p], head[p])
BY PrefixReflexive DEF TypeOK, Holder, Marker

LEMMA EndingStep ==
    ASSUME IInv, NEW p \in Place, NEW a \in Answers, Ends(p, a),
           hub' = hub, net' = net, seen' = seen, head' = head,
           remote'[p] \in {remote[p], hub}, marker'[p] \in {marker[p], NoMarker},
           marker'[p] = NoMarker => IsPrefix(head[p], hub),
           \A q \in Place : q # p => remote'[q] = remote[q] /\ marker'[q] = marker[q],
           \A s \in Save : s = run[p].who => SaveOK(s)'
    PROVE  StepOK(p)
<1>1. TypeOK /\ PlaceOK(p)
  BY DEF IInv
<1>2. run'[p] = Idle /\ OthersStay(p) /\ run'[p].who = Daemon
      /\ \A s \in Save : s # run[p].who => answer'[s] = answer[s]
  BY <1>1, EndsEffect DEF Idle
<1>3. LocalStep(p)
  BY <1>2 DEF LocalStep, OthersStay
<1>4. HeardFromHub(p)'
  BY <1>1, PlaceTypes DEF PlaceOK, HeardFromHub
<1>5. IsPrefix(head[p], hub)' \/ Ahead(p)'
  BY <1>1 DEF PlaceOK, BranchFits, Ahead
<1>6. PlaceOK(p)'
  BY <1>2, <1>4, <1>5, IdlePlaceOK
<1> QED BY <1>3, <1>6 DEF StepOK

LEMMA PlainEndings ==
    ASSUME IInv, NEW p \in Place, NoConnection(p) \/ Stops(p) \/ MarkerInTheWay(p)
    PROVE  StepOK(p)
<1> USE DEF hubVars, dropVars
<1>1. PICK a \in {"no-connection", "engine-error", "killed"} : Ends(p, a)
  BY DEF NoConnection, Stops, MarkerInTheWay
<1>2. a \in Answers
  BY DEF Answers
<1>3. \A s \in Save : s = run[p].who => SaveOK(s)'
  BY <1>1, SaveIsLeft
<1>4. UNCHANGED <<hub, net, seen, head, remote, marker>>
  BY DEF NoConnection, Stops, MarkerInTheWay
<1>5. marker[p] = NoMarker => IsPrefix(head[p], hub)
  BY DEF IInv, PlaceOK, BranchFits, Ahead
<1> QED BY <1>1, <1>2, <1>3, <1>4, <1>5, EndingStep

\* A daemon's pass that ends says nothing to anyone.
LEMMA DaemonEndsOK ==
    ASSUME IInv, NEW p \in Place, DaemonEnds(p)
    PROVE  StepOK(p)
<1> USE DEF hubVars, dropVars
<1>1. "none" \in Answers /\ Ends(p, "none") /\ UNCHANGED <<hub, net, seen, head, remote, marker>>
  BY DEF DaemonEnds, Answers
<1>2. \A s \in Save : s # run[p].who
  BY DEF DaemonEnds, IsSave
<1>3. marker[p] = NoMarker => IsPrefix(head[p], hub)
  BY DEF IInv, PlaceOK, BranchFits, Ahead
<1> QED BY <1>1, <1>2, <1>3, EndingStep

\* The key is found in what was fetched, so the hub has the request.
LEMMA AlreadySavedOK ==
    ASSUME IInv, NEW p \in Place, AlreadySaved(p)
    PROVE  StepOK(p)
<1> USE DEF hubVars, dropVars
<1>1. "SAVED" \in Answers /\ Ends(p, "SAVED") /\ UNCHANGED <<hub, net, seen, head, remote, marker>>
  BY DEF AlreadySaved, Answers
<1>2. TypeOK /\ PlaceOK(p)
  BY DEF IInv
<1>3. marker[p] = NoMarker => IsPrefix(head[p], hub)
  BY <1>2 DEF PlaceOK, BranchFits, Ahead
<1>4. ASSUME NEW s \in Save, s = run[p].who  PROVE SaveOK(s)'
  <2>1. KindOf(s) # "commit" /\ SameRequest(remote[p], s) # {}
    BY <1>4 DEF AlreadySaved, KeyFound, Keyed
  <2>2. SameRequest(hub, s) # {}
    BY <1>2, <2>1, PlaceTypes, ReadsOfPrefix DEF PlaceOK, HeardFromHub
  <2>3. answer'[s] = "SAVED"
    BY <1>1, <1>2, <1>4, EndsEffect
  <2> QED BY <1>1, <2>1, <2>2, <2>3 DEF SaveOK, LostOrOpen, OnHub, Definitive
<1> QED BY <1>1, <1>3, <1>4, EndingStep

\* Steps that touch none of the variables the invariant speaks of.
LEMMA NothingSeen ==
    ASSUME IInv, TypeOK', UNCHANGED <<hub, net, head, remote, marker, run, seen, answer>>
    PROVE  IInv'
<1>1. ASSUME NEW p \in Place  PROVE PlaceOK(p)'
  <2>1. PlaceOK(p)
    BY DEF IInv
  <2> QED BY <2>1 DEF PlaceOK, HeardFromHub, BranchFits, Ahead, HolderKnown, IsSave, OpenTry,
                       Awaits, ReadsHere
<1>2. \A s \in Save : SaveOK(s)'
  BY DEF IInv, SaveOK, LostOrOpen, Lost, OnHub, Awaits
<1> QED BY <1>1, <1>2 DEF IInv, RequestOK

LEMMA SetAsideBadOK ==
    ASSUME IInv, TypeOK', NEW p \in Place, SetAsideBad(p)
    PROVE  IInv'
<1> USE DEF hubVars, dropVars
<1>1. UNCHANGED <<hub, net, seen, head, remote, marker>>
  BY DEF SetAsideBad
<1>2. CASE UNCHANGED <<run, answer>>
  BY <1>1, <1>2, NothingSeen
<1>3. CASE Ends(p, "too-large")
  <2>1. "too-large" \in Answers /\ ~Awaits(p)
    BY DEF Answers, Awaits, SetAsideBad, ReadyToSend, At
  <2>2. \A s \in Save : s = run[p].who => SaveOK(s)'
    BY <1>1, <1>3, <2>1, SaveIsTold
  <2>3. marker[p] = NoMarker => IsPrefix(head[p], hub)
    BY DEF IInv, PlaceOK, BranchFits, Ahead
  <2> QED BY <1>1, <1>3, <2>1, <2>2, <2>3, EndingStep, LocalStepKeeps
<1> QED BY <1>2, <1>3 DEF SetAsideBad

\* A holder that goes on and tells nobody anything.
LEMMA MovingStep ==
    ASSUME IInv, NEW p \in Place, hub' = hub, net' = net, seen' = seen, answer' = answer,
           OthersStay(p), run'[p].who = run[p].who, ~Awaits(p) \/ Lost(run[p].who), ~Awaits(p)',
           \A q \in Place : q # p => /\ head'[q] = head[q] /\ remote'[q] = remote[q]
                                   /\ marker'[q] = marker[q],
           HeardFromHub(p)', BranchFits(p)', ReadsHere(p)',
           run'[p].pc = "run" => IsSave(p) /\ run'[p].load = "op",
           run'[p].pc \in {"commit"} \cup Sending =>
             run'[p].load \in {"inbox", "op"} /\ (run'[p].load = "op" => IsSave(p)),
           run'[p].pc \in Sending =>
             Last(head'[p]).save = IF run'[p].load = "op" THEN run'[p].who ELSE Daemon,
           run'[p].pc \in {"undo", "undone"} => run'[p].then \in UndoGoals
    PROVE  StepOK(p)
<1>1. LocalStep(p)
  BY DEF LocalStep, OthersStay
<1>2. HolderKnown(p)'
  BY DEF IInv, PlaceOK, HolderKnown, IsSave
<1>3. PlaceOK(p)'
  BY <1>2 DEF PlaceOK, OpenTry
<1>4. \A s \in Save : s = run[p].who => SaveOK(s)'
  BY SaveGoesOn
<1> QED BY <1>1, <1>3, <1>4 DEF StepOK

LEMMA RecoverNothingOK ==
    ASSUME IInv, NEW p \in Place, RecoverNothing(p)
    PROVE  StepOK(p)
<1> USE DEF hubVars, dropVars
<1>1. TypeOK /\ PlaceOK(p)
  BY DEF IInv
<1>2. /\ UNCHANGED <<hub, net, seen, answer, head, remote, marker>>
      /\ run[p].pc = "recover" /\ marker[p] = NoMarker
      /\ run'[p].pc = "update" /\ run'[p].who = run[p].who /\ OthersStay(p)
  BY <1>1, GoEffect DEF RecoverNothing, At, Pcs
<1>3. HeardFromHub(p)' /\ BranchFits(p)'
  BY <1>1, <1>2 DEF PlaceOK, HeardFromHub, BranchFits, Ahead, Settled, Sending
<1> QED BY <1>2, <1>3, MovingStep DEF Awaits, Sending, ReadsHere

LEMMA RecoverUncommittedOK ==
    ASSUME IInv, NEW p \in Place, RecoverUncommitted(p)
    PROVE  StepOK(p)
<1> USE DEF hubVars, dropVars
<1>1. TypeOK /\ PlaceOK(p)
  BY DEF IInv
<1>2. /\ UNCHANGED <<hub, net, seen, answer, head, remote, marker>>
      /\ run[p].pc = "recover" /\ marker[p] # NoMarker
      /\ run'[p].pc = "undo" /\ run'[p].then \in UndoGoals
      /\ run'[p].who = run[p].who /\ OthersStay(p)
  BY <1>1, UndoEffect DEF RecoverUncommitted, At, UndoGoals
<1>3. HeardFromHub(p)' /\ BranchFits(p)'
  BY <1>1, <1>2 DEF PlaceOK, HeardFromHub, BranchFits, Ahead, Settled, Sending
<1> QED BY <1>2, <1>3, MovingStep DEF Awaits, Sending, ReadsHere

LEMMA RecoverCommittedOK ==
    ASSUME IInv, NEW p \in Place, RecoverCommitted(p)
    PROVE  StepOK(p)
<1> USE DEF hubVars, dropVars
<1>1. TypeOK /\ PlaceOK(p) /\ IsPrefix(hub, hub)
  BY PlaceTypes DEF IInv
<1>2. /\ UNCHANGED <<hub, net, seen, answer, head>>
      /\ run[p].pc = "recover" /\ marker[p] # NoMarker
      /\ remote'[p] = hub /\ \A q \in Place : q # p => remote'[q] = remote[q]
  BY <1>1 DEF RecoverCommitted, At, Fetch, TypeOK
<1>3. CASE IsPrefix(head[p], hub)
  <2>1. /\ run'[p].pc = "update" /\ run'[p].who = run[p].who /\ OthersStay(p)
        /\ marker'[p] = NoMarker /\ \A q \in Place : q # p => marker'[q] = marker[q]
    BY <1>1, <1>3, GoEffect, EndEffect DEF RecoverCommitted, Pcs
  <2>2. HeardFromHub(p)' /\ BranchFits(p)'
    BY <1>1, <1>2, <1>3, <2>1 DEF PlaceOK, HeardFromHub, BranchFits, Ahead, Settled, Sending
  <2> QED BY <1>2, <2>1, <2>2, MovingStep DEF Awaits, Sending, ReadsHere
<1>4. CASE ~IsPrefix(head[p], hub)
  <2>1. /\ run'[p].pc = "undo" /\ run'[p].then \in UndoGoals
        /\ run'[p].who = run[p].who /\ OthersStay(p) /\ marker' = marker
    BY <1>1, <1>4, UndoEffect DEF RecoverCommitted, UndoGoals
  <2>2. HeardFromHub(p)' /\ BranchFits(p)'
    BY <1>1, <1>2, <1>4, <2>1 DEF PlaceOK, HeardFromHub, BranchFits, Ahead, Settled, Sending
  <2> QED BY <1>2, <2>1, <2>2, MovingStep DEF Awaits, Sending, ReadsHere
<1> QED BY <1>3, <1>4

LEMMA UndoFolderOK ==
    ASSUME IInv, NEW p \in Place, UndoFolder(p)
    PROVE  StepOK(p)
<1> USE DEF hubVars, dropVars
<1>1. TypeOK /\ PlaceOK(p)
  BY DEF IInv
<1>2. /\ UNCHANGED <<hub, net, seen, answer, remote, marker>>
      /\ run[p].pc = "undo" /\ head'[p] = marker[p].base
      /\ \A q \in Place : q # p => head'[q] = head[q]
      /\ run'[p].pc = "undone" /\ run'[p].then = run[p].then
      /\ run'[p].who = run[p].who /\ OthersStay(p)
  BY <1>1, GoEffect DEF UndoFolder, At, Pcs, TypeOK
<1>3. HeardFromHub(p)' /\ BranchFits(p)'
  BY <1>1, <1>2 DEF PlaceOK, HeardFromHub, BranchFits, Ahead, Settled, Sending
<1>4. run'[p].then \in UndoGoals
  BY <1>1, <1>2 DEF PlaceOK, HolderKnown
<1> QED BY <1>2, <1>3, <1>4, MovingStep DEF Awaits, Sending, ReadsHere

\* After an undo everything the save tried is lost: it may try again or give up.
LEMMA EndUndoOK ==
    ASSUME IInv, NEW p \in Place, EndUndo(p)
    PROVE  StepOK(p)
<1> USE DEF hubVars, dropVars
<1>1. TypeOK /\ PlaceOK(p)
  BY DEF IInv
<1>2. /\ UNCHANGED <<hub, net, seen, head, remote>>
      /\ run[p].pc = "undone" /\ run[p].then \in UndoGoals /\ run[p].try \in 0..MaxRetries
  BY <1>1 DEF EndUndo, At, PlaceOK, HolderKnown, TypeOK, Holder
<1>3. /\ marker'[p] \in {marker[p], NoMarker}
      /\ \A q \in Place : q # p => marker'[q] = marker[q]
  BY <1>1, EndEffect, EndOrLeaveEffect DEF EndUndo
<1>4. IsPrefix(head[p], hub) /\ ~Awaits(p)
  BY <1>1, <1>2 DEF PlaceOK, BranchFits, Settled, Awaits
<1>5. ASSUME NEW n \in 0..MaxRetries, Again(p, n)  PROVE StepOK(p)
  <2>1. /\ run'[p].who = run[p].who /\ run'[p].pc = "update" /\ OthersStay(p)
        /\ answer' = answer
    BY <1>1, <1>5, AgainEffect
  <2>2. HeardFromHub(p)' /\ BranchFits(p)'
    BY <1>1, <1>2, <1>3, <1>4, <2>1
    DEF PlaceOK, HeardFromHub, BranchFits, Settled, Sending
  <2> QED BY <1>2, <1>3, <1>4, <2>1, <2>2, MovingStep DEF Awaits, Sending, ReadsHere
<1>6. ASSUME NEW a \in Answers \ {"SAVED"}, Ends(p, a)  PROVE StepOK(p)
  <2>1. \A s \in Save : s = run[p].who => SaveOK(s)'
    BY <1>2, <1>4, <1>6, SaveIsTold
  <2> QED BY <1>2, <1>3, <1>4, <1>6, <2>1, EndingStep
<1>7. CASE run[p].then = "update"
  BY <1>2, <1>5, <1>7 DEF EndUndo
<1>8. CASE run[p].then = "retry" /\ run[p].try < MaxRetries
  <2>1. run[p].try + 1 \in 0..MaxRetries
    BY <1>2, <1>8, VaultAssumption DEF VaultAssumption
  <2>2. Again(p, run[p].try + 1)
    BY <1>2, <1>8, VaultAssumption DEF EndUndo, VaultAssumption
  <2> QED BY <1>5, <2>1, <2>2
<1>9. CASE run[p].then = "retry" /\ ~(run[p].try < MaxRetries)
  <2>1. Ends(p, "busy")
    BY <1>2, <1>9, VaultAssumption DEF EndUndo, VaultAssumption
  <2> QED BY <1>6, <2>1 DEF Answers
<1>10. CASE run[p].then \notin {"update", "retry"}
  <2>1. Ends(p, run[p].then)
    BY <1>10 DEF EndUndo
  <2>2. run[p].then \in Answers \ {"SAVED"}
    BY <1>2, <1>10 DEF UndoGoals, Answers
  <2> QED BY <1>6, <2>1, <2>2
<1> QED BY <1>7, <1>8, <1>9, <1>10

LEMMA UpdateStartsOK ==
    ASSUME IInv, NEW p \in Place, UpdateStarts(p)
    PROVE  StepOK(p)
<1> USE DEF hubVars, dropVars
<1>1. TypeOK /\ PlaceOK(p) /\ IsPrefix(hub, hub)
  BY PlaceTypes DEF IInv
<1>2. /\ UNCHANGED <<hub, net, seen, answer, head>>
      /\ run[p].pc = "update"
      /\ remote'[p] = hub /\ \A q \in Place : q # p => remote'[q] = remote[q]
  BY <1>1 DEF UpdateStarts, At, Fetch, TypeOK
<1>3. IsPrefix(head[p], hub)
  BY <1>1, <1>2 DEF PlaceOK, BranchFits, Settled
<1>4. /\ run'[p].pc \in {"attempt", "forward"} /\ run'[p].who = run[p].who /\ OthersStay(p)
  BY <1>1, GoEffect DEF UpdateStarts, Pcs
<1>5. /\ \/ marker'[p] = marker[p] \/ marker'[p].base = head[p]
      /\ \A q \in Place : q # p => marker'[q] = marker[q]
  BY <1>1, OpenMarkerEffect DEF UpdateStarts
<1>6. HeardFromHub(p)' /\ BranchFits(p)'
  BY <1>1, <1>2, <1>3, <1>4, <1>5 DEF PlaceOK, HeardFromHub, BranchFits, Settled, Sending
<1> QED BY <1>2, <1>4, <1>5, <1>6, MovingStep DEF Awaits, Sending, ReadsHere

LEMMA FastForwardOK ==
    ASSUME IInv, NEW p \in Place, FastForward(p)
    PROVE  StepOK(p)
<1> USE DEF hubVars, dropVars
<1>1. TypeOK /\ PlaceOK(p)
  BY DEF IInv
<1>2. /\ UNCHANGED <<hub, net, seen, answer, remote, marker>>
      /\ run[p].pc = "forward" /\ head'[p] = remote[p]
      /\ \A q \in Place : q # p => head'[q] = head[q]
      /\ run'[p].pc = "forwarded" /\ run'[p].who = run[p].who /\ OthersStay(p)
  BY <1>1, GoEffect DEF FastForward, At, Pcs, TypeOK
<1>3. HeardFromHub(p)' /\ BranchFits(p)'
  BY <1>1, <1>2 DEF PlaceOK, HeardFromHub, BranchFits, Settled, Sending
<1> QED BY <1>2, <1>3, MovingStep DEF Awaits, Sending, ReadsHere

LEMMA UpdateEndsOK ==
    ASSUME IInv, NEW p \in Place, UpdateEnds(p)
    PROVE  StepOK(p)
<1> USE DEF hubVars, dropVars
<1>1. TypeOK /\ PlaceOK(p)
  BY DEF IInv
<1>2. /\ UNCHANGED <<hub, net, seen, answer, head, remote>>
      /\ run[p].pc = "forwarded"
      /\ marker'[p] = NoMarker /\ \A q \in Place : q # p => marker'[q] = marker[q]
      /\ run'[p].pc = "attempt" /\ run'[p].who = run[p].who /\ OthersStay(p)
  BY <1>1, GoEffect, EndEffect DEF UpdateEnds, At, Pcs
<1>3. HeardFromHub(p)' /\ BranchFits(p)'
  BY <1>1, <1>2 DEF PlaceOK, HeardFromHub, BranchFits, Settled, Sending
<1> QED BY <1>2, <1>3, MovingStep DEF Awaits, Sending, ReadsHere

LEMMA BeginInboxOK ==
    ASSUME IInv, NEW p \in Place, BeginInbox(p)
    PROVE  StepOK(p)
<1> USE DEF hubVars, dropVars
<1>1. TypeOK /\ PlaceOK(p)
  BY DEF IInv
<1>2. /\ UNCHANGED <<hub, net, seen, answer, head, remote>>
      /\ run[p].pc = "attempt"
      /\ marker'[p] # NoMarker /\ marker'[p].base = head[p]
      /\ \A q \in Place : q # p => marker'[q] = marker[q]
      /\ run'[p].pc = "commit" /\ run'[p].load = "inbox"
      /\ run'[p].who = run[p].who /\ OthersStay(p)
  BY <1>1, BeginEffect, OpenMarkerEffect DEF BeginInbox, ReadyToSend, At, Pcs
<1>3. HeardFromHub(p)' /\ BranchFits(p)'
  BY <1>1, <1>2 DEF PlaceOK, HeardFromHub, BranchFits, Settled, Sending
<1> QED BY <1>2, <1>3, MovingStep DEF Awaits, Sending, ReadsHere

LEMMA BeginOpOK ==
    ASSUME IInv, NEW p \in Place, BeginOp(p)
    PROVE  StepOK(p)
<1> USE DEF hubVars, dropVars
<1>1. TypeOK /\ PlaceOK(p)
  BY DEF IInv
<1>2. /\ UNCHANGED <<hub, net, seen, answer, head, remote>>
      /\ run[p].pc \in {"op", "attempt"} /\ IsSave(p)
      /\ marker'[p] # NoMarker /\ marker'[p].base = head[p]
      /\ \A q \in Place : q # p => marker'[q] = marker[q]
      /\ run'[p].pc = "run" /\ run'[p].load = "op"
      /\ run'[p].who = run[p].who /\ OthersStay(p)
  BY <1>1, BeginEffect, OpenMarkerEffect DEF BeginOp, ReadyToSend, At, Pcs
<1>3. HeardFromHub(p)' /\ BranchFits(p)'
  BY <1>1, <1>2 DEF PlaceOK, HeardFromHub, BranchFits, Settled, Sending
<1> QED BY <1>2, <1>3, MovingStep DEF Awaits, Sending, ReadsHere

LEMMA OpFailsOK ==
    ASSUME IInv, NEW p \in Place, OpFails(p)
    PROVE  StepOK(p)
<1> USE DEF hubVars, dropVars
<1>1. TypeOK /\ PlaceOK(p)
  BY DEF IInv
<1>2. /\ UNCHANGED <<hub, net, seen, answer, head, remote, marker>>
      /\ run[p].pc = "run"
      /\ run'[p].pc = "undo" /\ run'[p].then \in UndoGoals
      /\ run'[p].who = run[p].who /\ OthersStay(p)
  BY <1>1, UndoEffect DEF OpFails, At, UndoGoals
<1>3. HeardFromHub(p)' /\ BranchFits(p)'
  BY <1>1, <1>2 DEF PlaceOK, HeardFromHub, BranchFits, Ahead, Settled, Sending
<1> QED BY <1>2, <1>3, MovingStep DEF Awaits, Sending, ReadsHere

\* The ledger of the folder is part of the hub's history: the hub has the request.
LEMMA NothingChangedOK ==
    ASSUME IInv, NEW p \in Place, NothingChanged(p)
    PROVE  StepOK(p)
<1> USE DEF hubVars, dropVars
<1>1. TypeOK /\ PlaceOK(p)
  BY DEF IInv
<1>2. /\ "SAVED" \in Answers /\ Ends(p, "SAVED")
      /\ UNCHANGED <<hub, net, seen, head, remote>> /\ run[p].pc = "run"
  BY DEF NothingChanged, At, Answers
<1>3. /\ marker'[p] \in {marker[p], NoMarker}
      /\ \A q \in Place : q # p => marker'[q] = marker[q]
  BY <1>1, EndOrLeaveEffect DEF NothingChanged
<1>4. IsPrefix(head[p], hub)
  BY <1>1, <1>2 DEF PlaceOK, BranchFits, Settled
<1>5. ASSUME NEW s \in Save, s = run[p].who  PROVE SaveOK(s)'
  <2>1. KindOf(s) # "commit" /\ SameRequest(head[p], s) # {}
    BY <1>5 DEF NothingChanged, InLedger
  <2>2. SameRequest(hub, s) # {}
    BY <1>1, <1>4, <2>1, PlaceTypes, ReadsOfPrefix
  <2>3. answer'[s] = "SAVED"
    BY <1>1, <1>2, <1>5, EndsEffect
  <2> QED BY <1>2, <2>1, <2>2, <2>3 DEF SaveOK, LostOrOpen, OnHub, Definitive
<1> QED BY <1>2, <1>3, <1>4, <1>5, EndingStep

LEMMA OpWritesOK ==
    ASSUME IInv, NEW p \in Place, OpWrites(p)
    PROVE  StepOK(p)
<1> USE DEF hubVars, dropVars
<1>1. TypeOK /\ PlaceOK(p)
  BY DEF IInv
<1>2. /\ UNCHANGED <<hub, net, seen, answer, head, remote, marker>>
      /\ run[p].pc = "run" /\ IsSave(p) /\ run[p].load = "op"
  BY <1>1 DEF OpWrites, At, PlaceOK, HolderKnown
<1>3. /\ run'[p].pc \in {"undo", "commit"}
      /\ run'[p].pc = "undo" => run'[p].then \in UndoGoals
      /\ run'[p].who = run[p].who /\ run'[p].load = run[p].load /\ OthersStay(p)
  BY <1>1, GoEffect, UndoEffect DEF OpWrites, Pcs, UndoGoals
<1>4. HeardFromHub(p)' /\ BranchFits(p)'
  BY <1>1, <1>2, <1>3 DEF PlaceOK, HeardFromHub, BranchFits, Ahead, Settled, Sending
<1>5. KindOf(run[p].who) = "commit" => seen[run[p].who] = Version(head[p], Note(run[p].who))
  BY DEF OpWrites, Conflict
<1>6. ReadsHere(p)'
  BY <1>2, <1>3, <1>5 DEF ReadsHere, Sending
<1> QED BY <1>2, <1>3, <1>4, <1>6, MovingStep DEF Awaits, Sending

\* The commit goes on top of the version it was made from.
LEMMA MakesCommitOK ==
    ASSUME IInv, NEW p \in Place, MakesCommit(p)
    PROVE  StepOK(p)
<1> USE DEF hubVars, dropVars
<1>1. TypeOK /\ PlaceOK(p) /\ head[p] \in Seq(Commit)
  BY PlaceTypes DEF IInv
<1>2. /\ UNCHANGED <<hub, net, seen, answer, remote, marker>>
      /\ run[p].pc = "commit" /\ run[p].load \in {"inbox", "op"}
      /\ run[p].load = "op" => IsSave(p)
      /\ run'[p].pc = "push" /\ run'[p].who = run[p].who /\ run'[p].load = run[p].load
      /\ OthersStay(p)
  BY <1>1, GoEffect DEF MakesCommit, At, Pcs, PlaceOK, HolderKnown
<1>3. PICK c \in Commit :
        /\ head' = [head EXCEPT ![p] = Append(@, c)]
        /\ c.save = IF run[p].load = "op" THEN run[p].who ELSE Daemon
        /\ run[p].load = "op" => c.saw = Basis(head[p], run[p].who)
  <2>1. CASE run[p].load = "op"
    <3>1. OpCommit(p) \in Commit
      BY <1>1, <1>2, <2>1, OpCommitType
    <3>2. OpCommit(p).save = run[p].who
      BY DEF OpCommit
    <3>3. OpCommit(p).saw = Basis(head[p], run[p].who)
      BY <1>1, <1>2, <2>1 DEF OpCommit, Basis, PlaceOK, ReadsHere
    <3> QED BY <2>1, <3>1, <3>2, <3>3 DEF MakesCommit
  <2>2. CASE run[p].load # "op"
    <3>1. PICK n \in Stamp : head' = [head EXCEPT ![p] = Append(@, InboxCommit(p, n))]
      BY <2>2 DEF MakesCommit, Fresh
    <3>2. InboxCommit(p, n) \in Commit
      BY <1>1, InboxCommitType
    <3>3. InboxCommit(p, n).save = Daemon
      BY DEF InboxCommit
    <3> QED BY <2>2, <3>1, <3>2, <3>3
  <2> QED BY <2>1, <2>2
<1>4. /\ head'[p] = Append(head[p], c) /\ \A q \in Place : q # p => head'[q] = head[q]
  BY <1>1, <1>3 DEF TypeOK
<1>5. head'[p] # <<>> /\ Front(head'[p]) = head[p] /\ Last(head'[p]) = c
  BY <1>1, <1>4, AppendIsLonger
<1>6. Ahead(p)'
  BY <1>1, <1>2, <1>5 DEF PlaceOK, BranchFits, Ahead
<1>7. HeardFromHub(p)' /\ BranchFits(p)'
  BY <1>1, <1>2, <1>6 DEF PlaceOK, HeardFromHub, BranchFits, Settled, Sending
<1>8. ReadsHere(p)'
  BY <1>2, <1>3, <1>5 DEF ReadsHere
<1> QED BY <1>2, <1>3, <1>4, <1>5, <1>7, <1>8, MovingStep DEF Awaits, Sending

(***************************************************************************)
(* What a lock holder learns of its push                                   *)
(***************************************************************************)
LEMMA WaitingFacts ==
    ASSUME IInv, NEW p \in Place, run[p].pc \in Sending
    PROVE  /\ TypeOK /\ PlaceOK(p) /\ Ahead(p)
           /\ head[p] \in Seq(Commit) /\ hub \in Seq(Commit)
           /\ run[p].load \in {"inbox", "op"}
           /\ run[p].load = "op" => run[p].who \in Save /\ Last(head[p]).save = run[p].who
           /\ run[p].load = "inbox" => Last(head[p]).save = Daemon
BY PlaceTypes DEF IInv, PlaceOK, BranchFits, HolderKnown, IsSave

\* The hub has the commit: the save is on it.
LEMMA SendOKOK ==
    ASSUME IInv, NEW p \in Place, SendOK(p), run[p].pc \in {"wait", "ask"},
           IsPrefix(head[p], hub),
           UNCHANGED <<hub, net, seen, head>>, remote'[p] \in {remote[p], hub},
           \A q \in Place : q # p => remote'[q] = remote[q]
    PROVE  StepOK(p)
<1>1. run[p].pc \in Sending
  BY DEF Sending
<1>2. /\ TypeOK /\ PlaceOK(p) /\ Ahead(p)
      /\ head[p] \in Seq(Commit) /\ hub \in Seq(Commit)
      /\ run[p].load \in {"inbox", "op"}
      /\ run[p].load = "op" => run[p].who \in Save /\ Last(head[p]).save = run[p].who
  BY <1>1, WaitingFacts
<1>3. /\ marker'[p] \in {marker[p], NoMarker}
      /\ \A q \in Place : q # p => marker'[q] = marker[q]
  BY <1>2, EndOrLeaveEffect DEF SendOK
<1>4. CASE run[p].load = "op"
  <2>1. Ends(p, "SAVED") /\ "SAVED" \in Answers
    BY <1>4 DEF SendOK, Answers
  <2>2. ASSUME NEW s \in Save, s = run[p].who  PROVE SaveOK(s)'
    <3>1. Own(head[p], s) # {} /\ SameRequest(head[p], s) # {}
      BY <1>2, <1>4, <2>2, LastIsIn DEF Ahead
    <3>2. OnHub(s)
      BY <1>2, <3>1, ReadsOfPrefix DEF OnHub
    <3>3. answer'[s] = "SAVED"
      BY <1>2, <2>1, <2>2, EndsEffect
    <3> QED BY <3>2, <3>3 DEF SaveOK, LostOrOpen, OnHub, Definitive
  <2> QED BY <1>3, <2>1, <2>2, EndingStep
<1>5. CASE run[p].load = "inbox" /\ IsSave(p)
  <2>1. Go(p, "op") /\ answer' = answer
    BY <1>5 DEF SendOK
  <2>2. run'[p].pc = "op" /\ run'[p].who = run[p].who /\ OthersStay(p)
    BY <1>2, <2>1, GoEffect DEF Pcs
  <2>3. HeardFromHub(p)' /\ BranchFits(p)'
    BY <1>2, <1>3, <2>2, PlaceTypes DEF PlaceOK, HeardFromHub, BranchFits, Settled, Sending
  <2> QED BY <1>3, <1>5, <2>1, <2>2, <2>3, MovingStep DEF Awaits, Sending, ReadsHere
<1>6. CASE run[p].load = "inbox" /\ ~IsSave(p)
  <2>1. Ends(p, "none") /\ "none" \in Answers /\ \A s \in Save : s # run[p].who
    BY <1>6 DEF SendOK, Answers, IsSave
  <2> QED BY <1>3, <2>1, EndingStep
<1> QED BY <1>2, <1>4, <1>5, <1>6

\* A try that cannot be taken any more is undone.
LEMMA UndoneTryOK ==
    ASSUME IInv, NEW p \in Place, run[p].pc \in Sending, NEW t \in UndoGoals, UndoThen(p, t),
           UNCHANGED <<hub, net, seen, answer, head, marker>>, remote'[p] \in {remote[p], hub},
           \A q \in Place : q # p => remote'[q] = remote[q],
           ~Awaits(p) \/ Lost(run[p].who)
    PROVE  StepOK(p)
<1>1. TypeOK /\ PlaceOK(p) /\ Ahead(p) /\ IsPrefix(hub, hub)
  BY WaitingFacts, PlaceTypes
<1>2. /\ run'[p].pc = "undo" /\ run'[p].then \in UndoGoals
      /\ run'[p].who = run[p].who /\ OthersStay(p)
  BY <1>1, UndoEffect
<1>3. HeardFromHub(p)' /\ BranchFits(p)'
  BY <1>1, <1>2 DEF PlaceOK, HeardFromHub, BranchFits, Ahead, Settled, Sending
<1> QED BY <1>2, <1>3, MovingStep DEF Awaits, Sending, ReadsHere

LEMMA HearsOK ==
    ASSUME IInv, NEW p \in Place, Hears(p)
    PROVE  StepOK(p)
<1> USE DEF hubVars, dropVars
<1>1. run[p].pc = "wait" /\ run[p].pc \in Sending /\ UNCHANGED <<hub, net, seen, head, remote>>
  BY DEF Hears, At, Sending
<1>2. PlaceOK(p)
  BY DEF IInv
<1>3. CASE run[p].reply = "ok" /\ SendOK(p)
  <2>1. IsPrefix(head[p], hub)
    BY <1>1, <1>2, <1>3 DEF PlaceOK, BranchFits
  <2> QED BY <1>1, <1>3, <2>1, SendOKOK
<1>4. CASE run[p].reply \in {"race", "refused"}
  <2>1. ~Awaits(p) \/ Lost(run[p].who)
    BY <1>2, <1>4 DEF PlaceOK, OpenTry, Lost
  <2>2. PICK t \in UndoGoals : UndoThen(p, t) /\ UNCHANGED <<marker, answer>>
    BY <1>4 DEF Hears, UndoGoals
  <2> QED BY <1>1, <2>1, <2>2, UndoneTryOK
<1> QED BY <1>3, <1>4 DEF Hears

LEMMA GivesUpOK ==
    ASSUME IInv, NEW p \in Place, GivesUp(p)
    PROVE  StepOK(p)
<1> USE DEF hubVars, dropVars
<1>1. TypeOK /\ PlaceOK(p)
  BY DEF IInv
<1>2. /\ UNCHANGED <<hub, net, seen, answer, head, remote, marker>> /\ run[p].pc = "wait"
      /\ run'[p].pc = "ask" /\ run'[p].reply = "none" /\ run'[p].who = run[p].who
      /\ run'[p].load = run[p].load /\ OthersStay(p)
  BY <1>1, GoEffect DEF GivesUp, At, Pcs
<1>3. LocalStep(p)
  BY <1>2 DEF LocalStep, OthersStay
<1>4. HeardFromHub(p)' /\ BranchFits(p)'
  BY <1>1, <1>2 DEF PlaceOK, HeardFromHub, BranchFits, Ahead, Settled, Sending
<1>5. HolderKnown(p)' /\ ReadsHere(p)'
  BY <1>1, <1>2 DEF PlaceOK, HolderKnown, IsSave, ReadsHere, Sending
<1>6. OpenTry(p)'
  BY <1>1, <1>2 DEF PlaceOK, OpenTry, Awaits
<1>7. ASSUME NEW s \in Save, s = run[p].who  PROVE SaveOK(s)'
  <2>1. SaveOK(s) /\ p = HomeOf[s]
    BY <1>1, <1>7 DEF IInv, PlaceOK, HolderKnown, IsSave
  <2> QED BY <1>2, <1>7, <2>1 DEF SaveOK, LostOrOpen, Lost, OnHub, Awaits
<1> QED BY <1>3, <1>4, <1>5, <1>6, <1>7 DEF StepOK, PlaceOK

\* The hub moved without the commit: the only open try asked for the version
\* before that, so nothing of the save can get there any more.
LEMMA AsksHubOK ==
    ASSUME IInv, NEW p \in Place, AsksHub(p)
    PROVE  StepOK(p)
<1> USE DEF hubVars, dropVars
<1>1. /\ run[p].pc = "ask" /\ run[p].pc \in Sending
      /\ UNCHANGED <<hub, net, seen, head>>
  BY DEF AsksHub, At, Sending
<1>2. /\ TypeOK /\ PlaceOK(p) /\ Ahead(p)
      /\ head[p] \in Seq(Commit) /\ hub \in Seq(Commit)
      /\ run[p].load = "op" => run[p].who \in Save /\ Last(head[p]).save = run[p].who
  BY <1>1, WaitingFacts
<1>3. remote'[p] = hub /\ \A q \in Place : q # p => remote'[q] = remote[q]
  BY <1>2 DEF AsksHub, Fetch, TypeOK
<1>4. CASE IsPrefix(head[p], hub) /\ SendOK(p)
  BY <1>1, <1>3, <1>4, SendOKOK
<1>5. CASE /\ ~IsPrefix(head[p], hub) /\ hub # marker[p].base
           /\ UndoThen(p, "retry") /\ UNCHANGED <<marker, answer, faults>>
  <2>1. ASSUME Awaits(p)  PROVE Lost(run[p].who)
    <3>1. run[p].who \in Save /\ run[p].who # Daemon /\ Last(head[p]).save = run[p].who
      BY <1>2, <2>1, HistoryAssumption DEF Awaits, HistoryAssumption
    <3>2. /\ Own(hub, run[p].who) = {}
          /\ \A r \in net : r.old = hub /\ r.new # head[p] => Own(r.new, run[p].who) = {}
      BY <1>2, <1>5, <2>1 DEF PlaceOK, OpenTry
    <3>3. \A r \in net : r.new = head[p] => r.old = Front(head[p])
      BY <3>1 DEF IInv, RequestOK
    <3>4. \A r \in net : r.old = hub => r.new # head[p]
      BY <1>2, <1>5, <3>3 DEF Ahead
    <3> QED BY <3>2, <3>4 DEF Lost
  <2> QED BY <1>1, <1>3, <1>5, <2>1, UndoneTryOK DEF UndoGoals
<1>6. CASE Ends(p, "no-connection") /\ UNCHANGED <<marker, faults>>
  <2>1. "no-connection" \in Answers
    BY DEF Answers
  <2>2. \A s \in Save : s = run[p].who => SaveOK(s)'
    BY <1>6, SaveIsLeft
  <2>3. marker[p] = NoMarker => IsPrefix(head[p], hub)
    BY <1>2 DEF Ahead
  <2> QED BY <1>1, <1>3, <1>6, <2>1, <2>2, <2>3, EndingStep
<1> QED BY <1>4, <1>5, <1>6 DEF AsksHub

(***************************************************************************)
(* A push                                                                  *)
(***************************************************************************)
LEMMA RefusedAtOnceOK ==
    ASSUME IInv, NEW p \in Place, Pushes(p), ~IsPrefix(hub, head[p])
    PROVE  StepOK(p)
<1> USE DEF hubVars, dropVars
<1>1. /\ run[p].pc \in Sending /\ ~Awaits(p) /\ UndoThen(p, "retry")
      /\ UNCHANGED <<hub, net, seen, answer, head, remote, marker>>
  BY DEF Pushes, At, Sending, Awaits
<1> QED BY <1>1, UndoneTryOK DEF UndoGoals

\* The new request concerns the sender's own save only.
LEMMA RequestOfOther ==
    ASSUME IInv, NEW p \in Place, run[p].pc \in Sending, NEW s,
           s # Last(head[p]).save, Own(hub, s) = {}
    PROVE  Own(head[p], s) = {}
<1>1. Ahead(p) /\ PlaceOK(p) /\ head[p] \in Seq(Commit) /\ hub \in Seq(Commit)
  BY WaitingFacts
<1>2. /\ Front(head[p]) \in Seq(Commit) /\ Last(head[p]) \in Commit
      /\ head[p] = Append(Front(head[p]), Last(head[p]))
  BY <1>1, FrontAndLast DEF Ahead
<1>3. IsPrefix(Front(head[p]), hub)
  BY <1>1 DEF Ahead, PlaceOK, HeardFromHub
<1>4. Own(Front(head[p]), s) = {}
  BY <1>1, <1>2, <1>3, ReadsOfPrefix
<1> QED BY <1>2, <1>4, OwnOfAppend

LEMMA PushedOK ==
    ASSUME IInv, TypeOK', NEW p \in Place, Pushes(p), IsPrefix(hub, head[p])
    PROVE  IInv'
<1> USE DEF hubVars, dropVars
<1> DEFINE new == [old |-> hub, new |-> head[p]]
<1>1. /\ run[p].pc = "push" /\ run[p].pc \in Sending
      /\ UNCHANGED <<hub, seen, answer, head, remote, marker>>
      /\ net' = net \cup {new} /\ Go(p, "wait")
  BY DEF Pushes, At, Sending, Go
<1>2. /\ TypeOK /\ PlaceOK(p) /\ Ahead(p)
      /\ head[p] \in Seq(Commit) /\ hub \in Seq(Commit)
      /\ run[p].load \in {"inbox", "op"}
      /\ run[p].load = "op" => run[p].who \in Save /\ Last(head[p]).save = run[p].who
      /\ run[p].load = "inbox" => Last(head[p]).save = Daemon
  BY <1>1, WaitingFacts
<1>3. /\ run'[p].pc = "wait" /\ run'[p].reply = "none" /\ run'[p].who = run[p].who
      /\ run'[p].load = run[p].load /\ OthersStay(p)
  BY <1>1, <1>2, GoEffect DEF Pcs
<1>4. Daemon \notin Save
  BY HistoryAssumption DEF HistoryAssumption
<1>5. run[p].load = "op" => Lost(run[p].who) /\ run[p].who \in Save
  BY <1>1, <1>2, NotAwaiting DEF Awaits, IsSave
<1>6. \A r \in net' : r \in net \/ (r.old = hub /\ r.new = head[p])
  BY <1>1
<1> HIDE DEF new
<1>7. run[p].load = "op" => ~IsPrefix(head[p], hub)
  <2>1. ASSUME run[p].load = "op"  PROVE Own(head[p], run[p].who) # {}
    BY <1>2, <2>1, LastIsIn DEF Ahead
  <2> QED BY <1>2, <1>5, <2>1, ReadsOfPrefix DEF Lost
<1>8. ASSUME NEW r \in net', r.old = hub, r.new = head[p]  PROVE RequestOK(r)'
  <2>1. IsPrefix(hub, hub) /\ IsPrefix(Front(head[p]), hub) /\ head[p] # <<>>
    BY <1>2, PlaceTypes DEF PlaceOK, HeardFromHub, Ahead
  <2>2. hub = Front(head[p]) \/ hub = head[p]
    BY <1>2, <2>1, NothingBetween
  <2>3. hub = Front(head[p]) \/ (hub = head[p] /\ Last(head[p]).save = Daemon)
    BY <1>2, <1>7, <2>1, <2>2
  <2>4. IsOp(Last(head[p])) => Last(head[p]).saw = Basis(Front(head[p]), Last(head[p]).save)
    BY <1>1, <1>2, <1>4 DEF PlaceOK, ReadsHere, IsOp
  <2> QED BY <1>1, <1>8, <2>1, <2>3, <2>4 DEF RequestOK
<1>9. \A r \in net' : RequestOK(r)'
  <2> TAKE r \in net'
  <2>1. CASE r \in net
    BY <1>1, <2>1 DEF IInv, RequestOK
  <2> QED BY <1>6, <1>8, <2>1
<1>10. PlaceOK(p)'
  <2>1. HeardFromHub(p)' /\ BranchFits(p)'
    BY <1>1, <1>2, <1>3 DEF PlaceOK, HeardFromHub, BranchFits, Ahead, Settled, Sending
  <2>2. HolderKnown(p)' /\ ReadsHere(p)'
    BY <1>1, <1>2, <1>3 DEF PlaceOK, HolderKnown, IsSave, ReadsHere, Sending
  <2>3. OpenTry(p)'
    BY <1>1, <1>3, <1>5, <1>6, <1>7 DEF OpenTry, Awaits, Lost
  <2> QED BY <2>1, <2>2, <2>3 DEF PlaceOK
<1>11. ASSUME NEW q \in Place, q # p  PROVE PlaceOK(q)'
  <2>1. PlaceOK(q) /\ run'[q] = run[q]
    BY <1>3, <1>11 DEF IInv, OthersStay
  <2>2. /\ HeardFromHub(q)' /\ BranchFits(q)' /\ HolderKnown(q)' /\ ReadsHere(q)'
    BY <1>1, <2>1 DEF PlaceOK, HeardFromHub, BranchFits, Ahead, HolderKnown, IsSave, ReadsHere
  <2>3. ASSUME Awaits(q)
        PROVE  /\ Last(head[p]).save # run[q].who /\ head[q] # head[p]
               /\ Own(hub, run[q].who) = {} => Own(head[p], run[q].who) = {}
    <3>1. run[q].who \in Save /\ Last(head[q]).save = run[q].who
      BY <2>3, WaitingFacts DEF Awaits, Sending
    <3>2. run[q].who # run[p].who
      BY <1>11, <3>1, OtherHolder DEF IsSave
    <3>3. Last(head[p]).save # run[q].who
      BY <1>2, <1>4, <3>1, <3>2
    <3> QED BY <1>1, <3>1, <3>3, RequestOfOther
  <2>4. OpenTry(q)'
    BY <1>1, <1>6, <2>1, <2>3 DEF PlaceOK, OpenTry, Awaits
  <2> QED BY <2>2, <2>4 DEF PlaceOK
<1>12. ASSUME NEW s \in Save  PROVE SaveOK(s)'
  <2>1. SaveOK(s) /\ HomeOf[s] \in Place
    BY VaultAssumption DEF IInv, VaultAssumption
  <2>2. (answer'[s] = "SAVED" => OnHub(s)')
    BY <1>1, <2>1 DEF SaveOK, OnHub
  <2>3. CASE s = Last(head[p]).save
    <3>1. run[p].who = s /\ run[p].load = "op" /\ p = HomeOf[s]
      BY <1>2, <1>4, <2>3 DEF PlaceOK, HolderKnown, IsSave
    <3> QED BY <1>3, <2>2, <3>1 DEF SaveOK, LostOrOpen, Awaits
  <2>4. CASE s # Last(head[p]).save
    <3>1. Lost(s) => Lost(s)'
      BY <1>1, <1>6, <2>4, RequestOfOther DEF Lost
    <3>2. ~(run'[HomeOf[s]].who = s /\ Awaits(HomeOf[s])')
            => ~(run[HomeOf[s]].who = s /\ Awaits(HomeOf[s]))
      BY <1>1, <1>3, <2>1 DEF OthersStay, Awaits
    <3> QED BY <1>1, <2>1, <2>2, <3>1, <3>2 DEF SaveOK, LostOrOpen
  <2> QED BY <2>3, <2>4
<1> QED BY <1>1, <1>9, <1>10, <1>11, <1>12 DEF IInv

(***************************************************************************)
(* People and agents                                                       *)
(***************************************************************************)
\* A command that is asked for, or gives up waiting for the lock.
LEMMA AskedOK ==
    ASSUME IInv, TypeOK', NEW s \in Save, ReadAndAsk(s) \/ LockTimesOut(s)
    PROVE  IInv'
<1> USE DEF hubVars, dropVars
<1>1. /\ UNCHANGED <<hub, net, head, remote, marker, run>>
      /\ answer[s] \in {"none", "asked"} /\ answer'[s] \in {"asked", "busy"}
      /\ \A t \in Save : t # s => answer'[t] = answer[t] /\ seen'[t] = seen[t]
  BY DEF IInv, TypeOK, ReadAndAsk, LockTimesOut
<1>2. \A q \in Place : IsSave(q) => run[q].who # s
  BY DEF IInv, PlaceOK, HolderKnown, ReadAndAsk, LockTimesOut
<1>3. ASSUME NEW q \in Place  PROVE PlaceOK(q)'
  <2>1. PlaceOK(q) /\ TypeOK
    BY DEF IInv
  <2>2. /\ IsSave(q) => /\ answer'[run[q].who] = answer[run[q].who]
                        /\ seen'[run[q].who] = seen[run[q].who]
    BY <1>1, <1>2 DEF IsSave
  <2>3. HeardFromHub(q)' /\ BranchFits(q)' /\ HolderKnown(q)' /\ OpenTry(q)'
    BY <1>1, <2>1, <2>2
    DEF PlaceOK, HeardFromHub, BranchFits, Ahead, HolderKnown, IsSave, OpenTry, Awaits
  <2>4. run[q].pc = "commit" /\ run[q].load = "op" => IsSave(q)
    BY <2>1 DEF PlaceOK, HolderKnown
  <2>5. ReadsHere(q)'
    BY <1>1, <2>1, <2>2, <2>4 DEF PlaceOK, ReadsHere
  <2> QED BY <2>3, <2>5 DEF PlaceOK
<1>4. ASSUME NEW t \in Save  PROVE SaveOK(t)'
  <2>1. SaveOK(t)
    BY DEF IInv
  <2> QED BY <1>1, <2>1 DEF SaveOK, LostOrOpen, Lost, OnHub, Awaits, Definitive
<1> QED BY <1>1, <1>3, <1>4 DEF IInv, RequestOK

LEMMA LockTakenOK ==
    ASSUME IInv, TypeOK', NEW p \in Place, run[p].pc = "idle", NEW w \in Save \cup {Daemon},
           w \in Save => p = HomeOf[w] /\ answer[w] = "asked",
           run' = [run EXCEPT ![p] = Started(w)],
           UNCHANGED <<hub, net, head, remote, marker, seen, answer>>
    PROVE  IInv'
<1>1. TypeOK /\ PlaceOK(p)
  BY DEF IInv
<1>2. run'[p].who = w /\ run'[p].pc = "recover" /\ OthersStay(p)
  BY <1>1, StartedEffect
<1>3. PlaceOK(p)'
  BY <1>1, <1>2
  DEF PlaceOK, HeardFromHub, BranchFits, Ahead, HolderKnown, IsSave, OpenTry, Awaits, ReadsHere,
      Settled, Sending
<1>4. ASSUME NEW q \in Place, q # p  PROVE PlaceOK(q)'
  <2>1. PlaceOK(q) /\ run'[q] = run[q]
    BY <1>2, <1>4 DEF IInv, OthersStay
  <2> QED BY <2>1 DEF PlaceOK, HeardFromHub, BranchFits, Ahead, HolderKnown, IsSave, OpenTry,
                       Awaits, ReadsHere
<1>5. ASSUME NEW s \in Save  PROVE SaveOK(s)'
  <2>1. SaveOK(s) /\ HomeOf[s] \in Place
    BY VaultAssumption DEF IInv, VaultAssumption
  <2>2. ~Awaits(p) /\ \A q \in Place : q # p => run'[q] = run[q]
    BY <1>2 DEF Awaits, OthersStay
  <2>3. ~(run[HomeOf[s]].who = s /\ Awaits(HomeOf[s]))
          \/ (run'[HomeOf[s]].who = s /\ Awaits(HomeOf[s])')
    BY <2>1, <2>2 DEF Awaits
  <2> QED BY <2>1, <2>3 DEF SaveOK, LostOrOpen, Lost, OnHub
<1> QED BY <1>3, <1>4, <1>5 DEF IInv, RequestOK

(***************************************************************************)
(* The hub                                                                 *)
(***************************************************************************)
LEMMA RequestFacts ==
    ASSUME IInv, NEW r \in net
    PROVE  /\ TypeOK /\ RequestOK(r)
           /\ r.old \in Seq(Commit) /\ r.new \in Seq(Commit)
           /\ r = [old |-> r.old, new |-> r.new]
           /\ IsPrefix(r.old, r.new)
<1>1. TypeOK /\ RequestOK(r)
  BY DEF IInv
<1>2. /\ r.old \in Seq(Commit) /\ r.new \in Seq(Commit)
      /\ r = [old |-> r.old, new |-> r.new]
  BY <1>1 DEF TypeOK
<1>3. IsPrefix(r.new, r.new) /\ IsPrefix(Front(r.new), r.new)
  BY <1>1, <1>2, PrefixReflexive, FrontAndLast DEF RequestOK
<1> QED BY <1>1, <1>2, <1>3 DEF RequestOK

\* The push of a save's commit is under way once only.
LEMMA OneRequest ==
    ASSUME IInv, NEW r \in net, IsOp(Last(r.new)), NEW q \in net, q.new = r.new
    PROVE  q = r
<1>1. /\ RequestOK(r) /\ r = [old |-> r.old, new |-> r.new]
      /\ RequestOK(q) /\ q = [old |-> q.old, new |-> q.new]
  BY RequestFacts
<1>2. Last(r.new).save # Daemon
  BY HistoryAssumption DEF HistoryAssumption, IsOp
<1>3. r.old = Front(r.new) /\ q.old = Front(r.new)
  BY <1>1, <1>2 DEF RequestOK
<1> QED BY <1>1, <1>3

\* A request the hub takes leaves no other that asks for the new version.
LEMMA OthersAreLate ==
    ASSUME IInv, NEW r \in net, r.old = hub, NEW q \in net, q.old = r.new
    PROVE  r.new = hub
<1>1. RequestOK(q) /\ IsPrefix(hub, r.new) /\ hub \in Seq(Commit) /\ r.new \in Seq(Commit)
  BY RequestFacts DEF TypeOK
<1> QED BY <1>1, PrefixAntisymmetric DEF RequestOK

LEMMA HubTakesOK ==
    ASSUME IInv, TypeOK', NEW r \in net, HubTakes(r)
    PROVE  IInv'
<1> USE DEF hubVars, dropVars
<1>1. /\ hub = r.old /\ hub' = r.new /\ net' = net \ {r} /\ Replies(r, "ok")
      /\ UNCHANGED <<head, remote, marker, seen, answer>>
  BY DEF HubTakes
<1>2. /\ TypeOK /\ RequestOK(r) /\ hub \in Seq(Commit) /\ hub' \in Seq(Commit)
      /\ IsPrefix(hub, hub') /\ IsPrefix(hub', hub')
  BY <1>1, RequestFacts, PrefixReflexive DEF TypeOK
<1>3. \A p \in Place :
        /\ run'[p].pc = run[p].pc /\ run'[p].who = run[p].who
        /\ run'[p].load = run[p].load /\ run'[p].then = run[p].then
        /\ run'[p].reply = IF run[p].pc = "wait" /\ head[p] = hub' THEN "ok" ELSE run[p].reply
  BY <1>1, <1>2, RepliesEffect
<1>4. \A q \in net' : q \in net /\ q # r /\ (q.old = hub' => hub' = hub)
  BY <1>1, OthersAreLate
<1>5. \A h \in Seq(Commit) : IsPrefix(h, hub) => IsPrefix(h, hub')
  BY <1>2, PrefixTransitive
<1>6. ASSUME NEW s, Own(hub, s) = {}, \A q \in net : q.old = hub => Own(q.new, s) = {}
      PROVE  Own(hub', s) = {} /\ \A q \in net' : q.old = hub' => Own(q.new, s) = {}
  BY <1>1, <1>4, <1>6
<1>7. ASSUME NEW p \in Place  PROVE PlaceOK(p)'
  <2>1. /\ PlaceOK(p) /\ head[p] \in Seq(Commit) /\ remote[p] \in Seq(Commit)
        /\ marker[p].base \in Seq(Commit)
    BY PlaceTypes DEF IInv
  <2>2. HeardFromHub(p)'
    BY <1>1, <1>5, <2>1 DEF PlaceOK, HeardFromHub
  <2>3. BranchFits(p)'
    BY <1>1, <1>2, <1>3, <1>5, <2>1 DEF PlaceOK, BranchFits, Ahead
  <2>4. HolderKnown(p)' /\ ReadsHere(p)'
    BY <1>1, <1>3, <2>1 DEF PlaceOK, HolderKnown, IsSave, ReadsHere
  <2>5. ASSUME Awaits(p)'  PROVE OpenTry(p)'
    <3>1. Awaits(p) /\ OpenTry(p)
      BY <1>3, <2>1, <2>5 DEF Awaits, PlaceOK
    <3>2. run[p].who \in Save /\ Last(head[p]).save = run[p].who /\ Ahead(p)
      BY <3>1, WaitingFacts DEF Awaits, Sending
    <3>3. Own(head[p], run[p].who) # {}
      BY <2>1, <3>2, LastIsIn DEF Ahead
    <3>4. CASE IsPrefix(head[p], hub)
      <4>1. /\ IsPrefix(head[p], hub') /\ head[p] # hub' /\ run'[p].reply = run[p].reply
        BY <1>1, <1>3, <1>5, <2>1, <3>1, <3>4 DEF OpenTry
      <4> QED BY <1>1, <1>4, <3>1, <3>4, <4>1 DEF OpenTry
    <3>5. CASE head[p] = hub' /\ ~IsPrefix(head[p], hub)
      <4>1. \A q \in net' : q.new # head[p]
        BY <1>1, <1>4, <3>2, <3>5, OneRequest DEF IsOp
      <4>2. run[p].reply = "none"
        BY <1>1, <3>1, <3>5 DEF OpenTry
      <4> QED BY <1>1, <1>2, <1>3, <3>5, <4>1, <4>2 DEF OpenTry
    <3>6. CASE head[p] # hub' /\ ~IsPrefix(head[p], hub)
      <4>1. Own(hub', run[p].who) = {}
        BY <1>1, <3>1, <3>6 DEF OpenTry
      <4>2. ~IsPrefix(head[p], hub')
        BY <1>2, <2>1, <3>3, <4>1, ReadsOfPrefix
      <4>3. \A q \in net' : q.old = hub' /\ q.new # head[p] => Own(q.new, run[p].who) = {}
        BY <1>4, <3>1, <3>6 DEF OpenTry
      <4> QED BY <1>1, <1>3, <1>4, <3>1, <3>6, <4>1, <4>2, <4>3 DEF OpenTry
    <3> QED BY <3>4, <3>5, <3>6
  <2>6. OpenTry(p)'
    BY <2>5 DEF OpenTry
  <2> QED BY <2>2, <2>3, <2>4, <2>6 DEF PlaceOK
<1>8. ASSUME NEW s \in Save  PROVE SaveOK(s)'
  <2>1. SaveOK(s) /\ HomeOf[s] \in Place
    BY VaultAssumption DEF IInv, VaultAssumption
  <2>2. Lost(s) => Lost(s)'
    BY <1>6 DEF Lost
  <2>3. OnHub(s) => OnHub(s)'
    BY <1>2, ReadsOfPrefix DEF OnHub
  <2> QED BY <1>1, <1>3, <2>1, <2>2, <2>3 DEF SaveOK, LostOrOpen, Awaits
<1>9. ASSUME NEW q \in net'  PROVE RequestOK(q)'
  <2>1. q.old \in Seq(Commit) /\ RequestOK(q)
    BY <1>4, <1>9, RequestFacts
  <2> QED BY <1>5, <2>1 DEF RequestOK
<1>10. TrueReads(hub')
  <2>1. TrueReads(hub)
    BY DEF IInv
  <2>2. CASE hub = Front(hub')
    <3>1. Last(hub') \in Commit /\ hub' = Append(Front(hub'), Last(hub'))
      BY <1>1, <1>2, FrontAndLast DEF RequestOK
    <3>2. IsOp(Last(hub')) => Last(hub').saw = Basis(hub, Last(hub').save)
      BY <1>1, <1>2, <2>2 DEF RequestOK
    <3>3. TrueReads(Append(hub, Last(hub')))
      BY <1>2, <2>1, <3>1, <3>2, TrueReadsOfAppend
    <3> QED BY <2>2, <3>1, <3>3
  <2> QED BY <1>1, <1>2, <2>1, <2>2 DEF RequestOK
<1>11. TrueReads(hub)'
  BY <1>10 DEF TrueReads
<1> QED BY <1>7, <1>8, <1>9, <1>11 DEF IInv

\* A request that is refused or lost leaves less that can be taken.
LEMMA RequestGoneOK ==
    ASSUME IInv, TypeOK', NEW r \in net, HubLosesRace(r) \/ HubRefuses(r) \/ RequestLost(r)
    PROVE  IInv'
<1> USE DEF hubVars, dropVars
<1>1. hub' = hub /\ net' = net \ {r} /\ UNCHANGED <<head, remote, marker, seen, answer>>
  BY DEF HubLosesRace, HubRefuses, RequestLost
<1>2. TypeOK
  BY DEF IInv
<1>3. \A p \in Place :
        /\ run'[p].pc = run[p].pc /\ run'[p].who = run[p].who
        /\ run'[p].load = run[p].load /\ run'[p].then = run[p].then
        /\ \/ run'[p].reply = run[p].reply
           \/ head[p] = r.new /\ run'[p].reply \in {"race", "refused"}
  <2>1. CASE \E a \in {"race", "refused"} : Replies(r, a)
    BY <1>2, <2>1, RepliesEffect
  <2>2. CASE run' = run
    BY <2>2
  <2> QED BY <2>1, <2>2 DEF HubLosesRace, HubRefuses, RequestLost
<1>4. ASSUME NEW p \in Place  PROVE PlaceOK(p)'
  <2>1. PlaceOK(p)
    BY DEF IInv
  <2>2. /\ HeardFromHub(p)' /\ BranchFits(p)' /\ HolderKnown(p)' /\ ReadsHere(p)'
    BY <1>1, <1>3, <2>1
    DEF PlaceOK, HeardFromHub, BranchFits, Ahead, HolderKnown, IsSave, ReadsHere
  <2>3. ASSUME Awaits(p)'  PROVE OpenTry(p)'
    <3>1. Awaits(p) /\ OpenTry(p)
      BY <1>3, <2>1, <2>3 DEF Awaits, PlaceOK
    <3>2. CASE head[p] = r.new
      <4>1. IsOp(Last(r.new))
        BY <3>1, <3>2, WaitingFacts DEF Awaits, Sending, IsOp
      <4>2. \A q \in net' : q.new # head[p]
        BY <1>1, <3>2, <4>1, OneRequest
      <4>3. ~IsPrefix(head[p], hub)
        BY <3>1, <3>2 DEF OpenTry
      <4> QED BY <1>1, <1>3, <3>1, <4>2, <4>3 DEF OpenTry
    <3>3. CASE head[p] # r.new
      BY <1>1, <1>3, <3>1, <3>3 DEF OpenTry
    <3> QED BY <3>2, <3>3
  <2>4. OpenTry(p)'
    BY <2>3 DEF OpenTry
  <2> QED BY <2>2, <2>4 DEF PlaceOK
<1>5. ASSUME NEW s \in Save  PROVE SaveOK(s)'
  <2>1. SaveOK(s) /\ HomeOf[s] \in Place
    BY VaultAssumption DEF IInv, VaultAssumption
  <2> QED BY <1>1, <1>3, <2>1 DEF SaveOK, LostOrOpen, Lost, OnHub, Awaits
<1> QED BY <1>1, <1>4, <1>5 DEF IInv, RequestOK

(***************************************************************************)
(* The invariant holds                                                     *)
(***************************************************************************)
LEMMA HolderLocal ==
    ASSUME IInv, NEW p \in Place,
           HolderStep(p) \/ NoConnection(p) \/ GivesUp(p) \/ Stops(p),
           ~SetAsideBad(p), ~(Pushes(p) /\ IsPrefix(hub, head[p]))
    PROVE  StepOK(p)
<1>1. CASE RecoverNothing(p) \/ RecoverUncommitted(p) \/ RecoverCommitted(p)
  BY <1>1, RecoverNothingOK, RecoverUncommittedOK, RecoverCommittedOK
<1>2. CASE UndoFolder(p) \/ EndUndo(p)
  BY <1>2, UndoFolderOK, EndUndoOK
<1>3. CASE UpdateStarts(p) \/ FastForward(p) \/ UpdateEnds(p)
  BY <1>3, UpdateStartsOK, FastForwardOK, UpdateEndsOK
<1>4. CASE AlreadySaved(p) \/ BeginInbox(p) \/ BeginOp(p) \/ DaemonEnds(p)
  BY <1>4, AlreadySavedOK, BeginInboxOK, BeginOpOK, DaemonEndsOK
<1>5. CASE MarkerInTheWay(p) \/ NoConnection(p) \/ Stops(p)
  BY <1>5, PlainEndings
<1>6. CASE OpFails(p) \/ NothingChanged(p) \/ OpWrites(p) \/ MakesCommit(p)
  BY <1>6, OpFailsOK, NothingChangedOK, OpWritesOK, MakesCommitOK
<1>7. CASE Pushes(p)
  BY <1>7, RefusedAtOnceOK
<1>8. CASE Hears(p) \/ AsksHub(p) \/ GivesUp(p)
  BY <1>8, HearsOK, AsksHubOK, GivesUpOK
<1> QED BY <1>1, <1>2, <1>3, <1>4, <1>5, <1>6, <1>7, <1>8 DEF HolderStep

LEMMA HolderStepOK ==
    ASSUME IInv, TypeOK', NEW p \in Place,
           HolderStep(p) \/ NoConnection(p) \/ GivesUp(p) \/ Stops(p)
    PROVE  IInv'
<1>1. CASE SetAsideBad(p)
  BY <1>1, SetAsideBadOK
<1>2. CASE Pushes(p) /\ IsPrefix(hub, head[p])
  BY <1>2, PushedOK
<1>3. CASE ~SetAsideBad(p) /\ ~(Pushes(p) /\ IsPrefix(hub, head[p]))
  BY <1>3, HolderLocal, LocalStepKeeps
<1> QED BY <1>1, <1>2, <1>3

\* Every step, of whichever actor, keeps the invariant.
THEOREM IInvStep == IInv /\ [Next]_vars => IInv'
<1> SUFFICES ASSUME IInv, [Next]_vars  PROVE IInv'
  OBVIOUS
<1>1. TypeOK'
  BY TypeStep
<1>2. CASE NothingToDo \/ UNCHANGED vars \/ DayPasses \/ \E d \in Drop : DropArrives(d)
  BY <1>1, <1>2, NothingSeen DEF NothingToDo, vars, hubVars, dropVars, DayPasses, DropArrives
<1>3. ASSUME NEW s \in Save, ReadAndAsk(s) \/ LockTimesOut(s)  PROVE IInv'
  BY <1>1, <1>3, AskedOK
<1>4. ASSUME NEW s \in Save, TakesLock(s)  PROVE IInv'
  <2>1. HomeOf[s] \in Place
    BY VaultAssumption DEF VaultAssumption
  <2> QED BY <1>1, <1>4, <2>1, LockTakenOK DEF TakesLock, At, hubVars
<1>5. ASSUME NEW p \in Place, DaemonTakesLock(p)  PROVE IInv'
  <2>1. Daemon \notin Save
    BY HistoryAssumption DEF HistoryAssumption
  <2> QED BY <1>1, <1>5, <2>1, LockTakenOK DEF DaemonTakesLock, At, hubVars
<1>6. ASSUME NEW p \in Place, HolderStep(p) \/ NoConnection(p) \/ GivesUp(p) \/ Stops(p)
      PROVE  IInv'
  BY <1>1, <1>6, HolderStepOK
<1>7. ASSUME NEW r \in net, HubStep(r) \/ RequestLost(r)  PROVE IInv'
  BY <1>1, <1>7, HubTakesOK, RequestGoneOK DEF HubStep
<1> QED BY <1>2, <1>3, <1>4, <1>5, <1>6, <1>7 DEF Next

THEOREM Invariance == Spec => []IInv
<1>1. Init => IInv
  BY InitOK
<1> QED BY <1>1, IInvStep, PTL DEF Spec

(***************************************************************************)
(* What follows from it                                                    *)
(***************************************************************************)
\* Every variable keeps its type; in particular no save is tried more than
\* MaxRetries times (the loop of saveLoop).
THEOREM TypeCorrect == Spec => []TypeOK
<1>1. IInv => TypeOK
  BY DEF IInv
<1> QED BY <1>1, Invariance, PTL

\* `SAVED` on the last line of a save is true, whatever was lost, late or
\* killed on the way: the hub holds its commit, or one with the same key.
THEOREM SavedIsTrue == Spec => []SavedIsOnHub
<1>1. IInv => SavedIsOnHub
  BY DEF IInv, SaveOK, OnHub, SavedIsOnHub
<1> QED BY <1>1, Invariance, PTL

LEMMA RefusedLemma == IInv => RefusedNeverLands
<1> SUFFICES ASSUME IInv, NEW s \in Save, answer[s] \in Definitive  PROVE Own(hub, s) = {}
  BY DEF RefusedNeverLands
<1>1. SaveOK(s) /\ PlaceOK(HomeOf[s]) /\ answer[s] # "asked"
  BY VaultAssumption DEF IInv, VaultAssumption, Definitive
<1>2. ~(run[HomeOf[s]].who = s /\ Awaits(HomeOf[s]))
  BY <1>1 DEF PlaceOK, HolderKnown, IsSave
<1> QED BY <1>1, <1>2 DEF SaveOK, LostOrOpen, Lost

\* A definite refusal is final: no try of that save is on the hub, and none of
\* its pushes that are still under way can be taken later.
THEOREM RefusalIsFinal == Spec => []RefusedNeverLands
BY RefusedLemma, Invariance, PTL

\* The hub's history is serializable: each operation's commit was taken on the
\* very version whose note fingerprint, or idea number, the operation read.
THEOREM NothingIsLost == Spec => []NoLostUpdate
<1>1. IInv => NoLostUpdate
  BY DEF IInv, TrueReads, NoLostUpdate
<1> QED BY <1>1, Invariance, PTL

\* At every moment, also between any two steps of a save that is killed there,
\* a branch that left the hub's history is one commit ahead of its marker.
THEOREM UnsentIsAlwaysMarked == Spec => []UnsentIsMarked
<1>1. IInv => UnsentIsMarked
  BY DEF IInv, PlaceOK, HeardFromHub, BranchFits, Ahead, UnsentIsMarked
<1> QED BY <1>1, Invariance, PTL
=============================================================================
