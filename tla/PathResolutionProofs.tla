------------------------ MODULE PathResolutionProofs ------------------------
(***************************************************************************)
(* Facts about the resolution of paths on any tree of files: what          *)
(* Path::components and Path::canonicalize do with one component more, and *)
(* the three properties of PathResolution.                                 *)
(***************************************************************************)
EXTENDS PathResolution, SequenceTheorems, WellFoundedInduction, TLAPS

----------------------------------------------------------------------------
(* Induction, on sets of numbers.                                          *)

\* A nonempty set of numbers has a least one.
LEMMA LeastNumber ==
  ASSUME NEW T, T \subseteq Nat, T # {}
  PROVE  \E k \in T : \A j \in T : k <= j
<1>1. PICK k \in T : \A j \in T : <<j, k>> \notin OpToRel(<, Nat)
  BY NatLessThanWellFounded, WFMin
<1>2. \A j \in T : ~(j < k)
  BY <1>1 DEF OpToRel
<1>3. QED
  BY <1>2

\* From 0 to n, one by one.
LEMMA Counting ==
  ASSUME NEW n \in Nat, NEW T, 0 \in T, \A k \in 0 .. n - 1 : k \in T => k + 1 \in T
  PROVE  \A k \in 0 .. n : k \in T
<1> DEFINE Bad == {k \in 0 .. n : k \notin T}
<1> SUFFICES ASSUME Bad # {} PROVE FALSE
  OBVIOUS
<1>1. PICK k \in Bad : \A j \in Bad : k <= j
  <2>1. Bad \subseteq Nat
    OBVIOUS
  <2> HIDE DEF Bad
  <2>2. QED
    BY <2>1, LeastNumber
<1>2. k \in 1 .. n
  <2>1. k # 0
    OBVIOUS
  <2>2. QED
    BY <2>1
<1>3. k - 1 \in 0 .. n - 1 /\ k - 1 \notin Bad
  BY <1>1, <1>2
<1>4. QED
  BY <1>2, <1>3

----------------------------------------------------------------------------
(* Sequences.                                                              *)

LEMMA OneMore ==
  ASSUME NEW S, NEW s \in Seq(S), NEW c \in S
  PROVE  /\ Append(s, c) \in Seq(S)
         /\ Len(Append(s, c)) = Len(s) + 1 /\ Append(s, c)[Len(s) + 1] = c
         /\ \A i \in 1 .. Len(s) : Append(s, c)[i] = s[i]
BY AppendProperties

\* The beginnings of a path.
LEMMA Beginnings ==
  ASSUME NEW S, NEW path \in Seq(S)
  PROVE  /\ Len(path) \in Nat
         /\ SubSeq(path, 1, 0) = <<>> /\ SubSeq(path, 1, Len(path)) = path
         /\ \A k \in 0 .. Len(path) : SubSeq(path, 1, k) \in Seq(S) /\ Len(SubSeq(path, 1, k)) = k
         /\ \A k \in 0 .. Len(path) - 1 :
              /\ path[k + 1] \in S
              /\ SubSeq(path, 1, k + 1) = Append(SubSeq(path, 1, k), path[k + 1])
<1>1. Len(path) \in Nat
  BY LenProperties
<1>2. SubSeq(path, 1, 0) = <<>> /\ SubSeq(path, 1, Len(path)) = path
  BY SubSeqEmpty, SubSeqFull
<1>3. ASSUME NEW k \in 0 .. Len(path)
      PROVE  SubSeq(path, 1, k) \in Seq(S) /\ Len(SubSeq(path, 1, k)) = k
  <2>1. \A i \in 1 .. k : path[i] \in S
    BY <1>1, ElementOfSeq
  <2>2. k \in Int /\ 1 \in Int
    BY <1>1
  <2>3. QED
    BY <1>1, <2>1, <2>2, SubSeqProperties
<1>4. ASSUME NEW k \in 0 .. Len(path) - 1
      PROVE  /\ path[k + 1] \in S
             /\ SubSeq(path, 1, k + 1) = Append(SubSeq(path, 1, k), path[k + 1])
  <2>1. k + 1 \in 1 .. Len(path) /\ 1 \in 1 .. Len(path) /\ (k + 1) - 1 = k /\ k \in 0 .. Len(path)
    BY <1>1
  <2>2. path[k + 1] \in S
    BY <2>1, ElementOfSeq
  <2>3. SubSeq(path, 1, k + 1) = SubSeq(path, 1, k) \o <<path[k + 1]>>
    BY <1>1, <2>1, SubSeqRecursiveSecond
  <2>4. SubSeq(path, 1, k) \in Seq(S)
    BY <1>3, <2>1
  <2>5. QED
    BY <2>2, <2>3, <2>4, AppendIsConcat
<1>5. QED
  BY <1>1, <1>2, <1>3, <1>4

\* Paths that begin with nothing and are made longer by one component.
LEMMA PathInduction ==
  ASSUME NEW S, NEW T, <<>> \in T,
         \A q \in Seq(S), c \in S : q \in T => Append(q, c) \in T
  PROVE  Seq(S) \subseteq T
<1> SUFFICES ASSUME NEW path \in Seq(S) PROVE path \in T
  OBVIOUS
<1> DEFINE Ks == {k \in 0 .. Len(path) : SubSeq(path, 1, k) \in T}
<1>1. Len(path) \in Nat
  BY Beginnings
<1>2. 0 \in Ks
  <2>1. SubSeq(path, 1, 0) = <<>>
    BY Beginnings
  <2>2. 0 \in 0 .. Len(path)
    BY <1>1
  <2>3. QED
    BY <2>1, <2>2
<1>3. ASSUME NEW k \in 0 .. Len(path) - 1, k \in Ks PROVE k + 1 \in Ks
  <2>1. k \in 0 .. Len(path) /\ k + 1 \in 0 .. Len(path)
    BY <1>1
  <2>2. SubSeq(path, 1, k) \in Seq(S) /\ path[k + 1] \in S
    BY <2>1, Beginnings
  <2>3. SubSeq(path, 1, k + 1) = Append(SubSeq(path, 1, k), path[k + 1])
    BY Beginnings
  <2>4. QED
    BY <1>3, <2>1, <2>2, <2>3
<1> HIDE DEF Ks
<1>4. Len(path) \in Ks
  <2>1. \A k \in 0 .. Len(path) : k \in Ks
    BY <1>1, <1>2, <1>3, Counting
  <2>2. QED
    BY <1>1, <2>1
<1>5. QED
  BY <1>4, Beginnings DEF Ks

----------------------------------------------------------------------------
(* Canonicalize and Components: what they give for one component more.     *)

\* Where the first k components lead.
IsWalk(path, k, at) == at = [i \in 0 .. k |-> IF i = 0 THEN <<>> ELSE Step(at[i - 1], path[i])]

LEMMA WalkExists ==
  ASSUME NEW path, NEW n \in Nat
  PROVE  \E at : IsWalk(path, n, at)
<1> DEFINE T == {k \in Nat : \E at : IsWalk(path, k, at)}
<1>1. 0 \in T
  <2>1. IsWalk(path, 0, [i \in 0 .. 0 |-> <<>>])
    BY DEF IsWalk
  <2>2. QED
    BY <2>1
<1>2. ASSUME NEW k \in 0 .. n - 1, k \in T PROVE k + 1 \in T
  <2>1. PICK at : IsWalk(path, k, at)
    BY <1>2
  <2> DEFINE on == [i \in 0 .. k + 1 |-> IF i = k + 1 THEN Step(at[k], path[k + 1]) ELSE at[i]]
  <2>2. \A i \in 0 .. k : at[i] = IF i = 0 THEN <<>> ELSE Step(at[i - 1], path[i])
    BY <2>1 DEF IsWalk
  <2>3. \A i \in 0 .. k + 1 : on[i] = IF i = 0 THEN <<>> ELSE Step(on[i - 1], path[i])
    <3> SUFFICES ASSUME NEW i \in 0 .. k + 1
                 PROVE  on[i] = IF i = 0 THEN <<>> ELSE Step(on[i - 1], path[i])
      OBVIOUS
    <3>1. CASE i = 0
      BY <2>2, <3>1
    <3>2. CASE i \in 1 .. k
      <4>1. on[i] = at[i] /\ on[i - 1] = at[i - 1] /\ i # 0
        BY <3>2
      <4>2. QED
        BY <2>2, <3>2, <4>1
    <3>3. CASE i = k + 1
      <4>1. on[i] = Step(at[k], path[i]) /\ on[i - 1] = at[k] /\ i # 0
        BY <3>3
      <4>2. QED
        BY <4>1
    <3>4. QED
      BY <3>1, <3>2, <3>3
  <2>4. IsWalk(path, k + 1, on)
    <3>1. on = [i \in 0 .. k + 1 |-> on[i]]
      OBVIOUS
    <3> HIDE DEF on
    <3>2. QED
      BY <2>3, <3>1 DEF IsWalk
  <2>5. QED
    BY <2>4
<1> HIDE DEF T
<1>3. n \in T
  BY <1>1, <1>2, Counting
<1>4. QED
  BY <1>3 DEF T

LEMMA WalkUnique ==
  ASSUME NEW path, NEW n \in Nat, NEW at, NEW on, IsWalk(path, n, at), IsWalk(path, n, on)
  PROVE  at[n] = on[n]
<1> DEFINE T == {k \in 0 .. n : at[k] = on[k]}
<1>1. /\ \A i \in 0 .. n : at[i] = IF i = 0 THEN <<>> ELSE Step(at[i - 1], path[i])
      /\ \A i \in 0 .. n : on[i] = IF i = 0 THEN <<>> ELSE Step(on[i - 1], path[i])
  BY DEF IsWalk
<1>2. 0 \in T
  BY <1>1
<1>3. \A k \in 0 .. n - 1 : k \in T => k + 1 \in T
  BY <1>1
<1> HIDE DEF T
<1>4. n \in T
  BY <1>2, <1>3, Counting
<1>5. QED
  BY <1>4 DEF T

LEMMA CanonicalizeIs ==
  ASSUME NEW path, Len(path) \in Nat, NEW at, IsWalk(path, Len(path), at)
  PROVE  Canonicalize(path) = at[Len(path)]
<1> DEFINE on == CHOOSE f : IsWalk(path, Len(path), f)
<1>1. IsWalk(path, Len(path), on)
  OBVIOUS
<1>2. Canonicalize(path) = on[Len(path)]
  BY DEF Canonicalize, IsWalk
<1> HIDE DEF on
<1>3. QED
  BY <1>1, <1>2, WalkUnique

LEMMA CanonicalizeEmpty == Canonicalize(<<>>) = <<>>
<1>1. PICK at : IsWalk(<<>>, 0, at)
  BY WalkExists
<1>2. at[0] = <<>>
  BY <1>1 DEF IsWalk
<1>3. Len(<<>>) = 0
  BY EmptySeq
<1>4. QED
  BY <1>1, <1>2, <1>3, CanonicalizeIs

LEMMA CanonicalizeAppend ==
  ASSUME NEW S, NEW path \in Seq(S), NEW c \in S
  PROVE  Canonicalize(Append(path, c)) = Step(Canonicalize(path), c)
<1> DEFINE n == Len(path)
           longer == Append(path, c)
<1>1. /\ n \in Nat /\ n + 1 \in Nat /\ Len(longer) = n + 1
      /\ \A i \in 1 .. n : longer[i] = path[i]
      /\ longer[n + 1] = c
  <2>1. n \in Nat
    BY LenProperties
  <2>2. /\ Len(longer) = n + 1 /\ longer[n + 1] = c
        /\ \A i \in 1 .. n : longer[i] = path[i]
    BY OneMore
  <2>3. QED
    BY <2>1, <2>2
<1> HIDE DEF n, longer
<1>2. PICK at : IsWalk(longer, n + 1, at)
  BY <1>1, WalkExists
<1>3. \A i \in 0 .. n + 1 : at[i] = IF i = 0 THEN <<>> ELSE Step(at[i - 1], longer[i])
  BY <1>2 DEF IsWalk
<1> DEFINE before == [i \in 0 .. n |-> at[i]]
<1>4. \A i \in 0 .. n : before[i] = IF i = 0 THEN <<>> ELSE Step(before[i - 1], path[i])
  BY <1>1, <1>3
<1>5. before = [i \in 0 .. n |-> before[i]] /\ before[n] = at[n]
  BY <1>1
<1> HIDE DEF before
<1>6. IsWalk(path, n, before)
  BY <1>4, <1>5 DEF IsWalk
<1>7. Canonicalize(path) = at[n]
  BY <1>1, <1>5, <1>6, CanonicalizeIs DEF n
<1>8. Canonicalize(longer) = at[n + 1]
  BY <1>1, <1>2, CanonicalizeIs
<1>9. at[n + 1] = Step(at[n], c)
  <2>1. n + 1 \in 0 .. n + 1 /\ n + 1 # 0 /\ (n + 1) - 1 = n
    BY <1>1
  <2>2. QED
    BY <1>1, <1>3, <2>1
<1>10. QED
  BY <1>7, <1>8, <1>9 DEF longer

\* One component of Components.
Keep(kept, c) == IF c \in {"", "."} THEN kept ELSE Append(kept, c)

\* What is left of the first k components.
IsKept(rel, k, kept) == kept = [i \in 0 .. k |-> IF i = 0 THEN <<>> ELSE Keep(kept[i - 1], rel[i])]

LEMMA KeptExists ==
  ASSUME NEW rel, NEW n \in Nat
  PROVE  \E kept : IsKept(rel, n, kept)
<1> DEFINE T == {k \in Nat : \E kept : IsKept(rel, k, kept)}
<1>1. 0 \in T
  <2>1. IsKept(rel, 0, [i \in 0 .. 0 |-> <<>>])
    BY DEF IsKept
  <2>2. QED
    BY <2>1
<1>2. ASSUME NEW k \in 0 .. n - 1, k \in T PROVE k + 1 \in T
  <2>1. PICK kept : IsKept(rel, k, kept)
    BY <1>2
  <2> DEFINE more == [i \in 0 .. k + 1 |-> IF i = k + 1 THEN Keep(kept[k], rel[k + 1]) ELSE kept[i]]
  <2>2. \A i \in 0 .. k : kept[i] = IF i = 0 THEN <<>> ELSE Keep(kept[i - 1], rel[i])
    BY <2>1 DEF IsKept
  <2>3. \A i \in 0 .. k + 1 : more[i] = IF i = 0 THEN <<>> ELSE Keep(more[i - 1], rel[i])
    <3> SUFFICES ASSUME NEW i \in 0 .. k + 1
                 PROVE  more[i] = IF i = 0 THEN <<>> ELSE Keep(more[i - 1], rel[i])
      OBVIOUS
    <3>1. CASE i = 0
      BY <2>2, <3>1
    <3>2. CASE i \in 1 .. k
      <4>1. more[i] = kept[i] /\ more[i - 1] = kept[i - 1] /\ i # 0
        BY <3>2
      <4>2. QED
        BY <2>2, <3>2, <4>1
    <3>3. CASE i = k + 1
      <4>1. more[i] = Keep(kept[k], rel[i]) /\ more[i - 1] = kept[k] /\ i # 0
        BY <3>3
      <4>2. QED
        BY <4>1
    <3>4. QED
      BY <3>1, <3>2, <3>3
  <2>4. IsKept(rel, k + 1, more)
    <3>1. more = [i \in 0 .. k + 1 |-> more[i]]
      OBVIOUS
    <3> HIDE DEF more
    <3>2. QED
      BY <2>3, <3>1 DEF IsKept
  <2>5. QED
    BY <2>4
<1> HIDE DEF T
<1>3. n \in T
  BY <1>1, <1>2, Counting
<1>4. QED
  BY <1>3 DEF T

LEMMA KeptUnique ==
  ASSUME NEW rel, NEW n \in Nat, NEW kept, NEW more, IsKept(rel, n, kept), IsKept(rel, n, more)
  PROVE  kept[n] = more[n]
<1> DEFINE T == {k \in 0 .. n : kept[k] = more[k]}
<1>1. /\ \A i \in 0 .. n : kept[i] = IF i = 0 THEN <<>> ELSE Keep(kept[i - 1], rel[i])
      /\ \A i \in 0 .. n : more[i] = IF i = 0 THEN <<>> ELSE Keep(more[i - 1], rel[i])
  BY DEF IsKept
<1>2. 0 \in T
  BY <1>1
<1>3. \A k \in 0 .. n - 1 : k \in T => k + 1 \in T
  BY <1>1
<1> HIDE DEF T
<1>4. n \in T
  BY <1>2, <1>3, Counting
<1>5. QED
  BY <1>4 DEF T

LEMMA ComponentsAre ==
  ASSUME NEW rel, Len(rel) \in Nat, NEW kept, IsKept(rel, Len(rel), kept)
  PROVE  Components(rel) = kept[Len(rel)]
<1> DEFINE more == CHOOSE f : IsKept(rel, Len(rel), f)
<1>1. IsKept(rel, Len(rel), more)
  OBVIOUS
<1>2. Components(rel) = more[Len(rel)]
  BY DEF Components, IsKept, Keep
<1> HIDE DEF more
<1>3. QED
  BY <1>1, <1>2, KeptUnique

LEMMA ComponentsEmpty == Components(<<>>) = <<>>
<1>1. PICK kept : IsKept(<<>>, 0, kept)
  BY KeptExists
<1>2. kept[0] = <<>>
  BY <1>1 DEF IsKept
<1>3. Len(<<>>) = 0
  BY EmptySeq
<1>4. QED
  BY <1>1, <1>2, <1>3, ComponentsAre

LEMMA ComponentsAppend ==
  ASSUME NEW S, NEW rel \in Seq(S), NEW c \in S
  PROVE  Components(Append(rel, c)) = Keep(Components(rel), c)
<1> DEFINE n == Len(rel)
           longer == Append(rel, c)
<1>1. /\ n \in Nat /\ n + 1 \in Nat /\ Len(longer) = n + 1
      /\ \A i \in 1 .. n : longer[i] = rel[i]
      /\ longer[n + 1] = c
  <2>1. n \in Nat
    BY LenProperties
  <2>2. /\ Len(longer) = n + 1 /\ longer[n + 1] = c
        /\ \A i \in 1 .. n : longer[i] = rel[i]
    BY OneMore
  <2>3. QED
    BY <2>1, <2>2
<1> HIDE DEF n, longer
<1>2. PICK kept : IsKept(longer, n + 1, kept)
  BY <1>1, KeptExists
<1>3. \A i \in 0 .. n + 1 : kept[i] = IF i = 0 THEN <<>> ELSE Keep(kept[i - 1], longer[i])
  BY <1>2 DEF IsKept
<1> DEFINE before == [i \in 0 .. n |-> kept[i]]
<1>4. \A i \in 0 .. n : before[i] = IF i = 0 THEN <<>> ELSE Keep(before[i - 1], rel[i])
  BY <1>1, <1>3
<1>5. before = [i \in 0 .. n |-> before[i]] /\ before[n] = kept[n]
  BY <1>1
<1> HIDE DEF before
<1>6. IsKept(rel, n, before)
  BY <1>4, <1>5 DEF IsKept
<1>7. Components(rel) = kept[n]
  BY <1>1, <1>5, <1>6, ComponentsAre DEF n
<1>8. Components(longer) = kept[n + 1]
  BY <1>1, <1>2, ComponentsAre
<1>9. kept[n + 1] = Keep(kept[n], c)
  <2>1. n + 1 \in 0 .. n + 1 /\ n + 1 # 0 /\ (n + 1) - 1 = n
    BY <1>1
  <2>2. QED
    BY <1>1, <1>3, <2>1
<1>10. QED
  BY <1>7, <1>8, <1>9 DEF longer
----------------------------------------------------------------------------
(* Components and Canonicalize together: empty components and dots matter  *)
(* to realpath only if they come after something that is not a directory.  *)

Skipped(c) == c \in {"", "."}
Unskipped(S) == {c \in S : ~Skipped(c)}

\* No path leads on from where there is none.
LEMMA NoWayBack ==
  ASSUME IsTree(tree)
  PROVE  /\ Failed \notin Seq(Normal) /\ Failed \notin DOMAIN tree
         /\ ~IsDir(Failed) /\ \A c : Step(Failed, c) = Failed
<1>1. Failed \notin Seq(Normal)
  <2> SUFFICES ASSUME Failed \in Seq(Normal) PROVE FALSE
    OBVIOUS
  <2>1. Failed[1] = NoName /\ Len(Failed) = 1
    BY DEF Failed
  <2>2. Failed[1] \in Normal
    BY <2>1, ElementOfSeq
  <2>3. QED
    BY <2>1, <2>2 DEF Normal, NoName
<1>2. Failed \notin DOMAIN tree
  BY <1>1 DEF IsTree
<1>3. QED
  BY <1>1, <1>2 DEF Step, IsDir, Exists

LEMMA SkippedStep ==
  ASSUME IsTree(tree), NEW at, NEW kept, NEW c,
         at # Failed \/ IsDir(kept) => kept = at,
         Step(at, c) # Failed \/ IsDir(IF Skipped(c) THEN kept ELSE Step(kept, c))
  PROVE  (IF Skipped(c) THEN kept ELSE Step(kept, c)) = Step(at, c)
BY NoWayBack DEF Step, Skipped

\* A path that resolves still does so without its empty components and dots,
\* and a directory that is found without them is found with them.
LEMMA ComponentsResolve ==
  ASSUME IsTree(tree), NEW S, NEW path \in Seq(S)
  PROVE  /\ Components(path) \in Seq(Unskipped(S))
         /\ Canonicalize(path) # Failed \/ IsDir(Canonicalize(Components(path)))
              => Canonicalize(Components(path)) = Canonicalize(path)
<1> DEFINE Same(q) == /\ Components(q) \in Seq(Unskipped(S))
                      /\ Canonicalize(q) # Failed \/ IsDir(Canonicalize(Components(q)))
                           => Canonicalize(Components(q)) = Canonicalize(q)
           T == {q \in Seq(S) : Same(q)}
<1>1. <<>> \in T
  <2>1. <<>> \in Seq(S) /\ <<>> \in Seq(Unskipped(S))
    BY EmptySeq
  <2>2. QED
    BY <2>1, CanonicalizeEmpty, ComponentsEmpty
<1>2. ASSUME NEW q \in Seq(S), NEW c \in S, Same(q) PROVE Append(q, c) \in T
  <2> DEFINE longer == Append(q, c)
  <2>1. longer \in Seq(S)
    BY AppendProperties
  <2>2. Canonicalize(longer) = Step(Canonicalize(q), c)
    BY CanonicalizeAppend
  <2>3. Components(longer) = IF Skipped(c) THEN Components(q) ELSE Append(Components(q), c)
    BY ComponentsAppend DEF Keep, Skipped
  <2> HIDE DEF longer
  <2>4. /\ Components(longer) \in Seq(Unskipped(S))
        /\ Canonicalize(Components(longer)) =
             IF Skipped(c) THEN Canonicalize(Components(q)) ELSE Step(Canonicalize(Components(q)), c)
    <3>1. CASE Skipped(c)
      BY <1>2, <2>3, <3>1
    <3>2. CASE ~Skipped(c)
      <4>1. c \in Unskipped(S) /\ Components(q) \in Seq(Unskipped(S))
        BY <1>2, <3>2 DEF Unskipped
      <4>2. Components(longer) = Append(Components(q), c)
        BY <2>3, <3>2
      <4>3. Append(Components(q), c) \in Seq(Unskipped(S))
        BY <4>1, AppendProperties
      <4>4. QED
        BY <3>2, <4>1, <4>2, <4>3, CanonicalizeAppend
    <3>3. QED
      BY <3>1, <3>2
  <2>5. Same(longer)
    BY <1>2, <2>2, <2>4, SkippedStep
  <2>6. QED
    BY <2>1, <2>5 DEF longer
<1>3. \A q \in Seq(S), c \in S : q \in T => Append(q, c) \in T
  BY <1>2
<1> HIDE DEF T
<1>4. path \in T
  BY <1>1, <1>3, PathInduction
<1>5. QED
  BY <1>4 DEF T
----------------------------------------------------------------------------
(* Trimmed and Join: a relative path stays relative.                       *)

LEMMA MinIs ==
  ASSUME NEW T, T \subseteq Nat, NEW k \in T, \A j \in T : k <= j
  PROVE  Min(T) = k
<1>1. Min(T) \in T /\ \A j \in T : Min(T) <= j
  BY DEF Min
<1>2. Min(T) <= k /\ k <= Min(T) /\ Min(T) \in Nat /\ k \in Nat
  BY <1>1
<1>3. QED
  BY <1>2

LEMMA MinExists ==
  ASSUME NEW T, T \subseteq Nat, T # {}
  PROVE  Min(T) \in T /\ \A j \in T : Min(T) <= j
<1>1. PICK k \in T : \A j \in T : k <= j
  BY LeastNumber
<1>2. QED
  BY <1>1 DEF Min

\* Where a path has names, if its empty components are e, and what is left of it
\* from the first of them on.
Named(rel, e) == {i \in DOMAIN rel : rel[i] # e}
FromName(rel, e) == IF Named(rel, e) = {} THEN <<e>> ELSE SubSeq(rel, Min(Named(rel, e)), Len(rel))

\* Slashes in front are taken away, and nothing else.
LEMMA FromNameIs ==
  ASSUME NEW S, NEW e \in S, NEW rel \in Seq(S)
  PROVE  /\ FromName(rel, e) \in Seq(S) /\ FromName(rel, e) # <<>>
         /\ Named(rel, e) = {} => FromName(rel, e) = <<e>>
         /\ Named(rel, e) # {} => FromName(rel, e)[1] # e
<1>1. Len(rel) \in Nat /\ DOMAIN rel = 1 .. Len(rel)
  BY LenProperties
<1>2. CASE Named(rel, e) = {}
  <2>1. FromName(rel, e) = <<e>>
    BY <1>2 DEF FromName
  <2>2. QED
    BY <1>2, <2>1
<1>3. CASE Named(rel, e) # {}
  <2> DEFINE first == Min(Named(rel, e))
             rest == SubSeq(rel, first, Len(rel))
  <2>1. FromName(rel, e) = rest
    BY <1>3 DEF FromName
  <2>2. first \in Named(rel, e)
    <3>1. Named(rel, e) \subseteq Nat
      BY <1>1 DEF Named
    <3>2. QED
      BY <1>3, <3>1, MinExists
  <2> HIDE DEF first
  <2>3. first \in 1 .. Len(rel) /\ rel[first] # e
    BY <1>1, <2>2 DEF Named
  <2>4. /\ rest \in Seq(S) /\ Len(rest) = Len(rel) - first + 1
        /\ \A i \in 1 .. Len(rel) - first + 1 : rest[i] = rel[first + i - 1]
    <3>1. \A i \in first .. Len(rel) : rel[i] \in S
      BY <1>1, <2>3, ElementOfSeq
    <3>2. first \in Int /\ Len(rel) \in Int /\ first <= Len(rel)
      BY <1>1, <2>3
    <3>3. QED
      BY <3>1, <3>2, SubSeqProperties
  <2>5. rest # <<>> /\ rest[1] = rel[first]
    <3>1. Len(rest) # 0 /\ 1 \in 1 .. Len(rel) - first + 1 /\ first + 1 - 1 = first
      BY <1>1, <2>3, <2>4
    <3>2. QED
      BY <2>4, <3>1, EmptySeq
  <2>6. QED
    BY <1>3, <2>1, <2>3, <2>4, <2>5
<1>4. QED
  BY <1>2, <1>3
\* A name behind a path stays behind it, unless there was nothing in the path.
LEMMA FromNameAppend ==
  ASSUME NEW S, NEW e \in S, NEW rel \in Seq(S), NEW n \in S, n # e
  PROVE  FromName(Append(rel, n), e) =
           IF Named(rel, e) = {} THEN <<n>> ELSE Append(FromName(rel, e), n)
<1> DEFINE longer == Append(rel, n)
           len == Len(rel)
<1>1. len \in Nat /\ DOMAIN rel = 1 .. len
  BY LenProperties
<1>2. /\ longer \in Seq(S) /\ Len(longer) = len + 1 /\ longer[len + 1] = n
      /\ \A i \in 1 .. len : longer[i] = rel[i]
  BY OneMore
<1>3. longer = rel \o <<n>>
  BY AppendIsConcat
<1> HIDE DEF longer, len
<1>4. DOMAIN longer = 1 .. len + 1
  BY <1>2, LenProperties
<1>5. Named(longer, e) = Named(rel, e) \cup {len + 1}
  BY <1>1, <1>2, <1>4 DEF Named
<1>6. Named(rel, e) \subseteq 1 .. len
  BY <1>1 DEF Named
<1>7. CASE Named(rel, e) = {}
  <2>1. Min(Named(longer, e)) = len + 1 /\ Named(longer, e) # {}
    <3>1. Named(longer, e) = {len + 1} /\ len + 1 \in Nat
      BY <1>1, <1>5, <1>7
    <3>2. QED
      BY <3>1, MinIs
  <2>2. FromName(longer, e) = SubSeq(longer, len + 1, len + 1)
    BY <1>2, <2>1 DEF FromName
  <2>3. /\ len + 1 \in 1 .. Len(longer) /\ len + 1 \in len + 1 .. Len(longer)
        /\ (len + 1) - 1 = len /\ len < len + 1 /\ len \in Int /\ len + 1 \in Int
    BY <1>1, <1>2
  <2>4. SubSeq(longer, len + 1, len + 1) = SubSeq(longer, len + 1, len) \o <<longer[len + 1]>>
    BY <1>2, <2>3, SubSeqRecursiveSecond
  <2>5. SubSeq(longer, len + 1, len) = <<>>
    BY <2>3, SubSeqEmpty
  <2>6. <<>> \o <<n>> = <<n>>
    OBVIOUS
  <2>7. QED
    BY <1>2, <1>7, <2>2, <2>4, <2>5, <2>6 DEF longer
<1>8. CASE Named(rel, e) # {}
  <2> DEFINE first == Min(Named(rel, e))
  <2>1. first \in 1 .. len /\ first \in Named(rel, e) /\ \A j \in Named(rel, e) : first <= j
    <3>1. Named(rel, e) \subseteq Nat
      BY <1>1, <1>6
    <3>2. first \in Named(rel, e) /\ \A j \in Named(rel, e) : first <= j
      BY <1>8, <3>1, MinExists
    <3>3. QED
      BY <1>6, <3>2
  <2> HIDE DEF first
  <2>2. Min(Named(longer, e)) = first /\ Named(longer, e) # {}
    <3>1. Named(longer, e) \subseteq Nat /\ first \in Named(longer, e)
      BY <1>1, <1>5, <1>6, <2>1
    <3>2. \A j \in Named(longer, e) : first <= j
      BY <1>1, <1>5, <2>1
    <3>3. QED
      BY <3>1, <3>2, MinIs
  <2>3. FromName(longer, e) = SubSeq(longer, first, len + 1) /\ FromName(rel, e) = SubSeq(rel, first, len)
    BY <1>2, <1>8, <2>2 DEF FromName, first, len
  <2>4. /\ first \in 1 .. Len(longer) /\ len + 1 \in first .. Len(longer) /\ (len + 1) - 1 = len
        /\ first \in 1 .. Len(rel) /\ len \in 1 .. Len(rel)
    BY <1>1, <1>2, <2>1 DEF len
  <2>5. SubSeq(longer, first, len + 1) = SubSeq(longer, first, len) \o <<n>>
    BY <1>2, <2>4, SubSeqRecursiveSecond
  <2>6. SubSeq(longer, first, len) = SubSeq(rel, first, len)
    <3>1. <<n>> \in Seq(S)
      OBVIOUS
    <3>2. QED
      BY <1>3, <2>4, <3>1, SubSeqOfConcat1
  <2>7. FromName(rel, e) \in Seq(S)
    BY FromNameIs
  <2>8. QED
    BY <1>8, <2>3, <2>5, <2>6, <2>7, AppendIsConcat DEF longer
<1>9. QED
  BY <1>7, <1>8

\* A path that begins with a name is as it is, with a slash in front or without.
LEMMA FromNamePlain ==
  ASSUME NEW S, NEW e \in S, NEW rel \in Seq(S), rel # <<>>, rel[1] # e
  PROVE  FromName(rel, e) = rel /\ FromName(<<e>> \o rel, e) = rel
<1> DEFINE slash == <<e>> \o rel
<1>1. Len(rel) \in Nat \ {0} /\ DOMAIN rel = 1 .. Len(rel)
  BY EmptySeq, LenProperties
<1>2. FromName(rel, e) = rel
  <2>1. 1 \in Named(rel, e) /\ Named(rel, e) \subseteq Nat /\ \A j \in Named(rel, e) : 1 <= j
    BY <1>1 DEF Named
  <2>2. Min(Named(rel, e)) = 1
    BY <2>1, MinIs
  <2>3. QED
    BY <2>1, <2>2, SubSeqFull DEF FromName
<1>3. <<e>> \in Seq(S) /\ Len(<<e>>) = 1 /\ <<e>>[1] = e
  OBVIOUS
<1>4. /\ slash \in Seq(S) /\ Len(slash) = 1 + Len(rel)
      /\ \A i \in 1 .. 1 + Len(rel) : slash[i] = IF i <= 1 THEN <<e>>[i] ELSE rel[i - 1]
  BY <1>3, ConcatProperties
<1>5. SubSeq(slash, 2, 1 + Len(rel)) = rel
  <2>1. 2 \in Len(<<e>>) + 1 .. Len(<<e>>) + Len(rel) /\ 1 + Len(rel) \in Len(<<e>>) + 1 .. Len(<<e>>) + Len(rel)
        /\ 2 - Len(<<e>>) = 1 /\ 1 + Len(rel) - Len(<<e>>) = Len(rel)
    BY <1>1, <1>3
  <2>2. SubSeq(slash, 2, 1 + Len(rel)) = SubSeq(rel, 1, Len(rel))
    BY <1>3, <2>1, SubSeqOfConcat2
  <2>3. QED
    BY <2>2, SubSeqFull
<1> HIDE DEF slash
<1>6. DOMAIN slash = 1 .. 1 + Len(rel)
  BY <1>4, LenProperties
<1>7. /\ 2 \in Named(slash, e) /\ Named(slash, e) \subseteq Nat
      /\ \A j \in Named(slash, e) : 2 <= j
  <2>1. slash[1] = e /\ slash[2] = rel[1] /\ 2 \in DOMAIN slash
    BY <1>1, <1>3, <1>4, <1>6
  <2>2. QED
    BY <1>1, <1>6, <2>1 DEF Named
<1>8. Min(Named(slash, e)) = 2
  BY <1>7, MinIs
<1>9. FromName(slash, e) = rel
  BY <1>4, <1>5, <1>7, <1>8 DEF FromName
<1>10. QED
  BY <1>2, <1>9 DEF slash
\* What is between two slashes.
Empty == ""

LEMMA JoinIs ==
  \A base, rel : Join(base, rel) = IF Len(rel) > 1 /\ rel[1] = Empty THEN rel ELSE base \o rel
BY DEF Join, Empty

LEMMA TrimmedIs == \A rel : Trimmed(rel) = FromName(rel, Empty)
BY DEF Trimmed, FromName, Named, Empty

\* What is joined to a mount point is never absolute.
LEMMA JoinTrimmed ==
  ASSUME NEW S, Empty \in S, NEW base \in Seq(S), NEW rel \in Seq(S)
  PROVE  /\ Join(base, Trimmed(rel)) = base \o Trimmed(rel)
         /\ Trimmed(rel) \in Seq(S) /\ base \o Trimmed(rel) \in Seq(S)
<1> DEFINE t == Trimmed(rel)
<1>1. t \in Seq(S) /\ (t = <<Empty>> \/ t[1] # Empty)
  BY FromNameIs, TrimmedIs
<1> HIDE DEF t
<1>2. ~(Len(t) > 1 /\ t[1] = Empty)
  <2>1. Len(t) \in Nat /\ Len(<<Empty>>) = 1
    BY <1>1, LenProperties
  <2>2. t = <<Empty>> => Len(t) = 1
    BY <2>1, Zenon
  <2>3. Len(t) = 1 => ~(Len(t) > 1)
    BY <2>1
  <2>4. QED
    BY <1>1, <2>2, <2>3, Zenon
<1>3. Join(base, t) = base \o t
  BY <1>2, JoinIs
<1>4. base \o t \in Seq(S)
  BY <1>1, ConcatProperties
<1>5. QED
  BY <1>1, <1>3, <1>4 DEF t

LEMMA FrontAndLast ==
  ASSUME NEW S, NEW q \in Seq(S), NEW c \in S
  PROVE  Front(Append(q, c)) = q /\ Last(Append(q, c)) = c
<1>1. /\ Len(q) \in Nat /\ Len(Append(q, c)) = Len(q) + 1 /\ Append(q, c)[Len(q) + 1] = c
      /\ Append(q, c) = q \o <<c>>
  BY OneMore, LenProperties, AppendIsConcat
<1>2. SubSeq(q \o <<c>>, 1, Len(q)) = q
  <2>1. CASE q = <<>>
    <3>1. Len(q) = 0
      BY <2>1, EmptySeq
    <3>2. QED
      BY <2>1, <3>1, SubSeqEmpty
  <2>2. CASE q # <<>>
    <3>1. Len(q) \in 1 .. Len(q) /\ 1 \in 1 .. Len(q) /\ <<c>> \in Seq(S)
      BY <2>2, EmptySeq
    <3>2. SubSeq(q \o <<c>>, 1, Len(q)) = SubSeq(q, 1, Len(q))
      BY <3>1, SubSeqOfConcat1
    <3>3. QED
      BY <3>2, SubSeqFull
  <2>3. QED
    BY <2>1, <2>2
<1>3. Len(Append(q, c)) - 1 = Len(q)
  BY <1>1
<1>4. QED
  BY <1>1, <1>2, <1>3 DEF Front, Last

LEMMA FrontThenLast ==
  ASSUME NEW S, NEW q \in Seq(S), q # <<>>
  PROVE  Front(q) \in Seq(S) /\ Last(q) \in S /\ q = Append(Front(q), Last(q))
<1>1. PICK f \in Seq(S), c \in S : q = Append(f, c)
  BY SequenceEmptyOrAppend
<1>2. QED
  BY <1>1, FrontAndLast

----------------------------------------------------------------------------
(* The properties, for one mount point and one path.                       *)

\* What is within a mount point is what was resolved.
LEMMA WithinIs == \A mount, p : Within(mount, p) # Failed => p # Failed /\ Within(mount, p) = p
BY DEF Within

LEMMA SameKey ==
  ASSUME IsTree(tree), NEW S, Empty \in S, NEW m, MountPoint(m).path \in Seq(S), NEW s \in Seq(S),
         ResolvePath(m, s) # Failed, ResolveNewPath(m, s) # Failed
  PROVE  ResolvePath(m, s) = Target(ResolveNewPath(m, s))
<1> DEFINE base   == MountPoint(m).path
           whole  == base \o Trimmed(s)
           full   == Components(whole)
           parent == Canonicalize(Front(full))
<1>1. Join(base, Trimmed(s)) = whole /\ whole \in Seq(S)
  BY JoinTrimmed
<1> HIDE DEF whole
<1>2. ResolvePath(m, s) = Canonicalize(whole) /\ Canonicalize(whole) # Failed
  <2>1. ResolvePath(m, s) = Within(MountPoint(m), Canonicalize(whole))
    BY <1>1 DEF ResolvePath
  <2>2. QED
    BY <2>1, WithinIs
<1>3. /\ full # <<>> /\ parent # Failed
      /\ ResolveNewPath(m, s) = Append(parent, Last(full))
  <2> DEFINE in == Within(MountPoint(m), parent)
  <2>1. ResolveNewPath(m, s) = IF full # <<>> /\ in # Failed THEN Child(in, full) ELSE Failed
    BY <1>1 DEF ResolveNewPath
  <2>2. in # Failed => in = parent /\ parent # Failed
    BY WithinIs
  <2> HIDE DEF in
  <2>3. QED
    BY <2>1, <2>2 DEF Child
<1>4. full \in Seq(Unskipped(S)) /\ Canonicalize(full) = Canonicalize(whole)
  BY <1>1, <1>2, ComponentsResolve
<1> HIDE DEF full
<1>5. Front(full) \in Seq(Unskipped(S)) /\ Last(full) \in Unskipped(S) /\ full = Append(Front(full), Last(full))
  BY <1>3, <1>4, FrontThenLast
<1>6. Canonicalize(full) = Step(parent, Last(full))
  BY <1>5, CanonicalizeAppend
<1> HIDE DEF parent
<1>7. Last(full) \notin {"", "."}
  BY <1>5 DEF Unskipped, Skipped
<1>8. Step(parent, Last(full)) # Failed => Step(parent, Last(full)) = Target(Append(parent, Last(full)))
  BY <1>7 DEF Step
<1>9. QED
  BY <1>2, <1>3, <1>4, <1>6, <1>8

\* What resolves is a file that is there.
LEMMA CanonicalizeType ==
  ASSUME IsTree(tree), NEW S, NEW path \in Seq(S)
  PROVE  Canonicalize(path) = Failed \/ Canonicalize(path) \in Seq(Normal)
<1>1. CASE path = <<>>
  <2>1. <<>> \in Seq(Normal)
    BY EmptySeq
  <2>2. QED
    BY <1>1, <2>1, CanonicalizeEmpty
<1>2. CASE path # <<>>
  <2>1. PICK q \in Seq(S), c \in S : path = Append(q, c)
    BY <1>2, SequenceEmptyOrAppend
  <2>2. Canonicalize(path) = Step(Canonicalize(q), c)
    BY <2>1, CanonicalizeAppend
  <2>3. Canonicalize(path) = Failed \/ Canonicalize(path) \in DOMAIN tree
    BY <2>2 DEF Step, IsDir, Exists
  <2>4. QED
    BY <2>3 DEF IsTree
<1>3. QED
  BY <1>1, <1>2

\* A name behind a path that is joined to a mount point is put behind this.
Above(base, s) == IF Named(s, Empty) = {} THEN base ELSE base \o Trimmed(s)

LEMMA JoinAppend ==
  ASSUME NEW S, Empty \in S, NEW base \in Seq(S), NEW s \in Seq(S), NEW n \in S, n # Empty
  PROVE  Above(base, s) \in Seq(S) /\ base \o Trimmed(Append(s, n)) = Append(Above(base, s), n)
<1>1. base \o Trimmed(s) \in Seq(S) /\ Trimmed(s) \in Seq(S) /\ <<n>> \in Seq(S)
  BY JoinTrimmed
<1>2. Trimmed(Append(s, n)) = IF Named(s, Empty) = {} THEN <<n>> ELSE Append(Trimmed(s), n)
  BY FromNameAppend, TrimmedIs
<1>3. base \o <<n>> = Append(base, n)
  BY AppendIsConcat
<1>4. base \o Append(Trimmed(s), n) = Append(base \o Trimmed(s), n)
  BY <1>1, AppendIsConcat, ConcatAssociative
<1>5. QED
  BY <1>1, <1>2, <1>3, <1>4 DEF Above

LEMMA NoTraversal ==
  ASSUME NEW S, NEW s \in Seq(S), NEW n \in S, ~HasPathTraversal(Append(s, n))
  PROVE  ~HasPathTraversal(s)
<1>1. Len(s) \in Nat /\ Len(Append(s, n)) = Len(s) + 1 /\ \A i \in 1 .. Len(s) : Append(s, n)[i] = s[i]
  BY OneMore, LenProperties
<1>2. QED
  BY <1>1 DEF HasPathTraversal, Contains

LEMMA UploadInPlace ==
  ASSUME IsTree(tree), NEW S, Empty \in S, NEW m, MountPoint(m).path \in Seq(S), NEW s \in Seq(S),
         NEW n \in Unskipped(S), ResolveNewPath(m, s \o <<n>>) # Failed,
         IsDir(Front(ResolveNewPath(m, s \o <<n>>)))
  PROVE  ResolveNewPath(m, s \o <<n>>) = Append(ResolvePath(m, s), n)
<1> DEFINE base   == MountPoint(m).path
           longer == Append(s, n)
           above  == Above(base, s)
           parent == Canonicalize(Components(above))
           in     == Within(MountPoint(m), parent)
           new    == ResolveNewPath(m, longer)
<1>1. s \o <<n>> = longer /\ longer \in Seq(S) /\ n \in S
  <2>1. n \in S
    BY DEF Unskipped
  <2>2. QED
    BY <2>1, AppendIsConcat, AppendProperties
<1>2. n # Empty /\ ~Skipped(n)
  BY DEF Unskipped, Empty, Skipped
<1>3. /\ above \in Seq(S) /\ base \o Trimmed(longer) = Append(above, n)
      /\ Join(base, Trimmed(longer)) = Append(above, n)
  <2>1. above \in Seq(S) /\ base \o Trimmed(longer) = Append(above, n)
    <3>1. base \in Seq(S) /\ n \in S /\ n # Empty
      BY <1>1, <1>2
    <3> HIDE DEF base
    <3>2. QED
      BY <3>1, JoinAppend
  <2>2. Join(base, Trimmed(longer)) = base \o Trimmed(longer)
    <3>1. base \in Seq(S) /\ longer \in Seq(S)
      BY <1>1
    <3> HIDE DEF base, longer
    <3>2. QED
      BY <3>1, JoinTrimmed
  <2>3. QED
    BY <2>1, <2>2
<1> HIDE DEF above
<1>4. Components(Append(above, n)) = Append(Components(above), n) /\ Components(above) \in Seq(Unskipped(S))
  BY <1>1, <1>2, <1>3, ComponentsAppend, ComponentsResolve DEF Keep, Skipped
<1>5. /\ Front(Append(Components(above), n)) = Components(above)
      /\ Last(Append(Components(above), n)) = n
  BY <1>4, FrontAndLast
<1>6. /\ Mounts(m) # {} /\ ~HasPathTraversal(longer)
      /\ in # Failed /\ new = Append(in, n)
  <2>1. new # Failed
    BY <1>1
  <2>2. Mounts(m) # {} /\ ~HasPathTraversal(longer)
    BY <2>1 DEF ResolveNewPath
  <2>3. new = LET full == Components(Append(above, n))
                  i == Within(MountPoint(m), Canonicalize(Front(full)))
              IN IF full # <<>> /\ i # Failed THEN Child(i, full) ELSE Failed
    BY <1>3, <2>2 DEF ResolveNewPath
  <2>4. new = IF Append(Components(above), n) # <<>> /\ in # Failed THEN Child(in, Append(Components(above), n))
              ELSE Failed
    BY <1>4, <1>5, <2>3
  <2>5. QED
    BY <1>5, <2>1, <2>2, <2>4 DEF Child
<1> HIDE DEF new
<1>7. in = parent /\ parent # Failed
  BY <1>6, WithinIs
<1>8. IsDir(parent)
  <2>1. parent \in Seq(Normal)
    BY <1>4, <1>7, CanonicalizeType
  <2> HIDE DEF parent, in
  <2>2. parent \in Seq(Normal \cup S) /\ n \in Normal \cup S
    BY <1>1, <2>1, SeqMonotonic
  <2>3. Front(new) = parent
    BY <1>6, <1>7, <2>2, FrontAndLast
  <2>4. QED
    BY <1>1, <2>3 DEF new
<1>9. Canonicalize(above) = parent
  BY <1>3, <1>8, ComponentsResolve
<1>10. Canonicalize(base \o Trimmed(s)) = parent
  <2>1. CASE Named(s, Empty) = {}
    <3>1. above = base /\ Trimmed(s) = <<Empty>>
      BY <2>1, FromNameIs, TrimmedIs DEF above, Above
    <3>2. base \o Trimmed(s) = Append(base, Empty)
      BY <3>1, AppendIsConcat
    <3>3. Canonicalize(Append(base, Empty)) = Step(Canonicalize(base), Empty)
      BY CanonicalizeAppend
    <3>4. \A at : IsDir(at) => Step(at, Empty) = at
      BY DEF Step, Empty
    <3>5. QED
      BY <1>8, <1>9, <3>1, <3>2, <3>3, <3>4
  <2>2. CASE Named(s, Empty) # {}
    BY <1>9, <2>2 DEF above, Above
  <2>3. QED
    BY <2>1, <2>2
<1>11. ~HasPathTraversal(s)
  BY <1>1, <1>6, NoTraversal
<1>12. ResolvePath(m, s) = in
  <2>1. Join(base, Trimmed(s)) = base \o Trimmed(s)
    BY JoinTrimmed
  <2>2. QED
    BY <1>6, <1>10, <1>11, <2>1 DEF ResolvePath
<1>13. QED
  BY <1>1, <1>6, <1>12 DEF new
\* The directories above a file are directories, and nothing else on its path
\* is a link than maybe the file itself.
LEMMA PlainSteps ==
  ASSUME IsTree(tree), NEW p \in DOMAIN tree, ~IsLink(p), NEW k \in 0 .. Len(p) - 1
  PROVE  Step(SubSeq(p, 1, k), p[k + 1]) = SubSeq(p, 1, k + 1)
<1>1. /\ p \in Seq(Normal) /\ Len(p) \in Nat
      /\ \A j \in 0 .. Len(p) - 1 : IsDir(SubSeq(p, 1, j))
  BY LenProperties DEF IsTree, IsDir, Exists
<1>2. /\ p[k + 1] \in Normal /\ SubSeq(p, 1, Len(p)) = p
      /\ SubSeq(p, 1, k + 1) = Append(SubSeq(p, 1, k), p[k + 1])
  BY <1>1, Beginnings
<1>3. Exists(SubSeq(p, 1, k + 1)) /\ ~IsLink(SubSeq(p, 1, k + 1))
  <2>1. CASE k + 1 = Len(p)
    BY <1>2, <2>1 DEF Exists
  <2>2. CASE k + 1 # Len(p)
    <3>1. k + 1 \in 0 .. Len(p) - 1
      BY <1>1, <2>2
    <3>2. IsDir(SubSeq(p, 1, k + 1))
      BY <1>1, <3>1
    <3>3. QED
      BY <3>2 DEF IsDir, IsLink
  <2>3. QED
    BY <2>1, <2>2
<1>4. Target(Append(SubSeq(p, 1, k), p[k + 1])) = SubSeq(p, 1, k + 1)
  BY <1>2, <1>3 DEF Target
<1>5. IsDir(SubSeq(p, 1, k)) /\ p[k + 1] \notin {"", "."}
  BY <1>1, <1>2 DEF Normal
<1>6. QED
  BY <1>3, <1>4, <1>5 DEF Step

\* From the mount point to a file.
LEMMA Reachable ==
  ASSUME IsTree(tree), NEW S, Normal \subseteq S, NEW base \in Seq(S),
         NEW p \in DOMAIN tree, ~IsLink(p), NEW l \in 0 .. Len(p),
         Canonicalize(base) = SubSeq(p, 1, l)
  PROVE  Canonicalize(base \o SubSeq(p, l + 1, Len(p))) = p
<1> DEFINE n == Len(p)
           rest(k) == SubSeq(p, l + 1, l + k)
           T == {k \in 0 .. n - l : Canonicalize(base \o rest(k)) = SubSeq(p, 1, l + k)}
<1>1. p \in Seq(Normal) /\ n \in Nat /\ l \in Nat /\ n - l \in Nat /\ SubSeq(p, 1, n) = p
  <2>1. p \in Seq(Normal)
    BY DEF IsTree
  <2>2. QED
    BY <2>1, LenProperties, SubSeqFull
<1>2. 0 \in T
  <2>1. rest(0) = <<>>
    BY <1>1, SubSeqEmpty
  <2>2. base \o <<>> = base
    BY ConcatEmptySeq
  <2>3. 0 \in 0 .. n - l /\ l + 0 = l
    BY <1>1
  <2> HIDE DEF rest
  <2>4. QED
    BY <2>1, <2>2, <2>3
<1>3. ASSUME NEW k \in 0 .. n - l - 1, k \in T PROVE k + 1 \in T
  <2> DEFINE c == p[l + k + 1]
  <2>1. /\ l + k \in 0 .. n - 1 /\ (l + k) + 1 = l + (k + 1) /\ k + 1 \in 0 .. n - l
        /\ l + 1 \in 1 .. n /\ l + (k + 1) \in l + 1 .. n /\ l + (k + 1) - 1 = l + k
    BY <1>1
  <2>2. rest(k + 1) = rest(k) \o <<c>>
    <3> DEFINE from == l + 1
               to   == l + (k + 1)
    <3>1. from \in 1 .. Len(p) /\ to \in from .. Len(p) /\ to - 1 = l + k /\ p[to] = c
      BY <2>1
    <3> HIDE DEF from, to
    <3>2. SubSeq(p, from, to) = SubSeq(p, from, to - 1) \o <<p[to]>>
      BY <1>1, <3>1, SubSeqRecursiveSecond
    <3>3. QED
      BY <3>1, <3>2 DEF from, to
  <2>3. rest(k) \in Seq(S) /\ c \in S
    <3>1. \A i \in 1 .. n : p[i] \in S
      BY <1>1, ElementOfSeq
    <3>2. c \in S /\ \A i \in l + 1 .. l + k : p[i] \in S
      <4>1. l + k + 1 \in 1 .. n /\ l + 1 .. l + k \subseteq 1 .. n
        BY <1>1, <2>1
      <4>2. QED
        BY <3>1, <4>1
    <3>3. l + 1 \in Int /\ l + k \in Int
      BY <1>1, <2>1
    <3> HIDE DEF c
    <3>4. rest(k) \in Seq(S)
      BY <3>2, <3>3, SubSeqProperties
    <3>5. QED
      BY <3>2, <3>4
  <2>4. Canonicalize(base \o rest(k)) = SubSeq(p, 1, l + k)
    BY <1>3
  <2>5. Step(SubSeq(p, 1, l + k), c) = SubSeq(p, 1, l + (k + 1))
    BY <2>1, PlainSteps
  <2> HIDE DEF rest, c
  <2>6. base \o rest(k + 1) = Append(base \o rest(k), c) /\ base \o rest(k) \in Seq(S)
    <3>1. <<c>> \in Seq(S) /\ base \o rest(k) \in Seq(S)
      BY <2>3, ConcatProperties
    <3>2. base \o (rest(k) \o <<c>>) = (base \o rest(k)) \o <<c>>
      BY <2>3, <3>1, ConcatAssociative
    <3>3. QED
      BY <2>2, <2>3, <3>1, <3>2, AppendIsConcat
  <2>7. Canonicalize(base \o rest(k + 1)) = SubSeq(p, 1, l + (k + 1))
    BY <2>3, <2>4, <2>5, <2>6, CanonicalizeAppend
  <2>8. QED
    BY <2>1, <2>7
<1> HIDE DEF T
<1>4. n - l \in T
  <2>1. \A k \in 0 .. n - l : k \in T
    BY <1>1, <1>2, <1>3, Counting
  <2>2. QED
    BY <1>1, <2>1
<1>5. l + (n - l) = n
  BY <1>1
<1>6. QED
  BY <1>1, <1>4, <1>5 DEF T
LEMMA FileReached ==
  ASSUME IsTree(tree), NEW S, Normal \subseteq S, Empty \in S, NEW m, Mounts(m) # {},
         MountPoint(m).path \in Seq(S), NEW p \in DOMAIN tree, ~IsLink(p),
         p # Canonicalize(MountPoint(m).path), IsPrefix(Canonicalize(MountPoint(m).path), p)
  PROVE  LET plain == SubSeq(p, Len(Canonicalize(MountPoint(m).path)) + 1, Len(p))
         IN ResolvePath(m, plain) = p /\ ResolvePath(m, <<Empty>> \o plain) = p
<1> DEFINE base  == MountPoint(m).path
           root  == Canonicalize(base)
           l     == Len(root)
           plain == SubSeq(p, l + 1, Len(p))
           slash == <<Empty>> \o plain
<1>1. p \in Seq(Normal) /\ Len(p) \in Nat /\ p # Failed
  BY NoWayBack, LenProperties DEF IsTree
<1>2. root # Failed /\ root \in Seq(Normal) /\ l \in Nat
  <2>1. root \in Seq(Normal) \/ root = Failed
    BY CanonicalizeType
  <2>2. root # Failed
    <3> SUFFICES ASSUME root = Failed PROVE FALSE
      OBVIOUS
    <3>1. Failed \in Seq({NoName}) /\ Len(Failed) = 1
      BY DEF Failed
    <3>2. Len(Failed) <= Len(p) /\ SubSeq(Failed, 1, Len(Failed)) = SubSeq(p, 1, Len(Failed))
      BY DEF IsPrefix
    <3>3. SubSeq(Failed, 1, Len(Failed)) = Failed
      BY <3>1, SubSeqFull
    <3>4. Len(Failed) \in 0 .. Len(p)
      BY <1>1, <3>1, <3>2
    <3>5. SubSeq(p, 1, Len(Failed)) \in Seq(Normal)
      BY <1>1, <3>4, Beginnings
    <3>6. QED
      BY <3>2, <3>3, <3>5, NoWayBack
  <2>3. QED
    BY <2>1, <2>2, LenProperties
<1>3. l < Len(p) /\ SubSeq(p, 1, l) = root
  <2>1. l <= Len(p) /\ SubSeq(root, 1, l) = SubSeq(p, 1, l)
    BY DEF IsPrefix
  <2>2. SubSeq(root, 1, l) = root /\ SubSeq(p, 1, Len(p)) = p
    BY <1>1, <1>2, SubSeqFull
  <2>3. l # Len(p)
    BY <2>1, <2>2
  <2>4. l \in Nat
    BY <1>2
  <2> HIDE DEF l, root
  <2>5. l < Len(p)
    BY <1>1, <2>1, <2>3, <2>4
  <2>6. QED
    BY <2>1, <2>2, <2>5
<1> HIDE DEF root, l
<1>4. /\ plain \in Seq(Normal) /\ plain # <<>> /\ plain[1] \in Normal
      /\ Canonicalize(base \o plain) = p
  <2>1. l \in 0 .. Len(p) /\ l + 1 <= Len(p) /\ l + 1 \in Int /\ Len(p) \in Int
        /\ \A i \in l + 1 .. Len(p) : p[i] \in Normal
    BY <1>1, <1>2, <1>3, ElementOfSeq
  <2>2. plain \in Seq(Normal) /\ Len(plain) = Len(p) - (l + 1) + 1
    BY <2>1, SubSeqProperties
  <2>3. Len(plain) \in Nat \ {0}
    BY <1>1, <1>2, <1>3, <2>2
  <2>4. Canonicalize(base \o plain) = p
    BY <1>3, <2>1, Reachable DEF root
  <2> HIDE DEF plain
  <2>5. plain # <<>> /\ plain[1] \in Normal
    BY <2>2, <2>3, EmptySeq, ElementOfSeq
  <2>6. QED
    BY <2>2, <2>4, <2>5
<1> HIDE DEF plain
<1>5. plain \in Seq(S) /\ plain[1] # Empty
  BY <1>4, SeqMonotonic DEF Normal, Empty
<1>6. Trimmed(plain) = plain /\ Trimmed(slash) = plain
  BY <1>4, <1>5, FromNamePlain, TrimmedIs
<1>7. <<Empty>> \in Seq(S) /\ slash \in Seq(S)
  <2>1. <<Empty>> \in Seq(S)
    OBVIOUS
  <2>2. QED
    BY <1>5, <2>1, ConcatProperties
<1>8. ~HasPathTraversal(plain) /\ ~HasPathTraversal(slash)
  <2>1. Len(plain) \in Nat /\ \A i \in 1 .. Len(plain) : plain[i] # NoName
    <3>1. Len(plain) \in Nat /\ \A i \in 1 .. Len(plain) : plain[i] \in Normal
      BY <1>4, LenProperties, ElementOfSeq
    <3>2. NoName \notin Normal
      BY DEF Normal, NoName
    <3>3. QED
      BY <3>1, <3>2
  <2>2. Len(<<Empty>>) = 1 /\ <<Empty>>[1] = Empty /\ <<Empty>> \in Seq(S)
    OBVIOUS
  <2>3. /\ Len(slash) = 1 + Len(plain)
        /\ \A i \in 1 .. 1 + Len(plain) : slash[i] = IF i <= 1 THEN <<Empty>>[i] ELSE plain[i - 1]
    BY <1>5, <2>2, ConcatProperties
  <2> HIDE DEF slash
  <2>4. Empty # NoName
    BY DEF Empty, NoName
  <2>5. \A i \in 1 .. Len(slash) : slash[i] # NoName
    BY <2>1, <2>2, <2>3, <2>4
  <2>6. QED
    BY <2>1, <2>5 DEF HasPathTraversal, Contains, NoName
<1> HIDE DEF slash
<1>9. Within(MountPoint(m), p) = p
  BY <1>1, <1>2 DEF Within, root
<1>10. Join(base, plain) = base \o plain
  BY <1>5, <1>6, JoinTrimmed
<1>11. ResolvePath(m, plain) = p /\ ResolvePath(m, slash) = p
  BY <1>4, <1>6, <1>8, <1>9, <1>10 DEF ResolvePath
<1>12. QED
  BY <1>11 DEF plain, slash, l, root

----------------------------------------------------------------------------
(* The properties, for all of them.                                        *)

\* None of the provers knows that "" is a string.
Text == STRING \cup {Empty}

LEMMA Texts == Empty \in Text /\ Normal \subseteq Text /\ Seq(STRING) \subseteq Seq(Text)
<1>1. STRING \subseteq Text /\ Empty \in Text
  BY DEF Text
<1>2. Normal \subseteq STRING
  BY DEF Normal
<1>3. QED
  BY <1>1, <1>2, SeqMonotonic

LEMMA MountPaths ==
  ASSUME NEW m, Mounts(m) # {}
  PROVE  MountPoint(m).path \in Seq(Text)
<1>1. DOMAIN MountEntries \subseteq Nat
  BY PathAssumption, LenProperties
<1>2. Mounts(m) \subseteq DOMAIN MountEntries
  BY DEF Mounts, MountPoints
<1>3. Min(Mounts(m)) \in DOMAIN MountEntries
  BY <1>1, <1>2, MinExists
<1>4. MountEntries[Min(Mounts(m))] \in [name : STRING, path : Seq(STRING)]
  BY <1>3, PathAssumption, LenProperties, ElementOfSeq
<1>5. QED
  BY <1>4, Texts DEF MountPoint

\* However requests spell a path, uploads write the file that downloads read, and
\* have its key unless the path is a link, in any tree.
THEOREM KeysAlwaysAgree ==
  ASSUME IsTree(tree)
  PROVE  KeysAgree
<1> SUFFICES ASSUME NEW m \in Mount, NEW s \in Spelling,
                    ResolvePath(m, s) # Failed, ResolveNewPath(m, s) # Failed
             PROVE  ResolvePath(m, s) = Target(ResolveNewPath(m, s))
  BY DEF KeysAgree, Written
<1>1. Mounts(m) # {}
  BY DEF ResolvePath
<1>2. MountPoint(m).path \in Seq(Text) /\ s \in Seq(Text)
  BY <1>1, MountPaths, PathAssumption, Texts
<1>3. QED
  BY <1>2, Texts, SameKey

\* Every file within a mount point can be reached by its plain path, in any tree.
THEOREM FilesAreAlwaysReachable ==
  ASSUME IsTree(tree)
  PROVE  FilesAreReachable
<1> SUFFICES ASSUME NEW m \in Mount, NEW p \in DOMAIN tree, Mounts(m) # {},
                    p # Canonicalize(MountPoint(m).path),
                    IsPrefix(Canonicalize(MountPoint(m).path), p), ~IsLink(p)
             PROVE  LET plain == SubSeq(p, Len(Canonicalize(MountPoint(m).path)) + 1, Len(p))
                    IN ResolvePath(m, plain) = p /\ ResolvePath(m, <<"">> \o plain) = p
  BY DEF FilesAreReachable
<1>1. MountPoint(m).path \in Seq(Text)
  BY MountPaths
<1>2. LET plain == SubSeq(p, Len(Canonicalize(MountPoint(m).path)) + 1, Len(p))
      IN ResolvePath(m, plain) = p /\ ResolvePath(m, <<Empty>> \o plain) = p
  BY <1>1, Texts, FileReached
<1>3. QED
  BY <1>2 DEF Empty

\* Whatever file name a client gives, an upload goes into the directory that its
\* path names or through a link in it, and is found there, in any tree.
THEOREM UploadsAlwaysStay ==
  ASSUME IsTree(tree)
  PROVE  UploadsStayInDirectory
<1> SUFFICES ASSUME NEW m \in Mount, NEW s \in Spelling, NEW raw \in FileName,
                    UploadPath(m, s, raw) # Failed, IsDir(Front(UploadPath(m, s, raw)))
             PROVE  LET p     == UploadPath(m, s, raw)
                        n     == Last(Components(raw))
                        entry == Append(ResolvePath(m, s), n)
                    IN /\ Target(p) = IF IsLink(entry) THEN tree[entry].to ELSE entry
                       /\ ResolvePath(m, Append(s, n)) \in {Failed, Target(p)}
  BY DEF UploadsStayInDirectory, Written
<1> DEFINE names == Components(raw)
           n     == Last(names)
<1>1. s \in Seq(Text) /\ raw \in Seq(Text)
  BY PathAssumption, Texts
<1>2. SanitizeFilename(raw) # <<NoName>> /\ UploadPath(m, s, raw) = ResolveNewPath(m, s \o SanitizeFilename(raw))
  BY DEF UploadPath
<1>3. names # <<>> /\ SanitizeFilename(raw) = <<n>>
  BY <1>2 DEF SanitizeFilename
<1>4. n \in Unskipped(Text)
  <2>1. names \in Seq(Unskipped(Text))
    BY <1>1, ComponentsResolve
  <2> HIDE DEF names
  <2>2. QED
    BY <1>3, <2>1, FrontThenLast
<1> HIDE DEF n
<1>5. ResolveNewPath(m, s \o <<n>>) # Failed /\ IsDir(Front(ResolveNewPath(m, s \o <<n>>)))
  BY <1>2, <1>3
<1>6. Mounts(m) # {}
  BY <1>5 DEF ResolveNewPath
<1>7. MountPoint(m).path \in Seq(Text)
  BY <1>6, MountPaths
<1>8. ResolveNewPath(m, s \o <<n>>) = Append(ResolvePath(m, s), n)
  BY <1>1, <1>4, <1>5, <1>7, Texts, UploadInPlace
<1>9. UploadPath(m, s, raw) = Append(ResolvePath(m, s), n)
  BY <1>2, <1>3, <1>8
<1>10. Append(s, n) = s \o <<n>> /\ Append(s, n) \in Seq(Text)
  <2>1. n \in Text
    BY <1>4 DEF Unskipped
  <2>2. QED
    BY <1>1, <2>1, AppendIsConcat, AppendProperties
<1>11. ResolvePath(m, Append(s, n)) # Failed
         => ResolvePath(m, Append(s, n)) = Target(UploadPath(m, s, raw))
  BY <1>5, <1>7, <1>8, <1>9, <1>10, Texts, SameKey
<1>12. QED
  BY <1>9, <1>11 DEF Target, n
=============================================================================
