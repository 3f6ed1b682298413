------------------------- MODULE ReadRequestsProofs -------------------------
(***************************************************************************)
(* Theorems about ReadRequests, for any files of any size that usize can   *)
(* hold, and any Range header.                                             *)
(***************************************************************************)
EXTENDS ReadRequests, PathResolutionProofs, FiniteSetTheorems

Sizes == 0 .. UsizeSize - 1

\* Only for an empty file size - 1 wraps around.
LEMMA WrappedSize ==
  ASSUME NEW size \in Sizes
  PROVE  Wrap(size - 1) = IF size = 0 THEN UsizeSize - 1 ELSE size - 1
  BY SizeAssumption DEF Sizes, Wrap

\* parse_range_header gives the bounds of the bytes that were asked for, and
\* gives nothing exactly when there are none.
LEMMA ParsedRange ==
  ASSUME NEW range \in Ranges, NEW size \in Sizes
  PROVE  LET part == ParseRange(range, size)
         IN IF part = <<>> THEN Wanted(range, size) = {}
            ELSE part[1] .. part[2] = Wanted(range, size) /\ Wanted(range, size) # {}
<1> DEFINE end == IF range.end = None THEN Wrap(size - 1) ELSE range.end
           part == ParseRange(range, size)
<1>1. /\ range.start = None \/ range.start \in Sizes
      /\ range.end = None \/ range.end \in Sizes
      /\ UsizeSize \in Nat
  BY OffsetAssumption, SizeAssumption DEF Ranges, Sizes
<1>2. end \in Sizes
  BY <1>1, WrappedSize DEF Sizes
<1>3. CASE range.start = None \/ range.start > end \/ range.start >= size
  <2>1. part = <<>>
    BY <1>3 DEF ParseRange
  <2>2. Wanted(range, size) = {}
    <3> SUFFICES ASSUME NEW i \in Wanted(range, size) PROVE FALSE
      OBVIOUS
    <3>1. i \in 0 .. size - 1 /\ range.start # None /\ range.start <= i
          /\ (range.end # None => i <= range.end)
      BY DEF Wanted
    <3>2. i <= end
      BY <1>1, <3>1, WrappedSize DEF Sizes
    <3> QED
      BY <1>1, <1>2, <1>3, <3>1, <3>2 DEF Sizes
  <2> QED
    BY <2>1, <2>2
<1>4. CASE ~(range.start = None \/ range.start > end \/ range.start >= size)
  <2>1. part = <<range.start, AtMost(end, Wrap(size - 1))>> /\ part # <<>>
    BY <1>4 DEF ParseRange
  <2>2. range.start \in Sizes /\ range.start <= end /\ range.start < size
    BY <1>1, <1>2, <1>4 DEF Sizes
  <2>3. Wrap(size - 1) = size - 1
    BY <2>2, WrappedSize DEF Sizes
  <2>4. part[1] = range.start /\ part[2] = IF end > size - 1 THEN size - 1 ELSE end
    BY <2>1, <2>3 DEF AtMost
  <2>5. ASSUME NEW i \in Int
        PROVE  i \in part[1] .. part[2] <=> i \in Wanted(range, size)
    <3>1. i \in Wanted(range, size) <=>
            /\ i \in 0 .. size - 1 /\ range.start <= i
            /\ range.end # None => i <= range.end
      BY <1>4 DEF Wanted
    <3>2. CASE range.end = None
      BY <1>1, <2>2, <2>3, <2>4, <3>1, <3>2 DEF Sizes
    <3>3. CASE range.end # None
      BY <1>1, <2>2, <2>4, <3>1, <3>3 DEF Sizes
    <3> QED
      BY <3>2, <3>3
  <2>6. part[1] .. part[2] = Wanted(range, size)
    <3>1. Wanted(range, size) \subseteq Int
      BY DEF Wanted
    <3>2. part[1] \in Int /\ part[2] \in Int
      BY <1>2, <2>2, <2>4 DEF Sizes
    <3> HIDE DEF part
    <3>3. part[1] .. part[2] \subseteq Int
      BY <3>2
    <3> QED
      BY <2>5, <3>1, <3>3
  <2>7. range.start \in part[1] .. part[2]
    BY <1>2, <2>2, <2>4 DEF Sizes
  <2> QED
    BY <2>1, <2>6, <2>7
<1> QED
  BY <1>3, <1>4

----------------------------------------------------------------------------
\* A request is a record with a Range header or none.
IsQuery(q) ==
  /\ q = [do |-> q.do, mount |-> q.mount, path |-> q.path, at |-> q.at,
          page |-> q.page, limit |-> q.limit, range |-> q.range, since |-> q.since]
  /\ q.range \in Ranges \cup {None}

RangeInv ==
  /\ \A p \in DOMAIN tree : tree[p].size \in Sizes
  /\ request # None => IsQuery(request)
  /\ walk # None => IsQuery(walk.query)
  /\ RangeIsExact

\* An answer without a range has nothing to be exact about.
LEMMA PlainAnswer == \A outcome : Answer(outcome).range = None
  BY DEF Answer

\* A request that is accepted has the range it was sent with.
LEMMA AskStep ==
  ASSUME RangeInv, NEW who, NEW r, IsQuery(r), NEW w, w = None \/ w = walk, Ask(who, r, w)
  PROVE  RangeInv'
<1> DEFINE at == ResolvePath(r.mount, r.path)
           q  == [r EXCEPT !.at = at]
<1>1. IsQuery(q)
  BY DEF IsQuery
<1>2. tree' = tree
  BY DEF Ask
<1> HIDE DEF at
<1>3. \/ request' = q /\ walk' = w /\ answer' = None
      \/ request' = request /\ walk' = None /\ \E o : answer' = Answer(o)
  BY DEF Ask, at
<1> HIDE DEF q
<1>4. answer' # None => answer'.range = None
  BY <1>3, PlainAnswer
<1> QED
  BY <1>1, <1>2, <1>3, <1>4 DEF RangeInv, RangeIsExact

LEMMA RangeStep == RangeInv /\ [Next]_vars => RangeInv'
<1> SUFFICES ASSUME RangeInv, [Next]_vars PROVE RangeInv'
  OBVIOUS
<1>1. ASSUME NEW who \in Who, NEW m \in Mount, NEW s \in AskedPath, NEW p \in Page, NEW l \in Limit,
             Ask(who, Request("list", m, s, p, l, None), None)
      PROVE  RangeInv'
  <2>1. IsQuery(Request("list", m, s, p, l, None))
    BY DEF IsQuery, Request
  <2> QED
    BY <1>1, <2>1, AskStep
<1>2. ASSUME NEW who \in Who, NEW m \in Mount, NEW s \in AskedPath, NEW r \in Ranges \cup {None},
             Ask(who, Request("download", m, s, 0, 0, r), None)
      PROVE  RangeInv'
  <2>1. IsQuery(Request("download", m, s, 0, 0, r))
    BY DEF IsQuery, Request
  <2> QED
    BY <1>2, <2>1, AskStep
<1>3. ASSUME NEW who \in Who, NextPage(who) PROVE RangeInv'
  <2> DEFINE q == [walk.query EXCEPT !.page = walk.last + 1]
  <2>1. walk # None /\ Ask(who, q, walk)
    BY <1>3 DEF NextPage
  <2>2. IsQuery(walk.query)
    BY <2>1 DEF RangeInv
  <2>3. IsQuery(q)
    BY <2>2 DEF IsQuery
  <2> QED
    BY <2>1, <2>3, AskStep
<1>4. ASSUME Fails PROVE RangeInv'
  BY <1>4, PlainAnswer DEF Fails, Ends, RangeInv, RangeIsExact
<1>5. ASSUME UNCHANGED <<tree, request, walk, answer>> PROVE RangeInv'
  BY <1>5 DEF RangeInv, RangeIsExact
<1>6. CASE ReadDir
  BY <1>4, <1>5, <1>6 DEF ReadDir
<1>7. ASSUME NEW n, ReadEntry(n) \/ SkipEntry(n) PROVE RangeInv'
  BY <1>4, <1>5, <1>7 DEF ReadEntry, SkipEntry, Gone
<1>8. CASE GivePage
  <2>1. request # None /\ walk'.query = request /\ tree' = tree /\ request' = None
        /\ answer' = Answer("Ok")
    BY <1>8 DEF GivePage, Scans, Lists, Idle, Ends
  <2> QED
    BY <2>1, PlainAnswer DEF RangeInv, RangeIsExact
<1>9. CASE Download
  <2> DEFINE file == Target(request.at)
             size == tree[file].size
             part == ParseRange(request.range, size)
  <2>1. CASE ~Exists(file) \/ IsDir(file)
    BY <1>4, <1>9, <2>1 DEF Download
  <2>2. CASE Exists(file) /\ ~IsDir(file)
    <3>1. request # None /\ tree' = tree /\ request' = None /\ walk' = walk
      BY <1>9, <2>2 DEF Download, Ends, Idle
    <3>2. size \in Sizes
      BY <2>2 DEF RangeInv, Exists
    <3>3. request.range = None \/ request.range \in Ranges
      BY <3>1 DEF RangeInv, IsQuery
    <3>4. answer' = CASE request.range = None ->
                           [status |-> StatusOf["Ok"], size |-> size, range |-> request.range, body |-> 0 .. size - 1]
                      [] part = <<>> ->
                           [status |-> StatusOf["RangeNotSatisfiable"], size |-> size, range |-> request.range, body |-> {}]
                      [] OTHER ->
                           [status |-> StatusOf["PartialContent"], size |-> size, range |-> request.range,
                            body |-> part[1] .. part[2]]
      BY <1>9, <2>2 DEF Download, Ends
    <3>5. CASE request.range = None
      <4>1. answer'.range = None
        BY <3>4, <3>5
      <4> QED
        BY <3>1, <4>1 DEF RangeInv, RangeIsExact
    <3>6. CASE request.range # None
      <4> HIDE DEF size, part
      <4>1. /\ answer'.range = request.range /\ answer'.size = size
            /\ answer'.body = IF part = <<>> THEN {} ELSE part[1] .. part[2]
            /\ answer'.status = IF part = <<>> THEN 416 ELSE 206
        BY <3>4, <3>6 DEF StatusOf
      <4>2. IF part = <<>> THEN Wanted(request.range, size) = {}
            ELSE part[1] .. part[2] = Wanted(request.range, size) /\ Wanted(request.range, size) # {}
        BY <3>2, <3>3, <3>6, ParsedRange DEF part
      <4>3. RangeIsExact'
        BY <4>1, <4>2 DEF RangeIsExact
      <4> QED
        BY <3>1, <4>3 DEF RangeInv
    <3> QED
      BY <3>5, <3>6
  <2> QED
    BY <2>1, <2>2
<1>10. ASSUME NEW p \in Leaf, Change(p) PROVE RangeInv'
  <2>1. UNCHANGED <<request, walk, answer>>
    BY <1>10 DEF Change
  <2>2. \/ \E node \in LeafNode : tree' = Put(p, node)
        \/ tree' = Cut(p)
    BY <1>10 DEF Change
  <2>3. \A x \in DOMAIN tree' : tree'[x].size \in Sizes
    BY <2>2, TreeAssumption DEF RangeInv, Put, Cut, Sizes
  <2> QED
    BY <2>1, <2>3 DEF RangeInv, RangeIsExact
<1>11. CASE UNCHANGED vars
  BY <1>5, <1>11 DEF vars
<1>12. CASE OperationFails
  BY <1>4, <1>12 DEF OperationFails
<1> QED
  BY <1>1, <1>2, <1>3, <1>6, <1>7, <1>8, <1>9, <1>10, <1>11, <1>12 DEF Next

\* Whatever range is asked of a file of whatever size, the answer has exactly the
\* bytes that were asked for, or is a refusal when there are none.
THEOREM RangesAreExact == Spec => []RangeIsExact
<1>1. Init => RangeInv
  BY TreeAssumption DEF Init, RangeInv, RangeIsExact, Sizes
<1>2. RangeInv => RangeIsExact
  BY DEF RangeInv
<1> QED
  BY <1>1, <1>2, RangeStep, PTL DEF Spec

----------------------------------------------------------------------------
(* Listings.  What is in the directory now has been there at some time; what  *)
(* always was there is there now.                                             *)

Has(s) == {e.name : e \in s.got}

IsScan(s) ==
  s = [dir |-> s.dir, todo |-> s.todo, got |-> s.got,
       ever |-> s.ever, always |-> s.always]

ScanInv ==
  scan # None =>
    /\ Lists /\ IsScan(scan)
    /\ scan.got \subseteq scan.ever
    /\ scan.always \subseteq scan.todo \cup Has(scan)
    /\ Entries(tree, scan.dir) \subseteq scan.ever
    /\ scan.always \subseteq Names(tree, scan.dir)

\* read_dir has opened d.
Opened(d) ==
  [dir |-> d, todo |-> Names(tree, d), got |-> {}, ever |-> Entries(tree, d),
   always |-> Names(tree, d)]

LEMMA ScanStep == ScanInv /\ [Next]_vars => ScanInv'
<1> SUFFICES ASSUME ScanInv, [Next]_vars PROVE ScanInv'
  OBVIOUS
<1>1. ASSUME NEW who, NEW r, NEW w, Ask(who, r, w) PROVE ScanInv'
  BY <1>1 DEF Ask, Idle, Lists, ScanInv
<1>2. ASSUME NEW who \in Who, NextPage(who) PROVE ScanInv'
  BY <1>1, <1>2 DEF NextPage
<1>3. ASSUME scan' = None PROVE ScanInv'
  BY <1>3 DEF ScanInv
<1>4. CASE ReadDir
  <2> DEFINE d == Target(request.at)
  <2>1. CASE ~IsDir(d)
    BY <1>3, <1>4, <2>1 DEF ReadDir, Fails, Ends
  <2>2. CASE IsDir(d)
    <3>1. scan' = Opened(d) /\ tree' = tree /\ request' = request /\ Lists
      BY <1>4, <2>2 DEF ReadDir, Opened
    <3> QED
      BY <3>1 DEF ScanInv, IsScan, Opened, Lists, Idle, Entries, Names
  <2> QED
    BY <2>1, <2>2
<1>5. ASSUME NEW n \in ToSet(NameOrder), ReadEntry(n) PROVE ScanInv'
  <2> DEFINE e == [name |-> n, is_dir |-> IsDir(Append(scan.dir, n))]
  <2>1. CASE ~Exists(Append(scan.dir, n))
    BY <1>3, <1>5, <2>1 DEF ReadEntry, Gone, Fails, Ends
  <2>2. CASE Exists(Append(scan.dir, n))
    <3>1. /\ scan # None /\ UNCHANGED <<tree, request>>
          /\ scan' = [scan EXCEPT !.todo = @ \ {n}, !.got = @ \cup {e}]
      BY <1>5, <2>2 DEF ReadEntry, Scans
    <3>2. e \in Entries(tree, scan.dir) /\ e.name = n
      BY <2>2 DEF Entries, Names, Exists, IsDir
    <3> HIDE DEF e
    <3>3. /\ IsScan(scan') /\ scan'.dir = scan.dir
          /\ scan'.ever = scan.ever /\ scan'.always = scan.always
          /\ scan'.todo = scan.todo \ {n} /\ scan'.got = scan.got \cup {e}
      BY <3>1 DEF ScanInv, IsScan
    <3>4. Has(scan') = Has(scan) \cup {n}
      BY <3>2, <3>3 DEF Has
    <3> QED
      BY <3>1, <3>2, <3>3, <3>4 DEF ScanInv, Lists, Idle
  <2> QED
    BY <2>1, <2>2
<1>6. ASSUME NEW n \in ToSet(NameOrder), SkipEntry(n) PROVE ScanInv'
  BY <1>6 DEF SkipEntry, Scans, ScanInv, IsScan, Has, Lists, Idle
<1>7. CASE GivePage
  BY <1>3, <1>7 DEF GivePage, Ends
<1>8. CASE Download
  BY <1>3, <1>8 DEF Download, Fails, Ends
<1>11. CASE OperationFails
  BY <1>3, <1>11 DEF OperationFails, Fails, Ends
<1>9. ASSUME NEW p \in Leaf, Change(p) PROVE ScanInv'
  <2>1. CASE scan = None
    BY <1>3, <1>9, <2>1 DEF Change
  <2>2. CASE scan # None
    <3>1. /\ scan' = [scan EXCEPT !.ever = @ \cup Entries(tree', scan.dir),
                                  !.always = @ \cap Names(tree', scan.dir)]
          /\ request' = request
      BY <1>9, <2>2 DEF Change
    <3> QED
      BY <2>2, <3>1 DEF ScanInv, IsScan, Has, Lists, Idle
  <2> QED
    BY <2>1, <2>2
<1>10. CASE UNCHANGED vars
  BY <1>10 DEF vars, ScanInv, IsScan, Has, Lists, Idle
<1> QED
  BY <1>1, <1>2, <1>4, <1>5, <1>6, <1>7, <1>8, <1>9, <1>10, <1>11 DEF Next

LEMMA ScanInvariant == Spec => []ScanInv
<1>1. Init => ScanInv
  BY DEF Init, ScanInv
<1> QED
  BY <1>1, ScanStep, PTL DEF Spec

\* However the directory changes while it is read, a listing shows nothing that
\* never was there, and leaves out nothing that always was.
THEOREM ListingsAreHonest == Spec => []ListingIsHonest
<1>1. ScanInv => ListingIsHonest
  BY DEF ScanInv, ListingIsHonest, Has
<1> QED
  BY <1>1, ScanInvariant, PTL

----------------------------------------------------------------------------
(* The files.  Whatever other processes do to them, they stay a tree; what    *)
(* PathResolution promises for every tree is so in every state.               *)

\* The directories above a path that may be changed are there, and the path is
\* above no other.
LEMMA ChangeAtLeaf ==
  ASSUME IsTree(tree), NEW p \in Seq(Normal), p # <<>>, IsDir(Front(p)),
         \A q \in DOMAIN tree : ~IsStrictPrefix(p, q)
  PROVE  /\ \A k \in 0 .. Len(p) - 1 : IsDir(SubSeq(p, 1, k)) /\ SubSeq(p, 1, k) # p
         /\ \A q \in DOMAIN tree : \A k \in 0 .. Len(q) - 1 :
              IsDir(SubSeq(q, 1, k)) /\ SubSeq(q, 1, k) # p
<1>1. Len(p) \in Nat \ {0} /\ Front(p) \in DOMAIN tree /\ Front(p) = SubSeq(p, 1, Len(p) - 1)
  BY EmptySeq DEF IsDir, Exists, Front
<1>2. ASSUME NEW k \in 0 .. Len(p) - 1 PROVE IsDir(SubSeq(p, 1, k)) /\ SubSeq(p, 1, k) # p
  <2>1. Len(SubSeq(p, 1, k)) = k /\ Len(Front(p)) = Len(p) - 1
    <3>1. k \in 0 .. Len(p) /\ Len(p) - 1 \in 0 .. Len(p)
      BY <1>1
    <3>2. \A i \in 0 .. Len(p) : Len(SubSeq(p, 1, i)) = i
      BY Beginnings
    <3>3. QED
      BY <1>1, <3>1, <3>2
  <2>2. CASE k = Len(p) - 1
    BY <1>1, <2>1, <2>2
  <2>3. CASE k \in 0 .. Len(p) - 2
    <3>1. k \in 0 .. Len(Front(p)) - 1
      BY <1>1, <2>1, <2>3
    <3>2. IsDir(SubSeq(Front(p), 1, k))
      BY <1>1, <3>1 DEF IsTree, IsDir, Exists
    <3>3. SubSeq(Front(p), 1, k) = SubSeq(p, 1, k)
      <4>1. CASE k = 0
        BY <4>1, SubSeqEmpty
      <4>2. CASE k # 0
        <5>1. /\ 1 \in 1 .. Len(p) /\ Len(p) - 1 \in 1 .. Len(p)
              /\ 1 \in 1 .. (Len(p) - 1) - 1 + 1 /\ k \in 1 .. (Len(p) - 1) - 1 + 1
              /\ 1 + 1 - 1 = 1 /\ 1 + k - 1 = k
          BY <1>1, <2>3, <4>2
        <5> DEFINE j == Len(p) - 1
        <5>2. SubSeq(SubSeq(p, 1, j), 1, k) = SubSeq(p, 1 + 1 - 1, 1 + k - 1)
          <6> HIDE DEF j
          <6>1. j \in 1 .. Len(p) /\ 1 \in 1 .. j - 1 + 1 /\ k \in 1 .. j - 1 + 1
            BY <5>1 DEF j
          <6>2. QED
            BY <5>1, <6>1, SubSeqOfSubSeq
        <5>3. QED
          BY <1>1, <5>1, <5>2
      <4>3. QED
        BY <4>1, <4>2
    <3>4. k # Len(p)
      BY <1>1
    <3>5. QED
      BY <2>1, <3>2, <3>3, <3>4
  <2>4. QED
    BY <1>1, <2>2, <2>3
<1>3. ASSUME NEW q \in DOMAIN tree, NEW k \in 0 .. Len(q) - 1
      PROVE  IsDir(SubSeq(q, 1, k)) /\ SubSeq(q, 1, k) # p
  <2>1. q \in Seq(Normal) /\ IsDir(SubSeq(q, 1, k))
    BY DEF IsTree, IsDir, Exists
  <2>2. ASSUME SubSeq(q, 1, k) = p PROVE FALSE
    <3>1. Len(q) \in Nat /\ k \in 0 .. Len(q) /\ k # Len(q) /\ k <= Len(q)
      BY <2>1, LenProperties
    <3>2. Len(p) = k
      BY <2>1, <2>2, <3>1, Beginnings
    <3>3. SubSeq(p, 1, Len(p)) = p
      BY SubSeqFull
    <3>4. IsStrictPrefix(p, q)
      BY <2>2, <3>1, <3>2, <3>3 DEF IsStrictPrefix, IsPrefix
    <3>5. QED
      BY <3>4
  <2>3. QED
    BY <2>1, <2>2
<1>4. QED
  BY <1>2, <1>3

LEMMA TreeStep == IsTree(tree) /\ [Next]_vars => IsTree(tree)'
<1> SUFFICES ASSUME IsTree(tree), [Next]_vars PROVE IsTree(tree')
  OBVIOUS
<1>1. CASE tree' = tree
  BY <1>1
<1>2. ASSUME NEW p \in Leaf, Change(p) PROVE IsTree(tree')
  <2>1. p \in Seq(Normal) /\ p # <<>> /\ IsDir(Front(p)) /\ \A q \in DOMAIN tree : ~IsStrictPrefix(p, q)
    BY <1>2, TreeAssumption DEF Change
  <2>2. /\ \A k \in 0 .. Len(p) - 1 : IsDir(SubSeq(p, 1, k)) /\ SubSeq(p, 1, k) # p
        /\ \A q \in DOMAIN tree : \A k \in 0 .. Len(q) - 1 :
             IsDir(SubSeq(q, 1, k)) /\ SubSeq(q, 1, k) # p
    BY <2>1, ChangeAtLeaf
  <2>3. \/ \E node \in LeafNode : tree' = Put(p, node)
        \/ tree' = Cut(p)
    BY <1>2 DEF Change
  <2>4. /\ DOMAIN tree' \subseteq DOMAIN tree \cup {p}
        /\ \A q \in DOMAIN tree \ {p} : q \in DOMAIN tree' /\ tree'[q] = tree[q]
    BY <2>3 DEF Put, Cut
  <2>5. ASSUME NEW q \in DOMAIN tree'
        PROVE  /\ q \in Seq(Normal)
               /\ \A k \in 0 .. Len(q) - 1 : /\ SubSeq(q, 1, k) \in DOMAIN tree'
                                            /\ tree'[SubSeq(q, 1, k)].kind = "dir"
    <3>1. q \in Seq(Normal)
      BY <2>1, <2>4 DEF IsTree
    <3>2. \A k \in 0 .. Len(q) - 1 : IsDir(SubSeq(q, 1, k)) /\ SubSeq(q, 1, k) # p
      BY <2>2, <2>4
    <3>3. QED
      BY <2>4, <3>1, <3>2 DEF IsDir, Exists
  <2>6. QED
    BY <2>5 DEF IsTree
<1>3. ASSUME NEW who, NEW r, NEW w, Ask(who, r, w) PROVE tree' = tree
  BY <1>3 DEF Ask
<1>4. ASSUME NEW who, NextPage(who) PROVE tree' = tree
  BY <1>3, <1>4 DEF NextPage
<1>5. ASSUME NEW n, ReadEntry(n) \/ SkipEntry(n) PROVE tree' = tree
  BY <1>5 DEF ReadEntry, SkipEntry, Gone, Fails, Ends
<1>6. ReadDir \/ GivePage \/ Download \/ OperationFails \/ UNCHANGED vars => tree' = tree
  BY DEF ReadDir, GivePage, Download, OperationFails, Fails, Ends, vars
<1>7. QED
  BY <1>1, <1>2, <1>3, <1>4, <1>5, <1>6 DEF Next

\* Other processes keep the files a tree.
LEMMA TreeInvariant == Spec => []IsTree(tree)
<1>1. Init => IsTree(tree)
  BY TreeAssumption DEF Init
<1>2. QED
  BY <1>1, TreeStep, PTL DEF Spec

\* However requests spell a path, uploads write the file that downloads read, and
\* have its key unless the path is a link, in every tree that other processes make.
THEOREM FilesHaveOneKey == Spec => [](KeysAgree /\ OneKeyForAFile)
<1>1. IsTree(tree) => KeysAgree /\ OneKeyForAFile
  BY KeysAlwaysAgree DEF OneKeyForAFile
<1>2. QED
  BY <1>1, TreeInvariant, PTL

\* Every file within a mount point can always be reached by its plain path.
THEOREM FilesCanBeReached == Spec => [](FilesAreReachable /\ EveryFileIsReachable)
<1>1. IsTree(tree) => FilesAreReachable /\ EveryFileIsReachable
  BY FilesAreAlwaysReachable DEF EveryFileIsReachable
<1>2. QED
  BY <1>1, TreeInvariant, PTL

\* An upload always goes into the directory that its path names or through a link
\* in it, whatever file name comes with it, and is found there.
THEOREM UploadsGoWhereTheySay == Spec => [](UploadsStayInDirectory /\ UploadsKeepTheirDirectory)
<1>1. IsTree(tree) => UploadsStayInDirectory /\ UploadsKeepTheirDirectory
  BY UploadsAlwaysStay DEF UploadsKeepTheirDirectory
<1>2. QED
  BY <1>1, TreeInvariant, PTL

----------------------------------------------------------------------------
(* Pages.  First what they are made of.                                    *)

LEMMA NamesFinite == IsFiniteSet(ToSet(NameOrder))
<1>1. NameOrder \in [1 .. Len(NameOrder) -> ToSet(NameOrder)] /\ Len(NameOrder) \in Nat
  BY OrderAssumption, LenProperties
<1>2. NameOrder \in Surjection(1 .. Len(NameOrder), ToSet(NameOrder))
  BY <1>1 DEF Surjection, ToSet
<1>3. QED
  BY <1>1, <1>2, FS_NatSurjection DEF ExistsSurjection

\* The names that do not come after one, and how they grow along the order.
LEMMA Ranks ==
  ASSUME NEW names \in SUBSET ToSet(NameOrder)
  PROVE  LET below(n) == {m \in names : NotAfter(m, n)}
             rank(n) == Cardinality(below(n))
         IN /\ Cardinality(names) \in Nat /\ IsFiniteSet(names)
            /\ \A n \in names : rank(n) \in 1 .. Cardinality(names)
            /\ \A m, n \in names : m # n => \/ NotAfter(m, n) /\ rank(m) < rank(n)
                                            \/ NotAfter(n, m) /\ rank(n) < rank(m)
<1> DEFINE below(n) == {m \in names : NotAfter(m, n)}
           rank(n) == Cardinality(below(n))
           len == Len(NameOrder)
           Pos == 1 .. len
<1>1. IsFiniteSet(names) /\ Cardinality(names) \in Nat
  BY NamesFinite, FS_Subset, FS_CardinalityType
<1>2. /\ len \in Nat /\ DOMAIN NameOrder = Pos
      /\ \A i, j \in Pos : NameOrder[i] = NameOrder[j] => i = j
  BY OrderAssumption, LenProperties DEF IsInjective
<1>3. \A n \in names : \E i \in Pos : NameOrder[i] = n
  BY <1>2 DEF ToSet
<1>4. \A i, j \in Pos : NotAfter(NameOrder[i], NameOrder[j]) <=> i <= j
  BY <1>2 DEF NotAfter
<1>5. \A n \in names : n \in below(n)
  BY <1>2, <1>3, <1>4
<1>6. ASSUME NEW n \in names
      PROVE  /\ IsFiniteSet(below(n)) /\ rank(n) \in Nat
             /\ rank(n) \in 1 .. Cardinality(names)
  <2>1. below(n) \subseteq names /\ below(n) # {}
    BY <1>5
  <2> HIDE DEF below
  <2>2. /\ IsFiniteSet(below(n)) /\ Cardinality(below(n)) \in Nat
        /\ Cardinality(below(n)) <= Cardinality(names)
        /\ Cardinality(below(n)) # 0
    BY <1>1, <2>1, FS_Subset, FS_CardinalityType, FS_EmptySet
  <2>3. QED
    BY <1>1, <2>2
<1>7. ASSUME NEW m \in names, NEW n \in names, NEW i \in Pos, NEW j \in Pos,
             m = NameOrder[i], n = NameOrder[j], i < j
      PROVE  NotAfter(m, n) /\ rank(m) < rank(n)
  <2>1. NotAfter(m, n) /\ ~NotAfter(n, m)
    BY <1>2, <1>4, <1>7
  <2>2. below(m) \subseteq below(n)
    <3> SUFFICES ASSUME NEW x \in below(m) PROVE NotAfter(x, n)
      OBVIOUS
    <3>1. PICK k \in Pos : x = NameOrder[k]
      BY <1>3
    <3>2. k <= i
      BY <1>4, <1>7, <3>1
    <3>3. k <= j
      BY <1>2, <1>7, <3>2
    <3>4. QED
      BY <1>4, <1>7, <3>1, <3>3
  <2>3. n \in below(n) /\ n \notin below(m)
    BY <1>5, <2>1
  <2>4. /\ IsFiniteSet(below(n)) /\ rank(n) \in Nat /\ rank(m) \in Nat
    BY <1>6
  <2> HIDE DEF below
  <2>5. Cardinality(below(m)) <= Cardinality(below(n)) /\ Cardinality(below(n)) # Cardinality(below(m))
    BY <2>2, <2>3, <2>4, FS_Subset
  <2>6. QED
    BY <2>1, <2>4, <2>5
<1>8. ASSUME NEW m \in names, NEW n \in names, m # n
      PROVE  \/ NotAfter(m, n) /\ rank(m) < rank(n)
             \/ NotAfter(n, m) /\ rank(n) < rank(m)
  <2>1. PICK i \in Pos : m = NameOrder[i]
    BY <1>3
  <2>2. PICK j \in Pos : n = NameOrder[j]
    BY <1>3
  <2>3. i < j \/ j < i
    BY <1>2, <1>8, <2>1, <2>2
  <2> HIDE DEF rank
  <2>4. QED
    BY <1>7, <2>1, <2>2, <2>3
<1> HIDE DEF rank
<1>9. /\ \A n \in names : rank(n) \in 1 .. Cardinality(names)
      /\ \A m, n \in names : m # n => \/ NotAfter(m, n) /\ rank(m) < rank(n)
                                      \/ NotAfter(n, m) /\ rank(n) < rank(m)
  BY <1>6, <1>8
<1>10. QED
  BY <1>1, <1>9 DEF rank

\* A sorted listing has every name once, in the order of the names.
LEMMA SortedIsSorted ==
  ASSUME NEW names \in SUBSET ToSet(NameOrder)
  PROVE  LET seq == Sorted(names)
         IN /\ seq \in Seq(names) /\ Len(seq) = Cardinality(names)
            /\ ToSet(seq) = names
            /\ \A i, j \in 1 .. Len(seq) : i < j => seq[i] # seq[j] /\ NotAfter(seq[i], seq[j])
<1> DEFINE below(n) == {m \in names : NotAfter(m, n)}
           rank(n) == Cardinality(below(n))
           count == Cardinality(names)
           seq == Sorted(names)
           f == [n \in names |-> rank(n)]
           T == {f[n] : n \in names}
<1>1. /\ count \in Nat /\ IsFiniteSet(names)
      /\ \A n \in names : rank(n) \in 1 .. count
      /\ \A m, n \in names : m # n => \/ NotAfter(m, n) /\ rank(m) < rank(n)
                                      \/ NotAfter(n, m) /\ rank(n) < rank(m)
  BY Ranks
<1>2. seq = [i \in 1 .. count |-> CHOOSE n \in names : rank(n) = i]
  BY DEF Sorted
<1> HIDE DEF rank, count, seq
<1>3. \A m, n \in names : rank(m) = rank(n) => m = n
  BY <1>1
<1>4. f \in Surjection(names, T) /\ f \in Injection(names, T)
  BY <1>3 DEF Surjection, Injection, IsInjective
<1>5. T \subseteq 1 .. count /\ \A k \in T : \E n \in names : rank(n) = k
  BY <1>1
<1> HIDE DEF f, T
<1>6. Cardinality(T) = count
  BY <1>1, <1>4, FS_Surjection DEF count
<1>7. IsFiniteSet(1 .. count) /\ Cardinality(1 .. count) = count
  BY <1>1, FS_Interval
<1>8. T = 1 .. count
  BY <1>5, <1>6, <1>7, FS_Subset
<1>9. ASSUME NEW i \in 1 .. count PROVE seq[i] \in names /\ rank(seq[i]) = i
  <2>1. \E n \in names : rank(n) = i
    BY <1>5, <1>8
  <2>2. seq[i] = CHOOSE n \in names : rank(n) = i
    BY <1>2
  <2>3. QED
    BY <2>1, <2>2
<1>10. \A n \in names : rank(n) \in 1 .. count /\ seq[rank(n)] = n
  BY <1>1, <1>3, <1>9
<1>11. seq \in [1 .. count -> names]
  BY <1>2, <1>9
<1>12. seq \in Seq(names) /\ Len(seq) = count /\ DOMAIN seq = 1 .. count
  BY <1>1, <1>11, SeqDef, LenProperties
<1>13. ToSet(seq) = names
  BY <1>9, <1>10, <1>12 DEF ToSet
<1>14. ASSUME NEW i \in 1 .. count, NEW j \in 1 .. count, i < j
       PROVE  seq[i] # seq[j] /\ NotAfter(seq[i], seq[j])
  <2>1. rank(seq[i]) = i /\ rank(seq[j]) = j /\ seq[i] \in names /\ seq[j] \in names
    BY <1>9
  <2>2. seq[i] # seq[j] /\ ~(rank(seq[j]) < rank(seq[i]))
    BY <1>1, <1>14, <2>1
  <2>3. QED
    BY <1>1, <2>1, <2>2
<1>15. QED
  BY <1>12, <1>13, <1>14 DEF seq, count

\* Arithmetic of pages.
LEMMA PageBounds ==
  ASSUME NEW page \in Nat \ {0}, NEW limit \in Nat \ {0}, NEW first \in 1 .. page
  PROVE  /\ (page - 1) * limit \in Nat /\ page * limit \in Nat
         /\ (page - 1) * limit + limit = page * limit
         /\ (page - 1) * limit < page * limit
         /\ (first - 1) * limit \in Nat /\ (first - 1) * limit <= (page - 1) * limit
<1>1. \A a, b \in Nat : a * b \in Nat
  OBVIOUS
<1>2. \A a, b, c \in Nat : a <= b => a * c <= b * c
  OBVIOUS
<1>3. page - 1 \in Nat /\ first - 1 \in Nat /\ first - 1 <= page - 1
  OBVIOUS
<1>4. (page - 1) * limit + limit = page * limit
  OBVIOUS
<1>5. (page - 1) * limit \in Nat /\ page * limit \in Nat /\ (first - 1) * limit \in Nat
  BY <1>1, <1>3
<1>6. (first - 1) * limit <= (page - 1) * limit
  BY <1>2, <1>3
<1>7. QED
  BY <1>4, <1>5, <1>6

\* Within usize nothing wraps around: the page is where it should be, and there
\* is more exactly if the listing goes on behind it.
LEMMA PageInRange ==
  ASSUME NEW page \in Nat \ {0}, NEW limit \in Nat \ {0}, page * limit < UsizeSize,
         NEW names, Len(names) \in Nat
  PROVE  /\ Start(page, limit) = (page - 1) * limit
         /\ HasMore(page, limit, Len(names)) <=> page * limit < Len(names)
         /\ PageOf(names, page, limit) =
              SubSeq(names, AtMost((page - 1) * limit, Len(names)) + 1, AtMost(page * limit, Len(names)))
<1>1. /\ (page - 1) * limit \in Nat /\ page * limit \in Nat
      /\ (page - 1) * limit + limit = page * limit
      /\ (page - 1) * limit < page * limit
  BY PageBounds
<1>2. \A n \in Nat : n < UsizeSize => Wrap(n) = n
  BY SizeAssumption DEF Wrap
<1>3. UsizeSize \in Nat
  BY SizeAssumption
<1> DEFINE a == (page - 1) * limit
           b == page * limit
<1>4. a \in Nat /\ b \in Nat /\ a < UsizeSize /\ b < UsizeSize /\ a + limit = b
  BY <1>1, <1>3
<1>5. Start(page, limit) = a
  BY <1>2, <1>4 DEF Start
<1> HIDE DEF a, b
<1>6. Wrap(b) = b
  BY <1>2, <1>4
<1>7. QED
  BY <1>4, <1>5, <1>6 DEF HasMore, PageOf, a, b

\* The first page of a walk ...
LEMMA FirstPage ==
  ASSUME NEW page \in Nat \ {0}, NEW limit \in Nat \ {0}, page * limit < UsizeSize,
         NEW S, NEW names \in Seq(S)
  PROVE  <<>> \o PageOf(names, page, limit) =
           SubSeq(names, (page - 1) * limit + 1, AtMost(page * limit, Len(names)))
<1> DEFINE a == (page - 1) * limit
           b == page * limit
           len == Len(names)
<1>1. a \in Nat /\ b \in Nat /\ a < b
  BY PageBounds
<1>2. len \in Nat /\ DOMAIN names = 1 .. len /\ \A i \in 1 .. len : names[i] \in S
  BY LenProperties
<1>3. PageOf(names, page, limit) = SubSeq(names, AtMost(a, len) + 1, AtMost(b, len))
  BY <1>2, PageInRange
<1> HIDE DEF a, b, len
<1>4. AtMost(a, len) + 1 \in 1 .. len + 1 /\ AtMost(b, len) \in 0 .. len
  BY <1>1, <1>2 DEF AtMost
<1>5. SubSeq(names, AtMost(a, len) + 1, AtMost(b, len)) = SubSeq(names, a + 1, AtMost(b, len))
  <2>1. CASE a <= len
    BY <1>1, <1>2, <2>1 DEF AtMost
  <2>2. CASE a > len
    <3>1. AtMost(a, len) = len /\ AtMost(b, len) = len
      BY <1>1, <1>2, <2>2 DEF AtMost
    <3>2. len + 1 \in Int /\ a + 1 \in Int /\ len < len + 1 /\ len < a + 1 /\ len \in Int
      BY <1>1, <1>2, <2>2
    <3>3. SubSeq(names, len + 1, len) = <<>> /\ SubSeq(names, a + 1, len) = <<>>
      BY <3>2, SubSeqEmpty
    <3>4. QED
      BY <3>1, <3>3
  <2>3. a <= len \/ a > len
    BY <1>1, <1>2
  <2>4. QED
    BY <2>1, <2>2, <2>3
<1>6. SubSeq(names, AtMost(a, len) + 1, AtMost(b, len)) \in Seq(S)
  <2>1. \A i \in AtMost(a, len) + 1 .. AtMost(b, len) : names[i] \in S
    BY <1>2, <1>4
  <2>2. AtMost(a, len) + 1 \in Int /\ AtMost(b, len) \in Int
    BY <1>2, <1>4
  <2>3. QED
    BY <2>1, <2>2, SubSeqProperties
<1>7. QED
  BY <1>3, <1>5, <1>6, ConcatEmptySeq DEF a, b, len

\* ... and a further one.
LEMMA NextOfPages ==
  ASSUME NEW page \in Nat \ {0}, NEW limit \in Nat \ {0}, page * limit < UsizeSize,
         NEW first \in 1 .. page,
         NEW S, NEW names \in Seq(S), (page - 1) * limit < Len(names)
  PROVE  SubSeq(names, (first - 1) * limit + 1, AtMost((page - 1) * limit, Len(names)))
             \o PageOf(names, page, limit)
           = SubSeq(names, (first - 1) * limit + 1, AtMost(page * limit, Len(names)))
<1> DEFINE z == (first - 1) * limit
           a == (page - 1) * limit
           b == page * limit
           len == Len(names)
<1>1. a \in Nat /\ b \in Nat /\ a < b /\ z \in Nat /\ z <= a
  BY PageBounds
<1>2. len \in Nat /\ a < len
  BY LenProperties
<1>3. PageOf(names, page, limit) = SubSeq(names, AtMost(a, len) + 1, AtMost(b, len))
  BY <1>2, PageInRange
<1> HIDE DEF z, a, b, len
<1>4. AtMost(a, len) = a
  BY <1>1, <1>2 DEF AtMost
<1>5. z + 1 \in 1 .. len + 1 /\ a \in (z + 1) - 1 .. len /\ AtMost(b, len) \in a .. len
  BY <1>1, <1>2 DEF AtMost
<1>6. SubSeq(names, z + 1, a) \o SubSeq(names, a + 1, AtMost(b, len))
        = SubSeq(names, z + 1, AtMost(b, len))
  BY <1>5, ConcatAdjacentSubSeq DEF len
<1>7. QED
  BY <1>3, <1>4, <1>6 DEF z, a, b, len

\* What a path is resolved to depends on the tree alone.
LEMMA ResolvedSame ==
  ASSUME tree' = tree, NEW m, NEW s
  PROVE  ResolvePath(m, s)' = ResolvePath(m, s)
<1>1. ASSUME NEW p PROVE Canonicalize(p)' = Canonicalize(p)
  BY DEF Canonicalize, Step, Target, IsLink, Exists, IsDir
<1>2. QED
  BY <1>1 DEF ResolvePath, Within
\* The queries a client sends: the numbers are those of a header or query, and
\* of a further page.
IsRequest(q, n) ==
  /\ IsQuery(q)
  /\ q.do \in {"list", "download"}
  /\ q.page \in Nat /\ q.limit \in Nat
  /\ q.since \in 0 .. n

\* A request that has been resolved; as long as nothing changes it would be
\* resolved in the same way again.
Resolved(q) ==
  /\ q.at # Failed
  /\ q.since = changes => q.at = ResolvePath(q.mount, q.path)

\* A walk has got to its last page.
Walked ==
  /\ IsRequest(walk.query, changes) /\ walk.query.do = "list"
  /\ Resolved(walk.query)
  /\ walk.last \in Nat \ {0} /\ walk.first \in 1 .. walk.last
  /\ walk.limit = Clamped(walk.query.limit)

\* While a client has a walk, its request is that for the next page.
Continued ==
  /\ request.mount = walk.query.mount /\ request.path = walk.query.path
  /\ request.limit = walk.query.limit /\ request.since = walk.query.since
  /\ request.page = walk.last + 1
  /\ walk.more

PageInv ==
  /\ changes \in 0 .. MaxChanges
  /\ request # None => IsRequest(request, changes) /\ Resolved(request)
  /\ walk # None => Walked
  /\ request # None /\ walk # None => Continued
  /\ scan # None =>
       /\ Lists
       /\ request.since = changes =>
            /\ scan.dir = Target(request.at)
            /\ scan.todo \cup Has(scan) = Names(tree, scan.dir)
  /\ PagesAreExact
  /\ answer # None => answer.status \in {StatusOf[o] : o \in DOMAIN StatusOf}

LEMMA PagesMeanTypes == IsTree(tree) /\ PageInv => TypeOK
<1>1. \A n \in Nat : Clamped(n) \in 1 .. MaxPageLimit
  BY SizeAssumption DEF Clamped, AtMost, AtLeast
<1>2. QED
  BY <1>1 DEF PageInv, TypeOK, IsRequest, Resolved, Walked

LEMMA AnswerStatus ==
  ASSUME NEW o \in DOMAIN StatusOf
  PROVE  Answer(o).status \in {StatusOf[p] : p \in DOMAIN StatusOf}
BY DEF Answer

LEMMA Outcomes == DOMAIN StatusOf = {"NotFound", "Unauthorized", "Forbidden", "BadRequest",
   "Conflict", "Internal", "Io", "Ok", "PartialContent", "RangeNotSatisfiable"}
BY DEF StatusOf

LEMMA WhoOutcomes == Who \subseteq DOMAIN StatusOf
BY Outcomes DEF Who, Identify, Headers
\* The steps that change neither the files nor the walk.
LEMMA WalkKept ==
  ASSUME PageInv, UNCHANGED <<tree, changes>>, walk' = walk \/ walk' = None
  PROVE  /\ walk' # None => walk # None /\ walk' = walk /\ Walked'
         /\ PagesAreExact'
         /\ changes' \in 0 .. MaxChanges
<1>1. CASE walk' = walk
  <2>1. walk # None => (Walked <=> Walked')
    BY <1>1, ResolvedSame DEF Walked, Resolved
  <2>2. PagesAreExact <=> PagesAreExact'
    BY <1>1 DEF PagesAreExact, Names, Target, IsLink, Exists
  <2>3. QED
    BY <1>1, <2>1, <2>2 DEF PageInv
<1>2. CASE walk' = None
  BY <1>2 DEF PagesAreExact, PageInv
<1>3. QED
  BY <1>1, <1>2

\* ... and those that only go on with the scan.
LEMMA ScanKept ==
  ASSUME PageInv, UNCHANGED <<tree, changes, request, walk, answer>>,
         scan' # None =>
           /\ Lists
           /\ request.since = changes =>
                /\ scan'.dir = Target(request.at)
                /\ scan'.todo \cup Has(scan') = Names(tree, scan'.dir)
  PROVE  PageInv'
<1>1. walk' # None => walk # None /\ walk' = walk /\ Walked'
  BY WalkKept
<1>2. PagesAreExact' /\ changes' \in 0 .. MaxChanges
  BY WalkKept
<1>3. request # None => Resolved(request)'
  BY ResolvedSame DEF PageInv, Resolved
<1>4. request' # None => IsRequest(request', changes') /\ Resolved(request)'
  BY <1>3 DEF PageInv
<1>5. request' # None /\ walk' # None => Continued'
  BY DEF PageInv, Continued
<1>6. scan' # None =>
        /\ Lists'
        /\ request'.since = changes' =>
             /\ scan'.dir = Target(request.at)'
             /\ scan'.todo \cup Has(scan') = Names(tree', scan'.dir)
  BY DEF Lists, Idle, Target, IsLink, Exists
<1>7. answer' # None => answer'.status \in {StatusOf[o] : o \in DOMAIN StatusOf}
  BY DEF PageInv
<1>8. QED
  BY <1>1, <1>2, <1>4, <1>5, <1>6, <1>7 DEF PageInv

\* ... and those that end a request without a page.
LEMMA EndKept ==
  ASSUME PageInv, UNCHANGED <<tree, changes>>, walk' = walk \/ walk' = None,
         request' = None, scan' = None,
         answer'.status \in {StatusOf[o] : o \in DOMAIN StatusOf}
  PROVE  PageInv'
BY WalkKept DEF PageInv

LEMMA AskPages ==
  ASSUME PageInv, NEW who \in Who, NEW r, IsRequest(r, changes), NEW w,
         \/ w = None
         \/ /\ w = walk /\ walk # None /\ walk.more
            /\ r.mount = walk.query.mount /\ r.path = walk.query.path
            /\ r.limit = walk.query.limit /\ r.since = walk.query.since
            /\ r.page = walk.last + 1,
         Ask(who, r, w)
  PROVE  PageInv'
<1> DEFINE at == ResolvePath(r.mount, r.path)
           q  == [r EXCEPT !.at = at]
           outcome == IF who = "Ok" /\ at = Failed THEN "BadRequest" ELSE who
<1>1. UNCHANGED <<tree, changes, scan>> /\ request = None /\ scan' = None
  BY DEF Ask, Idle, PageInv, Lists
<1>2. CASE outcome = "Ok"
  <2>1. at # Failed
    BY <1>2
  <2>2. request' = q /\ walk' = w /\ answer' = None
    BY <1>2 DEF Ask
  <2>3. IsRequest(q, changes) /\ q.at = at /\ q.mount = r.mount /\ q.path = r.path
        /\ q.limit = r.limit /\ q.since = r.since /\ q.page = r.page
    <3> HIDE DEF at
    <3>1. QED
      BY DEF IsRequest, IsQuery
  <2>4. at' = at
    BY <1>1, ResolvedSame
  <2> HIDE DEF q
  <2>5. Resolved(request)'
    BY <2>1, <2>2, <2>3, <2>4, <1>1, ResolvedSame DEF Resolved
  <2>6. /\ walk' # None => walk # None /\ walk' = walk /\ Walked'
        /\ PagesAreExact' /\ changes' \in 0 .. MaxChanges
    BY <1>1, <2>2, WalkKept
  <2>7. walk' # None => Continued'
    BY <2>2, <2>3 DEF Continued
  <2>8. IsRequest(request', changes')
    BY <1>1, <2>2, <2>3
  <2>9. QED
    BY <1>1, <2>2, <2>5, <2>6, <2>7, <2>8 DEF PageInv
<1>3. CASE outcome # "Ok"
  <2>1. request' = None /\ walk' = None /\ answer' = Answer(outcome)
    BY <1>1, <1>3 DEF Ask
  <2>2. outcome \in DOMAIN StatusOf
    BY WhoOutcomes, Outcomes
  <2> HIDE DEF outcome
  <2>3. QED
    BY <1>1, <2>1, <2>2, AnswerStatus, EndKept
<1>4. QED
  BY <1>2, <1>3

LEMMA GivePages ==
  ASSUME PageInv, GivePage
  PROVE  PageInv'
<1> DEFINE names == Sorted({e.name : e \in scan.got})
           page  == AtLeast(request.page, 1)
           limit == Clamped(request.limit)
           had   == IF walk = None THEN [first |-> page, seen |-> <<>>] ELSE walk
           w     == [query |-> request, first |-> had.first, last |-> page, limit |-> limit,
                     seen |-> had.seen \o PageOf(names, page, limit),
                     more |-> HasMore(page, limit, Len(names))]
<1>1. /\ UNCHANGED <<tree, changes>> /\ request' = None /\ scan' = None
      /\ answer' = Answer("Ok") /\ walk' = w
      /\ request # None /\ request.do = "list" /\ scan # None /\ scan.todo = {}
  BY DEF GivePage, Scans, Lists, Idle, Ends
<1>2. IsRequest(request, changes) /\ Resolved(request)
  BY <1>1 DEF PageInv
<1>3. page \in Nat \ {0} /\ limit \in Nat \ {0}
  BY <1>2, SizeAssumption DEF IsRequest, AtLeast, AtMost, Clamped
<1>4. walk # None => /\ page = walk.last + 1 /\ limit = walk.limit /\ walk.more
                     /\ walk.first \in 1 .. walk.last /\ walk.last \in Nat \ {0}
  BY <1>1 DEF PageInv, Walked, Continued, AtLeast
<1>5. had.first \in 1 .. page
  BY <1>3, <1>4
<1>6. answer'.status \in {StatusOf[o] : o \in DOMAIN StatusOf}
  BY <1>1, Outcomes, AnswerStatus
<1> HIDE DEF names, page, limit, had
<1>7. /\ walk'.query = request /\ walk'.first = had.first /\ walk'.last = page /\ walk'.limit = limit
      /\ walk'.seen = had.seen \o PageOf(names, page, limit)
      /\ walk'.more = HasMore(page, limit, Len(names))
  BY <1>1
<1>8. Walked'
  BY <1>1, <1>2, <1>3, <1>5, <1>7, ResolvedSame DEF Walked, Resolved, limit
<1>9. ASSUME request.since = changes, page * limit < UsizeSize
      PROVE  LET all == Sorted(Names(tree, Target(request.at))) IN
             /\ walk'.seen = SubSeq(all, (had.first - 1) * limit + 1, AtMost(page * limit, Len(all)))
             /\ walk'.more <=> page * limit < Len(all)
  <2>1. names = Sorted(Names(tree, Target(request.at)))
    BY <1>1, <1>9 DEF PageInv, Has, names
  <2>2. PICK S : names \in Seq(S)
    <3>1. Names(tree, Target(request.at)) \subseteq ToSet(NameOrder)
      BY DEF Names
    <3>2. QED
      BY <2>1, <3>1, SortedIsSorted
  <2>3. Len(names) \in Nat
    BY <2>2, LenProperties
  <2>4. walk'.more <=> page * limit < Len(names)
    BY <1>3, <1>7, <1>9, <2>3, PageInRange
  <2>5. CASE walk = None
    <3>1. had.first = page /\ had.seen = <<>>
      BY <2>5 DEF had
    <3>2. <<>> \o PageOf(names, page, limit) =
            SubSeq(names, (page - 1) * limit + 1, AtMost(page * limit, Len(names)))
      BY <1>3, <1>9, <2>2, FirstPage
    <3>3. QED
      BY <1>7, <2>1, <2>4, <3>1, <3>2
  <2>6. CASE walk # None
    <3>1. had = walk /\ page - 1 = walk.last /\ limit = walk.limit
      BY <1>4, <2>6 DEF had
    <3>2. walk.query.since = changes /\ walk.query.at = request.at
      BY <1>1, <1>2, <1>9, <2>6 DEF PageInv, Walked, Continued, Resolved
    <3>3. (page - 1) * limit < UsizeSize
      <4>1. (page - 1) * limit \in Nat /\ page * limit \in Nat /\ (page - 1) * limit < page * limit
        BY <1>3, <1>5, PageBounds
      <4>2. QED
        BY <1>9, <4>1, SizeAssumption
    <3>4. /\ walk.seen = SubSeq(names, (walk.first - 1) * limit + 1,
                                AtMost((page - 1) * limit, Len(names)))
          /\ walk.more <=> (page - 1) * limit < Len(names)
      BY <2>1, <2>6, <3>1, <3>2, <3>3 DEF PageInv, PagesAreExact
    <3>5. (page - 1) * limit < Len(names)
      BY <1>4, <2>6, <3>4
    <3>6. had.seen \o PageOf(names, page, limit)
            = SubSeq(names, (had.first - 1) * limit + 1, AtMost(page * limit, Len(names)))
      <4> DEFINE first == had.first
      <4>1. first \in 1 .. page
        BY <1>5
      <4> HIDE DEF first
      <4>2. SubSeq(names, (first - 1) * limit + 1, AtMost((page - 1) * limit, Len(names)))
                \o PageOf(names, page, limit)
              = SubSeq(names, (first - 1) * limit + 1, AtMost(page * limit, Len(names)))
        BY <1>3, <1>9, <2>2, <3>5, <4>1, NextOfPages
      <4>3. had.seen = SubSeq(names, (first - 1) * limit + 1, AtMost((page - 1) * limit, Len(names)))
        BY <3>1, <3>4 DEF first
      <4>4. QED
        BY <4>2, <4>3 DEF first
    <3>7. QED
      BY <1>7, <2>1, <2>4, <3>6
  <2>7. QED
    BY <2>5, <2>6
<1>10. PagesAreExact'
  <2> DEFINE all == Sorted(Names(tree, Target(request.at)))
  <2>1. Sorted(Names(tree, Target(walk.query.at)))' = all
    BY <1>1, <1>7 DEF Names, Target, IsLink, Exists
  <2> HIDE DEF all
  <2>2. request.since = changes /\ page * limit < UsizeSize =>
          /\ walk'.seen = SubSeq(all, (had.first - 1) * limit + 1, AtMost(page * limit, Len(all)))
          /\ walk'.more <=> page * limit < Len(all)
    BY <1>9 DEF all
  <2>3. QED
    BY <1>1, <1>7, <2>1, <2>2 DEF PagesAreExact
<1>11. changes' \in 0 .. MaxChanges
  BY <1>1 DEF PageInv
<1>12. QED
  BY <1>1, <1>6, <1>8, <1>10, <1>11 DEF PageInv

LEMMA PageStep == PageInv /\ ScanInv /\ [Next]_vars => PageInv'
<1> SUFFICES ASSUME PageInv, ScanInv, [Next]_vars PROVE PageInv'
  OBVIOUS
<1>1. ASSUME NEW who \in Who, NEW m \in Mount, NEW s \in AskedPath, NEW p \in Page, NEW l \in Limit,
             Ask(who, Request("list", m, s, p, l, None), None)
      PROVE  PageInv'
  <2>1. IsRequest(Request("list", m, s, p, l, None), changes)
    BY QueryAssumption DEF IsRequest, IsQuery, Request, PageInv
  <2>2. QED
    BY <1>1, <2>1, AskPages
<1>2. ASSUME NEW who \in Who, NEW m \in Mount, NEW s \in AskedPath, NEW r \in Ranges \cup {None},
             Ask(who, Request("download", m, s, 0, 0, r), None)
      PROVE  PageInv'
  <2>1. IsRequest(Request("download", m, s, 0, 0, r), changes)
    BY QueryAssumption DEF IsRequest, IsQuery, Request, PageInv
  <2>2. QED
    BY <1>2, <2>1, AskPages
<1>3. ASSUME NEW who \in Who, NextPage(who) PROVE PageInv'
  <2> DEFINE q == [walk.query EXCEPT !.page = walk.last + 1]
  <2>1. walk # None /\ walk.more /\ Ask(who, q, walk)
    BY <1>3 DEF NextPage
  <2>2. IsRequest(walk.query, changes) /\ walk.last \in Nat
    BY <2>1 DEF PageInv, Walked
  <2>3. /\ IsRequest(q, changes)
        /\ q.mount = walk.query.mount /\ q.path = walk.query.path
        /\ q.limit = walk.query.limit /\ q.since = walk.query.since
        /\ q.page = walk.last + 1
    BY <2>2 DEF IsRequest, IsQuery
  <2> HIDE DEF q
  <2>4. QED
    BY <2>1, <2>3, AskPages
<1>4. ASSUME Fails PROVE PageInv'
  <2>1. Answer("BadRequest").status \in {StatusOf[o] : o \in DOMAIN StatusOf}
    BY Outcomes, AnswerStatus
  <2>2. QED
    BY <1>4, <2>1, EndKept DEF Fails, Ends
<1>5. CASE ReadDir
  <2> DEFINE d == Target(request.at)
  <2>1. CASE ~IsDir(d)
    BY <1>4, <1>5, <2>1 DEF ReadDir
  <2>2. CASE IsDir(d)
    <3>1. scan' = Opened(d) /\ UNCHANGED <<tree, changes, request, walk, answer>> /\ Lists
      BY <1>5, <2>2 DEF ReadDir, Opened
    <3>2. scan'.dir = d /\ scan'.todo \cup Has(scan') = Names(tree, d)
      BY <3>1 DEF Opened, Has
    <3>3. QED
      BY <3>1, <3>2, ScanKept
  <2>3. QED
    BY <2>1, <2>2
<1>6. ASSUME NEW n \in ToSet(NameOrder), ReadEntry(n) PROVE PageInv'
  <2> DEFINE e == [name |-> n, is_dir |-> IsDir(Append(scan.dir, n))]
  <2>1. CASE ~Exists(Append(scan.dir, n))
    BY <1>4, <1>6, <2>1 DEF ReadEntry, Gone
  <2>2. CASE Exists(Append(scan.dir, n))
    <3>1. /\ scan # None /\ Lists /\ UNCHANGED <<tree, changes, request, walk, answer>>
          /\ scan' = [scan EXCEPT !.todo = @ \ {n}, !.got = @ \cup {e}]
      BY <1>6, <2>2 DEF ReadEntry, Scans
    <3>2. n \in Names(tree, scan.dir)
      BY <2>2 DEF Names, Exists
    <3>3. request.since = changes =>
            /\ scan'.dir = Target(request.at)
            /\ scan'.todo \cup Has(scan') = Names(tree, scan'.dir)
      <4> SUFFICES ASSUME request.since = changes
                   PROVE  /\ scan'.dir = Target(request.at)
                          /\ scan'.todo \cup Has(scan') = Names(tree, scan'.dir)
        OBVIOUS
      <4>1. scan.dir = Target(request.at) /\ scan.todo \cup Has(scan) = Names(tree, scan.dir)
        BY <3>1 DEF PageInv
      <4>2. scan'.dir = scan.dir /\ scan'.todo = scan.todo \ {n} /\ scan'.got = scan.got \cup {e}
        BY <3>1 DEF ScanInv, IsScan
      <4>3. Has(scan') = Has(scan) \cup {n}
        <5>1. e.name = n
          OBVIOUS
        <5> HIDE DEF e
        <5>2. QED
          BY <4>2, <5>1 DEF Has
      <4>4. QED
        BY <3>2, <4>1, <4>2, <4>3
    <3>4. QED
      BY <3>1, <3>3, ScanKept
  <2>3. QED
    BY <2>1, <2>2
<1>7. ASSUME NEW n \in ToSet(NameOrder), SkipEntry(n) PROVE PageInv'
  <2>1. /\ scan # None /\ Lists /\ UNCHANGED <<tree, changes, request, walk, answer>>
        /\ n \in scan.todo /\ n \notin Names(tree, scan.dir)
    BY <1>7 DEF SkipEntry, Scans
  <2>2. request.since # changes
    BY <2>1 DEF PageInv
  <2>3. QED
    BY <2>1, <2>2, ScanKept
<1>8. CASE GivePage
  BY <1>8, GivePages
<1>9. CASE Download
  <2>1. CASE Fails
    BY <1>4, <2>1
  <2>2. CASE ~Fails
    <3>1. UNCHANGED <<tree, changes, walk>> /\ request' = None /\ scan' = None
      BY <1>9, <2>2 DEF Download, Ends
    <3>2. answer'.status \in {StatusOf["Ok"], StatusOf["PartialContent"], StatusOf["RangeNotSatisfiable"]}
      BY <1>9, <2>2 DEF Download, Ends
    <3>3. QED
      BY <3>1, <3>2, Outcomes, EndKept
  <2>3. QED
    BY <2>1, <2>2
<1>10. ASSUME NEW p \in Leaf, Change(p) PROVE PageInv'
  <2>1. /\ changes \in 0 .. MaxChanges /\ changes < MaxChanges /\ changes' = changes + 1
        /\ UNCHANGED <<request, walk, answer>>
        /\ scan' = IF scan = None THEN None
                   ELSE [scan EXCEPT !.ever = @ \cup Entries(tree', scan.dir),
                                     !.always = @ \cap Names(tree', scan.dir)]
    BY <1>10 DEF Change, PageInv
  <2>2. changes' \in 0 .. MaxChanges
    BY <2>1, QueryAssumption
  <2>3. \A q : IsRequest(q, changes) => IsRequest(q, changes') /\ q.since # changes'
    BY <2>1, QueryAssumption DEF IsRequest
  <2>4. request # None => /\ IsRequest(request, changes') /\ request.since # changes'
                          /\ Resolved(request)'
    BY <2>1, <2>3 DEF PageInv, Resolved
  <2>5. walk # None => walk.query.since # changes' /\ Walked'
    BY <2>1, <2>3 DEF PageInv, Walked, Resolved
  <2>6. PagesAreExact'
    BY <2>1, <2>5 DEF PagesAreExact
  <2>7. scan' # None => Lists' /\ request'.since # changes'
    BY <2>1, <2>4 DEF PageInv, Lists, Idle
  <2>8. QED
    BY <2>1, <2>2, <2>4, <2>5, <2>6, <2>7 DEF PageInv, Continued
<1>11. CASE UNCHANGED vars
  <2>1. scan' = scan /\ UNCHANGED <<tree, changes, request, walk, answer>>
    BY <1>11 DEF vars
  <2>2. scan' # None =>
          /\ Lists
          /\ request.since = changes =>
               /\ scan'.dir = Target(request.at)
               /\ scan'.todo \cup Has(scan') = Names(tree, scan'.dir)
    BY <2>1 DEF PageInv
  <2>3. QED
    BY <2>1, <2>2, ScanKept
<1>12. CASE OperationFails
  BY <1>4, <1>12 DEF OperationFails
<1>13. QED
  BY <1>1, <1>2, <1>3, <1>5, <1>6, <1>7, <1>8, <1>9, <1>10, <1>11, <1>12 DEF Next

LEMMA PageInvariant == Spec => []PageInv
<1>1. Init => PageInv
  BY QueryAssumption DEF Init, PageInv, PagesAreExact
<1>2. QED
  BY <1>1, ScanInvariant, PageStep, PTL DEF Spec

\* Every reachable state has its type, whatever is asked for and whatever
\* happens to the files.
THEOREM TypeCorrect == Spec => []TypeOK
BY TreeInvariant, PageInvariant, PagesMeanTypes, PTL

\* The pages of a walk make the listing of a directory that does not change: for
\* every directory, every limit and every page within the range of usize.
THEOREM WalksAreExact == Spec => []PagesAreExact
<1>1. PageInv => PagesAreExact
  BY DEF PageInv
<1>2. QED
  BY <1>1, PageInvariant, PTL
=============================================================================
