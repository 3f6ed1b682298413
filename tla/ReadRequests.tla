---------------------------- MODULE ReadRequests ----------------------------
(***************************************************************************)
(* A client that reads: the requests list and download of src/src/api/fs.rs*)
(* from the headers to the answer, while other processes of the host       *)
(* change the files.  The client sends one request after the other; it     *)
(* walks through a long listing page by page.  Locks and other clients are *)
(* in FileService, identities in IdentityGuard: what the acting user may do *)
(* is not modelled, any step of an operation may fail for it.              *)
(*                                                                         *)
(* Arithmetic is that of a release build: usize and u64 wrap around.       *)
(***************************************************************************)
EXTENDS PathResolution, FiniteSets

CONSTANTS
  NameOrder,     \* all names, in the order of their bytes
  AskedPath,     \* the paths that clients send
  Page, Limit, Offset,  \* the numbers in their queries and Range headers
  Leaf, LeafNode,  \* the paths other processes change, and to what
  InitTree,      \* the files at the beginning
  UsizeSize,     \* 2^64
  MaxPageLimit,  \* MAX_PAGE_LIMIT
  MaxChanges,    \* bound on what other processes do, for model checking
  None           \* no request, no listing, no walk; nothing in a header

ASSUME SizeAssumption   == UsizeSize \in Nat /\ MaxPageLimit \in 1 .. UsizeSize - 1
ASSUME OffsetAssumption == Offset \subseteq 0 .. UsizeSize - 1 /\ None \notin Int
ASSUME QueryAssumption  == Page \cup Limit \subseteq 0 .. UsizeSize - 1 /\ MaxChanges \in Nat
ASSUME OrderAssumption  == NameOrder \in Seq(ToSet(NameOrder)) /\ IsInjective(NameOrder)
ASSUME TreeAssumption   ==
  /\ IsTree(InitTree) /\ Leaf \subseteq Seq(Normal)
  /\ \A p \in DOMAIN InitTree : InitTree[p].size \in 0 .. UsizeSize - 1
  /\ \A node \in LeafNode : node.size \in 0 .. UsizeSize - 1

VARIABLES
  changes,   \* how often the tree has changed
  request,   \* the request that is being served
  scan,      \* the directory that list_dir is reading
  walk,      \* what the client has of the listing it walks through
  answer     \* the last answer: its status and the bytes in its body

vars == <<tree, changes, request, scan, walk, answer>>

Idle == request = None

\* AppError::into_response, and the statuses of a success.
StatusOf ==
  [NotFound |-> 404, Unauthorized |-> 401, Forbidden |-> 403, BadRequest |-> 400,
   Conflict |-> 409, Internal |-> 500, Io |-> 500,
   Ok |-> 200, PartialContent |-> 206, RangeNotSatisfiable |-> 416]

Answer(outcome) == [status |-> StatusOf[outcome], size |-> 0, range |-> None, body |-> {}]

Wrap(n) == n % UsizeSize

Init ==
  /\ tree = InitTree
  /\ changes = 0
  /\ request = None /\ scan = None /\ walk = None /\ answer = None

----------------------------------------------------------------------------
(* The headers.                                                            *)

\* What an X-FS-UID or X-FS-GID header may be.  A malformed id is treated as
\* one that is missing; groups that are malformed are dropped.
Headers == [key : {"right", "wrong", "none"}, uid : {"none", "zero", "some"}, gid : {"none", "some"}]

\* AuthApiKey.
Identify(h) ==
  IF h.key # "right" THEN "Unauthorized"
  ELSE IF h.uid = "zero" THEN "Forbidden"
  ELSE IF "none" \in {h.uid, h.gid} THEN "BadRequest" ELSE "Ok"

\* Either handler, up to the blocking operation it awaits: it rejects the
\* request for its headers or its path, or goes on with the resolved path.
Ask(who, r, w) ==
  LET at == ResolvePath(r.mount, r.path)
      outcome == IF who = "Ok" /\ at = Failed THEN "BadRequest" ELSE who
  IN /\ Idle
     /\ IF outcome = "Ok"
          THEN request' = [r EXCEPT !.at = at] /\ walk' = w /\ answer' = None
          ELSE answer' = Answer(outcome) /\ walk' = None /\ UNCHANGED request
     /\ UNCHANGED <<tree, changes, scan>>

\* What the headers of a request may come to.
Who == {Identify(h) : h \in Headers}

\* "since" is history: the changes that came before it, and for a further page
\* those before the first one.
Request(do, m, path, page, limit, range) ==
  [do |-> do, mount |-> m, path |-> path, at |-> Failed,
   page |-> page, limit |-> limit, range |-> range, since |-> changes]

\* The client answers a listing that has more with a request for the next page,
\* which is resolved anew.
NextPage(who) ==
  /\ walk # None /\ walk.more
  /\ Ask(who, [walk.query EXCEPT !.page = walk.last + 1], walk)

Ends(a) ==
  /\ request' = None
  /\ scan' = None
  /\ answer' = a
  /\ UNCHANGED <<tree, changes>>

Fails == Ends(Answer("BadRequest")) /\ walk' = None

\* Any system call of the blocking operation may fail, for lack of permission or a
\* fault of the disk, and then the operation does: read_dir, the next entry, its
\* metadata, the reading of a file.
OperationFails == ~Idle /\ Fails

----------------------------------------------------------------------------
(* list: list_dir, and the page of its result.                             *)

\* The names in directory d of a tree.
Names(t, d) == {n \in ToSet(NameOrder) : Append(d, n) \in DOMAIN t}

\* The same with what they are.
Entries(t, d) == {[name |-> n, is_dir |-> t[Append(d, n)].kind = "dir"] : n \in Names(t, d)}

Lists == ~Idle /\ request.do = "list"

\* read_dir.  "todo" are the names that it may still give; the rest is history:
\* the entries that were there at some time since and the names that always were.
ReadDir ==
  LET d == Target(request.at) IN
  /\ Lists /\ scan = None
  /\ IF IsDir(d)
       THEN /\ scan' = [dir |-> d, todo |-> Names(tree, d), got |-> {},
                        ever |-> Entries(tree, d), always |-> Names(tree, d)]
            /\ UNCHANGED <<tree, changes, request, walk, answer>>
       ELSE Fails

Scans == Lists /\ scan # None

\* Mutant: an entry that has gone ends the listing.
Gone_Stops == scan' = [scan EXCEPT !.todo = {}] /\ UNCHANGED <<tree, changes, request, walk, answer>>

\* entry.metadata()? does not find the entry, and the listing fails with it.
Gone == Fails

\* The next entry.  Of those that came after read_dir some may be given, and of
\* those that have gone some may be given or not.  The metadata are those of the
\* entry itself: a link is not followed.
ReadEntry(n) ==
  LET p == Append(scan.dir, n) IN
  /\ Scans
  /\ n \in scan.todo \/ (n \in Names(tree, scan.dir) /\ n \notin {e.name : e \in scan.got})
  /\ IF Exists(p)
       THEN /\ scan' = [scan EXCEPT !.todo = @ \ {n},
                                    !.got = @ \cup {[name |-> n, is_dir |-> IsDir(p)]}]
            /\ UNCHANGED <<tree, changes, request, walk, answer>>
       ELSE Gone

SkipEntry(n) ==
  /\ Scans
  /\ n \in scan.todo /\ n \notin Names(tree, scan.dir)
  /\ scan' = [scan EXCEPT !.todo = @ \ {n}]
  /\ UNCHANGED <<tree, changes, request, walk, answer>>

NotAfter(m, n) ==
  \E i, j \in DOMAIN NameOrder : i <= j /\ NameOrder[i] = m /\ NameOrder[j] = n

\* entries.sort_by(name), all that matters of an entry in a page: the i-th has
\* i names that do not come after it.
Sorted(names) ==
  [i \in 1 .. Cardinality(names) |->
     CHOOSE n \in names : Cardinality({m \in names : NotAfter(m, n)}) = i]

\* Mutant: the first page is page 0.
Start_FromZero(page, limit) == Wrap(page * limit)

Start(page, limit) == Wrap((page - 1) * limit)

\* Mutant: one page too many.
HasMore_Late(page, limit, total) == Wrap(Start(page, limit) + limit) <= total

HasMore(page, limit, total) == Wrap(Start(page, limit) + limit) < total

AtLeast(a, b) == IF a < b THEN b ELSE a
AtMost(a, b) == IF a > b THEN b ELSE a

\* Mutant: no lower bound.
Clamped_Above(limit) == AtMost(limit, MaxPageLimit)

\* clamp(1, MAX_PAGE_LIMIT)
Clamped(limit) == AtMost(AtLeast(limit, 1), MaxPageLimit)

\* drain(start.min(total)..).take(limit)
PageOf(names, page, limit) ==
  LET start == Start(page, limit)
  IN SubSeq(names, AtMost(start, Len(names)) + 1, AtMost(start + limit, Len(names)))

\* The rest of list.  The client puts the page to those it has.
GivePage ==
  LET names == Sorted({e.name : e \in scan.got})
      page  == AtLeast(request.page, 1)
      limit == Clamped(request.limit)
      had   == IF walk = None THEN [first |-> page, seen |-> <<>>] ELSE walk
  IN /\ Scans /\ scan.todo = {}
     /\ walk' = [query |-> request, first |-> had.first, last |-> page, limit |-> limit,
                 seen |-> had.seen \o PageOf(names, page, limit),
                 more |-> HasMore(page, limit, Len(names))]
     /\ Ends(Answer("Ok"))

----------------------------------------------------------------------------
(* download: read_file, and the range of its result.                       *)

\* The Range header "bytes=start-end"; the end may be missing.  Without a start,
\* or malformed, it is not satisfiable.
Ranges == [start : Offset \cup {None}, end : Offset \cup {None}]

\* Mutant: an empty file is not thought of.
ParseRange_NoSizeCheck(range, size) ==
  LET end == IF range.end = None THEN Wrap(size - 1) ELSE range.end
  IN IF range.start = None \/ range.start > end THEN <<>>
     ELSE <<range.start, AtMost(end, Wrap(size - 1))>>

\* parse_range_header: <<start, end>>, or <<>> for None.
ParseRange(range, size) ==
  LET end == IF range.end = None THEN Wrap(size - 1) ELSE range.end
  IN IF range.start = None \/ range.start > end \/ range.start >= size THEN <<>>
     ELSE <<range.start, AtMost(end, Wrap(size - 1))>>

\* Bytes are known by their offsets in the file.
Download ==
  LET file == Target(request.at)
      size == tree[file].size
      part == ParseRange(request.range, size)
      reply(outcome, body) == [status |-> StatusOf[outcome], size |-> size,
                               range |-> request.range, body |-> body]
  IN /\ ~Idle /\ request.do = "download"
     /\ IF ~Exists(file) \/ IsDir(file) THEN Fails
        ELSE /\ UNCHANGED walk
             /\ Ends(CASE request.range = None -> reply("Ok", 0 .. size - 1)
                       [] part = <<>>          -> reply("RangeNotSatisfiable", {})
                       [] OTHER                -> reply("PartialContent", part[1] .. part[2]))

----------------------------------------------------------------------------
(* Other processes.                                                        *)

Put(p, node) == [q \in DOMAIN tree \cup {p} |-> IF q = p THEN node ELSE tree[q]]
Cut(p) == [q \in DOMAIN tree \ {p} |-> tree[q]]

\* A file, a link or an empty directory is made, replaced, or removed.
Change(p) ==
  /\ changes < MaxChanges
  /\ p # <<>> /\ IsDir(Front(p)) /\ \A q \in DOMAIN tree : ~IsStrictPrefix(p, q)
  /\ \/ \E node \in LeafNode : tree' = Put(p, node) /\ tree' # tree
     \/ Exists(p) /\ tree' = Cut(p)
  /\ changes' = changes + 1
  /\ UNCHANGED <<request, walk, answer>>
  /\ scan' = IF scan = None THEN None
             ELSE [scan EXCEPT !.ever = @ \cup Entries(tree', scan.dir),
                               !.always = @ \cap Names(tree', scan.dir)]

Next ==
  \/ \E who \in Who, m \in Mount, s \in AskedPath :
       \/ \E p \in Page, l \in Limit : Ask(who, Request("list", m, s, p, l, None), None)
       \/ \E r \in Ranges \cup {None} : Ask(who, Request("download", m, s, 0, 0, r), None)
  \/ \E who \in Who : NextPage(who)
  \/ ReadDir
  \/ \E n \in ToSet(NameOrder) : ReadEntry(n) \/ SkipEntry(n)
  \/ GivePage
  \/ Download
  \/ OperationFails
  \/ \E p \in Leaf : Change(p)

Spec == Init /\ [][Next]_vars

----------------------------------------------------------------------------
(* Properties.                                                             *)

\* Every variable has its type, the files make a tree, and a scan or a walk is that of a request.
TypeOK ==
  /\ IsTree(tree)
  /\ changes \in 0 .. MaxChanges
  /\ request # None => /\ request.do \in {"list", "download"} /\ request.at # Failed
                       /\ request.since \in 0 .. changes
  /\ scan # None => Lists
  /\ walk # None => walk.limit \in 1 .. MaxPageLimit /\ walk.query.since \in 0 .. changes
  /\ answer # None => answer.status \in {StatusOf[o] : o \in DOMAIN StatusOf}

\* The next three only depend on the tree, and the other processes make every
\* tree before the first request, so that is where TLC looks.
BeforeRequests == Idle /\ walk = None /\ answer = None

\* Uploads and downloads mean the same file by a path, and lock it by one key:
\* KeysAgree.
OneKeyForAFile == BeforeRequests => KeysAgree

\* Path resolution turns nobody away from a file: FilesAreReachable.
EveryFileIsReachable == BeforeRequests => FilesAreReachable

\* Uploads go where their path says, and are found there: UploadsStayInDirectory.
UploadsKeepTheirDirectory == BeforeRequests => UploadsStayInDirectory

\* A listing shows an entry only as it was at some time while the directory was
\* read, and leaves out none that was there all the time, however the directory
\* changes meanwhile.
ListingIsHonest ==
  scan # None =>
    /\ scan.got \subseteq scan.ever
    /\ scan.always \subseteq scan.todo \cup {e.name : e \in scan.got}

\* The pages of a walk, one after the other, make the directory: if nothing has
\* changed since its first request, then what the client has are the entries from
\* its first page to its last, each once and in order, and there are more
\* exactly when the walk has not come to the end.  Beyond the range of usize
\* the code promises nothing.
PagesAreExact ==
  LET names == Sorted(Names(tree, Target(walk.query.at)))
      upto  == walk.last * walk.limit
  IN walk # None /\ walk.query.since = changes /\ upto < UsizeSize =>
       /\ walk.seen = SubSeq(names, (walk.first - 1) * walk.limit + 1, AtMost(upto, Len(names)))
       /\ walk.more <=> upto < Len(names)

\* The bytes that a Range header asks for.
Wanted(range, size) ==
  {i \in 0 .. size - 1 :
     /\ range.start # None /\ range.start <= i
     /\ range.end # None => i <= range.end}

\* The bytes of a partial answer are those of the file that the client asked
\* for, and a range is refused when there are none: for every size, zero
\* included.
RangeIsExact ==
  answer # None /\ answer.range # None =>
    LET wanted == Wanted(answer.range, answer.size)
    IN /\ answer.body = wanted
       /\ answer.status = IF wanted = {} THEN 416 ELSE 206
=============================================================================
