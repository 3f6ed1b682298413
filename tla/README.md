# Specifications of posixfy-bridge

posixfy-bridge is an HTTP service that lets its clients work on files of a host
as a given Unix user: it lists, downloads, uploads, deletes, renames and
watches. Everything it knows is in memory: a table of file locks and a map of
watched directories, shared by the tasks of a tokio runtime. These TLA+ modules
specify that shared state and the handlers around it, TLC checks them on small
instances, and TLAPS proves the most important results for all instances.

Paths below are relative to the repository; `lock.rs` is `src/fs/lock.rs`, and
so on.

## The system

| Component | Source | State | Operations | Talks to |
|---|---|---|---|---|
| Lock manager | `fs/lock.rs` | `DashMap` from path to entries (user, type, expiry) | `acquire`, `release`, drop of a guard | called by the file handlers |
| File handlers | `api/fs.rs` | the guard and locals of each request | `list`, `download`, `upload`, `delete_file`, `mkdir`, `rename` | path resolution, lock manager, blocking operations |
| Blocking operations | `fs/operations.rs` | the host's files | list, read, write, delete, mkdir, stat, rename, each on a thread of the blocking pool | identity guard, file system |
| Identity guard | `fs/guard.rs` | fsuid and fsgid of a thread, groups of the process | `new`, `drop` | around every blocking operation |
| File watcher | `fs/watcher.rs` | `DashMap` from directory to channel and subscriber count; a snapshot in each poll task | `subscribe`, `unsubscribe`, `poll_directory` | watch streams, file system |
| Watch stream | `api/watch.rs` | receiver, keepalive interval | `watch`, `poll_next`, `drop` | file watcher, hyper |
| Path resolution | `fs/path.rs` | none | `resolve_path`, `resolve_new_path` | file system |
| Authentication | `auth/middleware.rs` | none | two extractors | headers |
| Mounts, configuration | `models/mount.rs`, `api/mounts.rs`, `config.rs` | constant after the start | parsing | environment |
| Errors | `error.rs` | none | status codes | |
| Server | `main.rs` | the connections | router, request ids, graceful shutdown | all |

What is hard:

- Handlers run on several threads, and only one access to a key of a `DashMap`
  is atomic. `release`, `unsubscribe` and the exit of a poll task take two.
- A handler awaits the body of its request, which may not come, and its blocking
  operations; between two of them (the stat and the write of an upload) other
  requests run, and other processes change the files.
- A client that leaves drops the handler and its guard while the blocking
  operation goes on.
- Locks expire under their holders; `acquire` judges by a clock it read earlier.
- An entry of the table belongs to a user, a guard to a request.
- Poll tasks outlive their subscribers by up to 3 seconds and clean up by key.
- `setfsuid` changes one thread and `setgroups` the whole process, and the
  threads of the blocking pool are used for one user after the other.
- A listing reads its entries one by one while the directory changes, and each
  page is cut from a new listing.
- Sizes and page numbers are unsigned: `file_size - 1` and `(page - 1) * limit`
  wrap.
- Uploads and new directories are resolved by one function, everything else by
  another, and the result is the key of the lock table.
- The event channel overwrites what a slow stream has not read, and a stream is
  only polled when somebody has registered to wake it.

What makes each component correct: the lock table is exclusive and leaks
nothing, a guard keeps others out until it expires, a refusal has a reason;
operations of different requests do not meet on a path, a download is whole, a
checked expectation still holds at the write; an operation runs as its user and
leaves no trace of it; a file has one key and can be reached; a listing, its
pages and a byte range are exact; every watch is polled, every
stream is served or ends, nothing polls for nobody; the feed of a client is
exact. The hazards of `PROJECT.json` give the lines where these are at stake.

## The modules

**LeaseLock** is the abstract specification of a file lock: leases on a path,
for reading or writing, with an expiry. No table, no threads.

**LockManager** is `lock.rs` at the grain of the accesses to the map.
`Begin` is `acquire` up to `Instant::now()`, `Refuse` and `Acquire` are its rest
under the shard lock; `Release` and `Remove` are the two accesses of `release`,
which the drop of a guard calls as well. `locks` is the map (its `DOMAIN` the
keys), `job` what a request carries through, `pc` where it is. Neither function
awaits, so a request that is between two accesses keeps one of `Workers`
threads. `SerialSpec` has the conditions under which guards keep others out: no
user has two requests on one path at a time, and no release loses the race for
its key (`NoRace`: between its two accesses nobody has acquired the path).

**FileWatcher** is the map, the counts and the life of the poll tasks in
`watcher.rs`, and what `watch.rs` does to them. `Create` and `Join` are
`subscribe`; `Unsubscribe` and `RemoveWatch` the two accesses of `unsubscribe`,
`Wake` and `Exit` those of a poll task that finds no subscriber; `Poll` is a
round that finds some. `Watch` is a supply of identities for watches; they are
used again when nothing refers to them. `PatientSpec` restricts the clients: one
comes to a directory only while others are there, or when nobody is being
dropped from it and its poll task has gone.

**WatchFeed** is what goes through one watch of one directory: the snapshots,
read name by name (`Scan`, `Skip`) and compared (`Created`, `Modified`, `Deleted`, `Send`), the
bounded broadcast channel (`Receives`), and the streams with their wake-ups
(`Deliver`, `Idle`, `Tick`). A lagged receiver returns to sleep without a waker
on the channel, as in the code, and only the keepalive brings it back. `view`
and `lost` are history: what a client can know from what it was sent, and
whether an event was overwritten.

**FileService** composes the handlers of `api/fs.rs` and the operations of
`operations.rs` with an instance of LockManager. A request arrives and waits for
its body, of an upload first the name of its file and then the rest
(`BodyComes`), which may fail (`BodyFails`) or never come. `Reject` is every 400
before the lock: a file name, a path, a parent, a mount that is wrong. `Begin`
resolves the path and enters `acquire`; the request is `Refused` or `Acquired`,
and waits for its operations, which are steps of their own on the files: a write
truncates (`Open`) and fills (`Fill`), a delete looks (`Look`) and unlinks
(`Unlink`). An open file can be renamed, replaced or deleted under its writer.
`Cancel` is the client going away while its handler awaits anything, `Outside`
another process that creates, replaces or removes a file. `CarefulSpec`
restricts both, see below.

**IdentityGuard** is `guard.rs` on the threads of the blocking pool. `Enter` is
`FsUidGuard::new` up to `getgroups`, `SetGroups` its rest, `Leave` the drop.
`fsid` belongs to each thread, `groups` to the process; `guard` is what `new`
found. An operation without groups calls no `setgroups` when it begins, but does
when it ends.

**PathResolution** has the two functions of `path.rs`, the mount points that
`models/mount.rs` parses and the file names that an upload sanitizes, as
operators on a `tree` of directories, files and links. A path string is the
sequence of what stands between its slashes, so that empty components, dots and
slashes at either end are all there; `Canonicalize` is realpath. `Components` and
`Canonicalize` walk along a path as functions of how far they have come, so that
proofs can take one step of them. `Written` is where the bytes of an upload go:
the write follows a link at the end of the path that `resolve_new_path` has
left as it was named. `IsTree` says that what is there lies in
directories up to the root, and has names that a file can have.

**ReadRequests** is a client that reads, on such a tree, while other processes
change it (`Change`): they put a node into a directory or take one away that has
nothing in it. `Ask` and `NextPage` are the handlers `list` and `download`
up to the operation they await, with the checks of the headers (`Identify`);
`ReadDir`, `ReadEntry` and `SkipEntry` are `list_dir`, entry by entry: an entry
that goes after `read_dir` may still be given by it, and then its `metadata()`
ends the listing. `OperationFails` is any other error of a system call: of
`read_dir`, of its next entry, of the metadata, of a read. `GivePage` is the rest of `list`, `Download` that of `download`
with `parse_range_header`. `walk` is the client: the pages it has put together.
Each page is a request of its own, whose path is resolved anew; `since` of a
request is history: how many changes there were before the first request of its
walk was resolved. `scan` has, besides the entries got, what was in the directory
all the time and at some time. Arithmetic wraps at `UsizeSize`.

**LockManagerProofs**, **LockGuardProofs**, **FileServiceProofs**,
**FileWatcherProofs**, **WatchFeedProofs**, **IdentityGuardProofs**,
**PathResolutionProofs** and **ReadRequestsProofs** hold the theorems; the **MC** modules name users, trees and
symmetry for TLC.

## The runs

| Run | Shows |
|---|---|
| `LockTable` | Two worker threads, two requests of one user and one of another on a path, locks that expire: `TableExclusive` (no writer next to anybody), `EntryHasGuard` (no lock leaks), `EmptyOnlyWhileRemoving` (the map does not grow), `RefusalHasCause` (no spurious 409), `OnlyRaceRemoves` (the race of `LockRemoveRace` is the only way to lose a lock to another user: no late release of an expired or swept lock does). |
| `LockSerial` | Two worker threads, serial clients, no race: `GuardExclusion`, and `ImplementsLeases`, the refinement of LeaseLock. |
| `LockRemoveRace` | Violation: on two threads `release` removes the lock another user has just acquired. |
| `WatchAnyClients` | Any clients, two threads: `EntryIsPolled`, and `AbandonedStreamEnds` under fairness. |
| `WatchPatient` | Patient clients, three threads: `CountsAttached`, `SubscriberIsServed`, `PollsForSubscribers`, and `PollingStops` under fairness. |
| `WatchLeak` | Violation: a client that reconnects within the poll interval leaves a poll task behind for ever, even on one thread. |
| `FeedEvents` | `FeedIsExact` and `EventsFit` for clients that come, fall behind, lag and leave at any time; `EventsAreDelivered` and `FeedConverges` under fairness. |
| `ServiceCareful` | Careful clients on two worker threads, beside other processes: `OperationsExclude` (of operations that take locks; `mkdir` takes none), `DownloadIsWhole`, `FilesSettle` (no file is left half-written unless a write failed), `ExpectationHolds` (the file that an upload truncates has the stamp it has compared). |
| `ServiceLive` | Any clients and every kind of request, bodies that stall, cancellations and expiry, one thread that handlers take in turns: `EveryRequestEnds` once its body has come, `EveryLockEnds`. |
| `GuardThreads` | Three threads, any operations: `ThreadIdentity`, of the user and the group of each thread. |
| `GuardOverlap` | Violation: two operations overlap, and one works with the groups of the other's request. |
| `ReadAnswers` | A client that reads while files change: `OneKeyForAFile`, `EveryFileIsReachable`, `UploadsKeepTheirDirectory` of the paths; `ListingIsHonest` of a listing, `PagesAreExact` of a walk through its pages, `RangeIsExact` of a download. |

The violations are disagreements of the code with its own documentation. What
the passing runs assume of clients marks where the code promises less than one
may expect, and TLC finds a violation when a condition is dropped:

- `SerialSpec`, `CarefulSpec`: no user has two requests on one path at a time.
  The second acquires over the first, their entries are one, and the release of
  either takes the lock of both: guards of two users meet, and two uploads can
  both pass the check of the expected time.
- `SerialSpec`, `CarefulSpec`: no release loses the race of `LockRemoveRace`
  (`NoRace`). The runtime has several worker threads, so the code does not ensure
  it; everything else that several threads do is in these runs and theorems.
- `CarefulSpec`: clients wait for the answer of an operation that runs, and no
  request takes longer than TTL (5 minutes in the code). A blocking operation goes
  on without its lock otherwise.
- `CarefulSpec`: nothing is renamed onto a path a request is on. A rename locks
  its source only, so it replaces a file between an upload's check and its write.
- `CarefulSpec`: no other process touches a file between the look and the write
  of an upload that expects something of it (`Undisturbed`). They take no lock.
  They may do so at any other time.
- `EveryRequestEnds`: the body of the request has come. The handlers set no
  timeout, so a client that stalls keeps its handler for ever; it holds no lock
  then.
- `PagesAreExact`: pages within the range of usize, and nothing changes after the
  first request has been resolved. A release build wraps beyond usize, a debug
  build panics. It is not enough that nothing changes after `read_dir`: a path
  through a link that was pointed elsewhere before it is resolved to another
  directory for the next page, and the pages do not fit together.
- `OneKeyForAFile`: it is one file that uploads write and downloads read, but it
  has two keys if the path is itself a link: uploads know it by the link's own
  name, the other requests by its target.
- `UploadsKeepTheirDirectory`: if the directory has a link under the name of the
  file, the bytes go to what it leads to. The comparison with the mount point
  (README, "Security": "canonicalize prefix check") is made for the parent.

Three disagreements of the code with its documents need no run to be seen:

- `CHANGELOG.md:23` says that removing an absent path is a success. It is in
  `delete_path` (`operations.rs:129`), but `delete_file` resolves the path first,
  and `resolve_path` fails with 400 when there is none (`api/fs.rs:266`).
- `README.md:98` says that `X-Expected-MTime` is in nanoseconds; the code compares
  milliseconds (`operations.rs:184`, `api/fs.rs:229`). Two writes within one
  millisecond are one version to it, and `ExpectationHolds` is about that stamp.
- `README.md:135` says that each request runs as the specified user; one without
  `X-FS-Groups` keeps the groups that the process has at the time (`guard.rs:19`).
  In `GuardOverlap` the service itself has no groups, so that only an overlap can
  be to blame.

### Bounds

Requests, paths and users: two actors of different users suffice for every
conflict of the lock table, the third adds a second request of one user. Two
worker threads suffice for a step of one request between the two accesses of
another; more are in the theorems. One or
two paths: the table treats keys independently, and a rename needs two. The
clock runs to 3 with a TTL of 2, so that locks expire, are swept and acquired
again. Three watch identities serve two streams: a watch in the map, one whose
poll task is about to leave, and one that replaces it; the watcher's runs have
two directories, or three streams. `UsizeMax` is 7, so a wrapped count differs
from all real ones. In `FeedEvents` the channel holds 1 event instead of 64, and
two changes or failures of two names suffice for every kind of event and to lag;
the second client joins in the middle of rounds that the first one keeps going.
In `ServiceCareful` a symmetry exchanges the two requests together with their
users, and the two paths; its clock runs to 1, so that a file can have two
stamps. In `ServiceLive` two requests share one path and one worker thread, the
case in which each can hold up the other most: with more threads fewer steps have
to wait.

`GuardThreads` has three threads, so that two guards can end in either order
around a third, the service and two users, and two groups of which the service
has one. In `ReadAnswers` the mount point is a link to its directory, a second
entry of the same name follows it, a third has no path; the directory has a file,
a subdirectory with two entries and a link to it, and three changes remove, make
and replace entries, turn a file into a dangling link and back, and point the
link from one directory to the other. The path properties range
over all paths of up to three components and file names of up to two, dots,
empty components and a name that is too long included; they depend on the tree
alone, so they are stated for the states before the first request
(`BeforeRequests`), which have every tree the changes can make; the theorems have
them in all states and for paths of any length. `UsizeSize` is 16
and `MAX_PAGE_LIMIT` 3: pages 0, 2 and 9 are the one below the first, one in the
middle and one whose product with the limit wraps to the start of the listing; the sizes 0 and 2 and the
offsets 0, 1, 3 and 15 lie on both sides of every comparison of a range. In the
proofs of `RangesAreExact` and `WalksAreExact` all of these are arbitrary.

### Fairness

Strong fairness where a step needs a worker thread that may be taken again and
again by others (`Handle`, `Wake`, the end of a closed stream), weak fairness
where a task is on its thread already (`Exit`, `RemoveWatch`, blocking
operations, the polls of a stream that was woken). It stands for the scheduling
of tokio and of the host. No fairness is assumed of clients: none must come,
leave, send the body of its request (`BodyComes`, `BodyFails`) or read more than
the polls of its stream in `FeedEvents`; nor of other processes.

## The proofs

All of them hold for any sets of requests, paths, users, streams and
directories, any TTL, and any number of worker threads unless said otherwise.

- `LockManagerProofs!TypeCorrect`; `TableStaysExclusive`, `LocksDoNotLeak`,
  `KeysDoNotPileUp`: `TableExclusive`, `EntryHasGuard` and `EmptyOnlyWhileRemoving`
  together are inductive given the types. The second is what makes the proof of
  the first go through a release: the entries that stay are those of other guards.
- `RefusalsJustified`: the entry a request was refused for belongs, by
  `EntryHasGuard`, to a request that holds its guard.
- `LockGuardProofs!RaceRemoves`: for any clients and any number of threads. The
  sweep of an acquire takes what has expired by a clock value that is past, so it
  has expired; a release takes entries of its own user; what is left is the
  removal of a key.
- `GuardsExclude` (serial clients, no race): the invariant is that every
  unexpired guard has its entry in the table; exclusion follows from the table's.
  `NoRace` is used in one step, the removal of a key, which then takes nothing.
- `GuardsAreLeases`: under the same conditions every step of LockManager is a
  step of LeaseLock or leaves the leases alone: `Acquire` grants, `Release` gives
  up.
- `FileWatcherProofs!TypeCorrect`, `EntriesArePolled`: with any clients, since a
  key is added together with its task and a task removes its own key before it
  returns.
- `CountsAreRight`, `PatientsAreServed`, `NobodyPollsInVain`: with patient clients
  counts are exact, every stream is served, and a task polls for somebody. The
  inductive invariant adds that a leaving task and a removing stream leave an
  empty directory, and that a directory has one task at most.
- `FileServiceProofs!TypeCorrect`: for any clients. The types of the lock variables
  are LockManager's theorem, since every step of FileService is a step of
  LockManager or leaves its variables alone (`LockStep`); the lock theorems come
  in by `L == INSTANCE LockGuardProofs`.
- `ServiceKeepsLeases`, `ServiceLocksExclude` (serial clients, no race; clients may
  go away and locks may expire): FileService implements LeaseLock. By
  `LockStep` its steps are those of serial clients of LockManager, so that
  `GuardsAreLeases` and `GuardsExclude` apply to every handler.
- `LocksCoverOperations` (careful clients): `Bound` says that a
  request's call, lock and operation belong together and that its lock has not
  expired, so that two operations on a path mean two guards on it, and
  `GuardsExclude` applies. `Covers` adds the paths that renames take over without
  a lock.
- `DownloadsAreWhole`, `FilesAreSettled`: from exclusion, by `OpenIsWritten`: a file
  is open, and then empty, exactly while a write is between its two steps, at the
  path the write was queued for. Exclusion keeps renames and deletes away from it;
  another process that replaces it leaves a whole file, and the write without one.
- `ExpectationsHold`: by `FoundIsThere`: the stamp that the stat of an upload has
  found is still that of the file when the handler compares it, and when the
  write truncates it. Other requests are kept away by exclusion, other processes
  by `Undisturbed`.
- `WatchFeedProofs!TypeCorrect`: with `PhaseInv`, what the poll task has in each of
  its phases.
- `FeedIsAlwaysExact`, `EventsAlwaysFit`: what a client foresees for a name is what
  the last event in its queue says, or its view if there is none (`ForeseenLast`,
  `ForeseenNone`; the last event is a greatest position, which the least-element
  principle of the natural numbers gives). So a sent event changes it for its own
  name only (`ReceivesForesees`), exactly as it changes what is announced
  (`AnnouncedSent`), and a delivered event changes nothing (`DeliverForesees`). The
  two properties are inductive together, before the baseline by `PhaseInv`: there
  is nothing in any queue then.
- `IdentityGuardProofs!TypeCorrect`, `ThreadsKeepIdentity`: the invariant adds
  that the guard of a busy thread has found the service's ids, since a thread is
  idle before it enters.
- `PathResolutionProofs!KeysAlwaysAgree`, `FilesAreAlwaysReachable`,
  `UploadsAlwaysStay`: on any tree, for any mount points and for spellings of any
  length. The first component on which two walks differ, or the shortest
  directory that is not reached, would be a least counterexample: `Counting` and
  `PathInduction` state this for a set of numbers and a set of paths, which is
  how induction is had without an operator as a parameter. `CanonicalizeAppend`
  takes the last step of realpath apart, `ComponentsResolve` says that realpath
  sees no difference between a path and its components as long as it succeeds
  (`NoWayBack`: nothing leads on from a failure), and `JoinAppend` follows a name
  through the trimming of slashes in front. `Reachable` leads along a plain path
  from the mount point down to the file. That a download reads what an upload
  wrote, through a link as well, is because realpath takes its last step as the
  write does (`SameKey`).
- `ReadRequestsProofs!FilesHaveOneKey`, `FilesCanBeReached`, `UploadsGoWhereTheySay`:
  the inductive invariant is `IsTree(tree)`. A change keeps it because what is put
  has a directory to be in, and what is replaced has nothing under it
  (`ChangeAtLeaf`). The theorems say the properties in every state, not only
  before the first request.
- `ReadRequestsProofs!RangesAreExact`: only `Download` gives a body, and the case
  of an empty file rests on `0 - 1` wrapping to the largest number while no
  start is below a size of 0. For every `UsizeSize`.
- `ListingsAreHonest`: the inductive invariant relates the names still to come,
  those got and those that were always there.
- `ReadRequestsProofs!TypeCorrect`, `WalksAreExact`: as long as nothing has changed
  since the first request, every request of a walk is resolved to the same
  directory, and what a scan has got and still has to get are its names. A page
  goes on where the walk is because a further page is asked for only if the last
  one said that there is more; within usize nothing wraps (`PageInRange`), and
  adjacent parts of a listing make a longer part (`NextOfPages`). The listing is
  `Sorted`, which has every name once and in order (`SortedIsSorted`).

They rest on the named assumptions of the modules: finite sets of requests and
streams, an identity of the service, sizes and queries that fit the width, names
that are ordered, a channel that holds an event, constants outside the sets they
must differ from, a count that can hold all streams, mount points and spellings
that are sequences of strings (`PathAssumption`), files that are a tree at the
start (`TreeAssumption`). None bounds the number of worker threads. TLC evaluates
them in the runs.

Only model-checked: the liveness properties (`AbandonedStreamEnds`,
`PollingStops`, `EventsAreDelivered`, `FeedConverges`, `EveryRequestEnds`,
`EveryLockEnds`), since fairness and `ENABLED` are beyond the prover. Every
invariant and every action property of the passing runs is a theorem.

## Not modelled

- The contents of directories under a delete or a rename, and permissions: in
  FileService a path is a name in one directory. An operation may fail at any
  time instead, there and in ReadRequests. Other processes change files there, not
  directories.
- Which requests are wrong in themselves: FileService lets `Reject` answer any.
- An upload of several files is a sequence of requests; its common answer is not
  modelled. The code gives up at the first file that fails and says nothing of
  those before.
- Graceful shutdown: one call in `main.rs`. What it waits for is decided by axum
  and hyper, outside of this repository.
- The request that lists the mount points, its extractor, the other settings,
  request ids, CORS and logging: they hand on constants.
- The guard on systems other than Linux, where it does nothing, and identities
  that the kernel refuses: the service is taken to be allowed to switch, as the
  code does, which ignores the results of the calls.
- The panics of a debug build where a release build wraps.

## Plan

1. LockManager, LeaseLock, their proofs. Done.
2. FileWatcher and its proofs. Done.
3. FileService over LockManager. Done; to come: directories with contents under
   delete and rename.
4. WatchFeed. Done.
5. IdentityGuard and its proofs. Done.
6. PathResolution and ReadRequests, and the proofs about ranges and listings.
   Done.
7. Proofs about FileService, WatchFeed, the pages of a listing, path resolution
   and the files that requests meet, and of FileService over LeaseLock. Done.
