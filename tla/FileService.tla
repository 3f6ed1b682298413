---------------------------- MODULE FileService ----------------------------
(***************************************************************************)
(* The request handlers of src/src/api/fs.rs that read or change files,    *)
(* with the blocking operations of src/src/fs/operations.rs they wait for, *)
(* composed with the LockManager they take their locks from.               *)
(*                                                                         *)
(* A handler is a task on a worker thread: it awaits the body of its       *)
(* request, resolves its path, takes the lock, and then awaits one or two  *)
(* operations, which run on threads of the blocking pool.  While it awaits *)
(* anything may happen: other handlers and operations run, other processes *)
(* change the files, time passes, and the client may go away, in which     *)
(* case the handler is dropped with its guard and the operation runs on.   *)
(*                                                                         *)
(* The files are those of one directory.  An open file can be renamed,     *)
(* replaced or deleted under its writer.  Each file of a multipart upload  *)
(* is a request of its own: from one to the next the handler keeps only    *)
(* the names for its answer.  Identities and permissions are left out: an  *)
(* operation may fail for any reason.                                      *)
(***************************************************************************)
EXTENDS Naturals, FiniteSets

CONSTANTS
  Request, Path, Uid, UidOf, TTL, Workers, MaxClock, NoJob,  \* of LockManager
  Kind,      \* the kinds of requests that clients send
  Absent     \* no file, no expectation, no operation, no request

ASSUME RequestAssumption == IsFiniteSet(Request) /\ UidOf \in [Request -> Uid]
ASSUME TimeAssumption    == TTL \in Nat /\ MaxClock \in Nat
ASSUME WorkersAssumption == Workers \in Nat \ {0}

VARIABLES
  clock, locks, pc, job,  \* of LockManager
  files,     \* what is at each path of the directory
  call,      \* the request of each handler, Absent when it was answered
  op,        \* the blocking operation of each handler, even of one dropped
  open       \* the path of the file that a write has open, Absent if it has
             \* none, or if the file has no path any more

lockVars == <<clock, locks, pc, job>>
fileVars == <<files, open>>
vars == <<clock, locks, pc, job, files, call, op, open>>

Locks == INSTANCE LockManager

Kinds == {"download", "upload", "delete", "rename", "mkdir"}

\* `to` is the target of a rename, `expected` the X-Expected-MTime of an
\* upload, in milliseconds like the clock.  X-Expected-Size is treated alike: a
\* stamp stands for both.
\* `body` is what has come of the body: of an upload the name of its file comes
\* first, and without a body a request is "whole" from the start.
Call ==
  [kind : Kinds, path : Path, to : Path, expected : Nat \cup {Absent},
   body : {"none", "name", "whole"}]

\* "opened"   : a write has created or truncated its file;
\* "saw_file", "saw_dir": a delete has looked at what it will remove;
\* "ok", "error": the operation is over, and its handler may go on.
Op ==
  [do    : {"stat", "read", "write", "delete", "rename", "mkdir"},
   step  : {"queued", "opened", "saw_file", "saw_dir", "ok", "error"},
   path  : Path, to : Path,
   found : Nat \cup {Absent},     \* the stamp a stat has found
   data  : {"whole", "empty", "mixed", "broken", "none"}]  \* what a read got

\* "whole" : the bytes of one upload;       "empty": truncated, not yet written;
\* "mixed" : bytes of two uploads;          "broken": a write failed half-way.
File == [dir : BOOLEAN, stamp : Nat, data : {"whole", "empty", "mixed", "broken"}]

ASSUME KindAssumption   == Kind \subseteq Kinds
ASSUME NoJobAssumption  == NoJob \notin Locks!Job
ASSUME AbsentAssumption ==
  /\ Absent \notin Path /\ Absent \notin Nat
  /\ Absent \notin Call /\ Absent \notin Op /\ Absent \notin File

Exists(p) == files[p] # Absent
IsDir(p) == Exists(p) /\ files[p].dir
IsFile(p) == Exists(p) /\ ~files[p].dir

----------------------------------------------------------------------------
(* Handlers.                                                               *)

Init ==
  /\ Locks!Init
  /\ files \in [Path -> {Absent, [dir |-> FALSE, stamp |-> 0, data |-> "whole"]}]
  /\ call = [r \in Request |-> Absent]
  /\ op = [r \in Request |-> Absent]
  /\ open = [r \in Request |-> Absent]

\* Mutants: an upload takes a read lock, a delete does.
LockTypeOf_SharedUpload(c) == IF c.kind \in {"download", "upload"} THEN "read" ELSE "write"
LockTypeOf_SharedDelete(c) == IF c.kind \in {"download", "delete"} THEN "read" ELSE "write"

LockTypeOf(c) == IF c.kind = "download" THEN "read" ELSE "write"

\* The operation `do` of call c, as spawn_blocking queues it.
Queued(do, c) ==
  [do |-> do, step |-> "queued", path |-> c.path, to |-> c.to,
   found |-> Absent, data |-> "none"]

\* Mutant: an upload queues an operation nobody runs.
WorkOf_Unmapped(c) == Queued(c.kind, c)

\* The operation that does the work of a call.
WorkOf(c) ==
  Queued(CASE c.kind = "download" -> "read"
           [] c.kind = "upload"   -> "write"
           [] OTHER               -> c.kind, c)

\* The first operation a handler awaits: an upload with an expectation looks
\* at the file before it writes.
FirstOf(c) ==
  IF c.kind = "upload" /\ c.expected # Absent THEN Queued("stat", c) ELSE WorkOf(c)

\* Handlers whose path must exist when it is resolved: resolve_path
\* canonicalizes it.  resolve_new_path only wants the parent.
NeedsPath(c) == c.kind \in {"download", "delete", "rename"}

\* A request is routed to its handler, which has not run yet.
Arrive(r, c) ==
  /\ pc[r] = "idle" /\ call[r] = Absent /\ op[r] = Absent
  /\ call' = [call EXCEPT ![r] = c]
  /\ UNCHANGED <<lockVars, fileVars, op>>

Arrived(r) == call[r] # Absent /\ pc[r] = "idle" /\ op[r] = Absent

\* More of the body comes: the head of a file's part, or the rest.
BodyComes(r) ==
  /\ Arrived(r) /\ call[r].body # "whole"
  /\ call' = [call EXCEPT ![r].body =
                IF call[r].kind = "upload" /\ call[r].body = "none" THEN "name" ELSE "whole"]
  /\ UNCHANGED <<lockVars, fileVars, op>>

\* The body is malformed, too long, or ends without another file: the request
\* is answered, nothing done.
BodyFails(r) ==
  /\ Arrived(r) /\ call[r].body # "whole"
  /\ Locks!WorkerFree
  /\ call' = [call EXCEPT ![r] = Absent]
  /\ UNCHANGED <<lockVars, fileVars, op>>

\* A request that is wrong in itself is refused with 400: a file name as soon as
\* it is there, by sanitize_filename; the paths (none given, unknown mount, `..`,
\* no such parent, another mount in a rename) once the whole body is.  Which
\* requests are wrong is left open here: any may be.  A path that has to exist
\* and does not is certain to be refused.
Reject(r) ==
  /\ Arrived(r) /\ call[r].body \in {"name", "whole"}
  /\ Locks!WorkerFree
  /\ call' = [call EXCEPT ![r] = Absent]
  /\ UNCHANGED <<lockVars, fileVars, op>>

\* download, upload, delete_file, rename: the path resolves, acquire begins.
Begin(r) ==
  /\ Arrived(r)
  /\ call[r].kind # "mkdir"
  /\ call[r].body = "whole"
  /\ NeedsPath(call[r]) => Exists(call[r].path)
  /\ Locks!Begin(r, call[r].path, LockTypeOf(call[r]))
  /\ UNCHANGED <<fileVars, call, op>>

\* mkdir takes no lock.
BeginMkdir(r) ==
  /\ Arrived(r)
  /\ Locks!WorkerFree
  /\ call[r].kind = "mkdir"
  /\ op' = [op EXCEPT ![r] = WorkOf(call[r])]
  /\ UNCHANGED <<lockVars, fileVars, call>>

\* Mutant: the handler tries again.
Refused_Retrying(r) == Locks!Refuse(r) /\ UNCHANGED <<fileVars, call, op>>

\* acquire refuses: 409.
Refused(r) ==
  /\ Locks!Refuse(r)
  /\ call' = [call EXCEPT ![r] = Absent]
  /\ UNCHANGED <<fileVars, op>>

\* acquire succeeds, and the handler spawns its first operation.
Acquired(r) ==
  /\ Locks!Acquire(r)
  /\ op' = [op EXCEPT ![r] = FirstOf(call[r])]
  /\ UNCHANGED <<fileVars, call>>

\* Mutant: the guard is forgotten.
Answer_Leaking(r) ==
  /\ Locks!WorkerFree
  /\ call' = [call EXCEPT ![r] = Absent]
  /\ op' = [op EXCEPT ![r] = Absent]
  /\ UNCHANGED <<lockVars, fileVars>>

\* The handler returns, and its guard, if it has one, is released.
Answer(r) ==
  /\ IF pc[r] = "holding" THEN Locks!Release(r)
                          ELSE Locks!WorkerFree /\ UNCHANGED lockVars
  /\ call' = [call EXCEPT ![r] = Absent]
  /\ op' = [op EXCEPT ![r] = Absent]
  /\ UNCHANGED fileVars

Awaits(r, step) == call[r] # Absent /\ op[r] # Absent /\ op[r].step = step

\* Mutant: only a newer file is a conflict.
Mismatch_Newer(r) == op[r].found # Absent /\ op[r].found > call[r].expected

\* The OCC check.  A file that does not exist passes it.
Mismatch(r) == op[r].found # Absent /\ op[r].found # call[r].expected

\* The stat of an upload is back: on to the write, or 409.
Proceed(r) ==
  /\ Awaits(r, "ok") /\ op[r].do = "stat"
  /\ Locks!WorkerFree
  /\ ~Mismatch(r)
  /\ op' = [op EXCEPT ![r] = WorkOf(call[r])]
  /\ UNCHANGED <<lockVars, fileVars, call>>

Stale(r) ==
  /\ Awaits(r, "ok") /\ op[r].do = "stat"
  /\ Mismatch(r)
  /\ Answer(r)

\* The work is done: 200, or 400 (500 when it was the stat that failed).
Succeed(r) ==
  /\ Awaits(r, "ok") /\ op[r].do # "stat"
  /\ Answer(r)

Fail(r) ==
  /\ Awaits(r, "error")
  /\ Answer(r)

\* The guard's release, the second access.
Removed(r) ==
  /\ Locks!Remove(r)
  /\ UNCHANGED <<fileVars, call, op>>

\* The client goes away while the handler awaits its body or its operation: the
\* handler is dropped, and with it the guard; the operation is not stopped.
Cancel(r) ==
  /\ call[r] # Absent /\ (Arrived(r) \/ op[r] # Absent)
  /\ IF pc[r] = "holding" THEN Locks!Release(r)
                          ELSE Locks!WorkerFree /\ UNCHANGED lockVars
  /\ call' = [call EXCEPT ![r] = Absent]
  /\ op' = [op EXCEPT ![r] = 
             IF op[r] # Absent /\ op[r].step \notin {"ok", "error"} THEN @ ELSE Absent]
  /\ UNCHANGED fileVars

Time ==
  /\ Locks!Tick
  /\ UNCHANGED <<fileVars, call, op>>

----------------------------------------------------------------------------
(* Blocking operations.                                                    *)

Runs(r, do, step) == op[r] # Absent /\ op[r].do = do /\ op[r].step = step

\* The operation of r ends as o: nobody looks at it if its handler was dropped.
Ends(r, o) == op' = [op EXCEPT ![r] = IF call[r] = Absent THEN Absent ELSE o]

Ok(r) == [op[r] EXCEPT !.step = "ok"]
Error(r) == [op[r] EXCEPT !.step = "error"]

\* stat_file: Some((len, mtime)) or None.
Stat(r) ==
  LET p == op[r].path IN
  /\ Runs(r, "stat", "queued")
  /\ Ends(r, [Ok(r) EXCEPT !.found = IF Exists(p) THEN files[p].stamp ELSE Absent])
  /\ UNCHANGED <<lockVars, fileVars, call>>

\* read_file: std::fs::read, which fails on a directory.
Read(r) ==
  LET p == op[r].path IN
  /\ Runs(r, "read", "queued")
  /\ Ends(r, IF IsFile(p) THEN [Ok(r) EXCEPT !.data = files[p].data] ELSE Error(r))
  /\ UNCHANGED <<lockVars, fileVars, call>>

\* write_file: std::fs::write creates or truncates the file ...
Open(r) ==
  LET p == op[r].path IN
  /\ Runs(r, "write", "queued")
  /\ ~IsDir(p)
  /\ files' = [files EXCEPT ![p] = [dir |-> FALSE, stamp |-> clock, data |-> "empty"]]
  /\ open' = [open EXCEPT ![r] = p]
  /\ op' = [op EXCEPT ![r].step = "opened"]
  /\ UNCHANGED <<lockVars, call>>

\* ... and writes the bytes from offset 0.  Over the bytes of another write
\* the longer one shows at the end.
Fill(r) ==
  LET p == open[r] IN
  /\ Runs(r, "write", "opened")
  /\ IF p = Absent
       THEN files' = files
       ELSE \E d \in {"whole"} \cup (IF files[p].data = "empty" THEN {} ELSE {"mixed"}) :
              files' = [files EXCEPT ![p].data = d, ![p].stamp = clock]
  /\ open' = [open EXCEPT ![r] = Absent]
  /\ Ends(r, Ok(r))
  /\ UNCHANGED <<lockVars, call>>

\* delete_path: std::fs::metadata decides between remove_dir_all and
\* remove_file, and an absent path is a success ...
Look(r) ==
  LET p == op[r].path IN
  /\ Runs(r, "delete", "queued")
  /\ IF Exists(p)
       THEN op' = [op EXCEPT ![r].step = IF IsDir(p) THEN "saw_dir" ELSE "saw_file"]
       ELSE Ends(r, Ok(r))
  /\ UNCHANGED <<lockVars, fileVars, call>>

\* ... which fails if the path has gone or changed its type meanwhile.
Unlink(r) ==
  LET p    == op[r].path
      fits == \/ op[r].step = "saw_file" /\ IsFile(p)
              \/ op[r].step = "saw_dir" /\ IsDir(p) IN
  /\ Runs(r, "delete", "saw_file") \/ Runs(r, "delete", "saw_dir")
  /\ files' = IF fits THEN [files EXCEPT ![p] = Absent] ELSE files
  /\ open' = [s \in Request |-> IF fits /\ open[s] = p THEN Absent ELSE open[s]]
  /\ Ends(r, IF fits THEN Ok(r) ELSE Error(r))
  /\ UNCHANGED <<lockVars, call>>

\* rename_path: std::fs::rename replaces what is at the target, if it is of the
\* same type.  Whoever has the file open goes on writing to it.
Moves(p, q) ==
  /\ files' = [files EXCEPT ![q] = files[p], ![p] = Absent]
  /\ open' = [s \in Request |-> IF open[s] = p THEN q
                                  ELSE IF open[s] = q THEN Absent ELSE open[s]]

Rename(r) ==
  LET p == op[r].path
      q == op[r].to
      fits == Exists(p) /\ (Exists(q) => (IsDir(p) <=> IsDir(q))) IN
  /\ Runs(r, "rename", "queued")
  /\ IF fits /\ p # q THEN Moves(p, q) ELSE UNCHANGED fileVars
  /\ Ends(r, IF fits THEN Ok(r) ELSE Error(r))
  /\ UNCHANGED <<lockVars, call>>

\* create_dir: create_dir_all, a success if the directory exists.
Mkdir(r) ==
  LET p == op[r].path IN
  /\ Runs(r, "mkdir", "queued")
  /\ files' = IF Exists(p) THEN files
              ELSE [files EXCEPT ![p] = [dir |-> TRUE, stamp |-> clock, data |-> "empty"]]
  /\ Ends(r, IF IsFile(p) THEN Error(r) ELSE Ok(r))
  /\ UNCHANGED <<lockVars, call, open>>

\* Any operation may fail: no permission, no space, a device that is gone.  A
\* write may fail when the file has been truncated already.
IoError(r) ==
  /\ op[r] # Absent
  /\ op[r].step \notin {"ok", "error"}
  /\ files' = IF open[r] = Absent THEN files ELSE [files EXCEPT ![open[r]].data = "broken"]
  /\ open' = [open EXCEPT ![r] = Absent]
  /\ Ends(r, Error(r))
  /\ UNCHANGED <<lockVars, call>>

\* Another process creates, replaces or removes a file; whoever has the old one
\* open goes on writing to it.
Outside(p) ==
  /\ ~IsDir(p)
  /\ \E f \in {Absent, [dir |-> FALSE, stamp |-> clock, data |-> "whole"]} :
       files' = [files EXCEPT ![p] = f]
  /\ open' = [s \in Request |-> IF open[s] = p THEN Absent ELSE open[s]]
  /\ UNCHANGED <<lockVars, call, op>>

----------------------------------------------------------------------------
Calls ==
  {c \in [kind : Kind, path : Path, to : Path, expected : 0 .. MaxClock \cup {Absent},
          body : {"none", "whole"}] :
     /\ c.kind # "rename" => c.to = c.path
     /\ c.kind # "upload" => c.expected = Absent
     /\ c.body = "none" <=> c.kind \in {"upload", "rename"}}

Handle(r) ==
  \/ Reject(r) \/ Begin(r) \/ BeginMkdir(r)
  \/ Refused(r) \/ Acquired(r) \/ Removed(r)
  \/ Proceed(r) \/ Stale(r) \/ Succeed(r) \/ Fail(r)

Operate(r) ==
  \/ Stat(r) \/ Read(r) \/ Open(r) \/ Fill(r) \/ Look(r) \/ Unlink(r)
  \/ Rename(r) \/ Mkdir(r) \/ IoError(r)

\* What a client does, and nobody makes it do.
Client(r) ==
  \/ \E c \in Calls : Arrive(r, c)
  \/ BodyComes(r) \/ BodyFails(r) \/ Cancel(r)

Next ==
  \/ \E r \in Request : Client(r) \/ Handle(r) \/ Operate(r)
  \/ \E p \in Path : Outside(p)
  \/ Time

Spec == Init /\ [][Next]_vars

\* The runtime runs every task that is ready, on a worker that may be free only
\* now and then, and the blocking pool every operation.
FairSpec ==
  /\ Spec
  /\ \A r \in Request : SF_vars(Handle(r)) /\ WF_vars(Operate(r))

(***************************************************************************)
(* Prompt clients wait for the answer of an operation that runs, every     *)
(* lock is given back within TTL, no user has two requests on one path at  *)
(* a time, and no release loses the race for its key.  Careful clients,    *)
(* besides, rename nothing onto a path that a request is on; and no other  *)
(* process touches a file between the look and the write of an upload that *)
(* expects something of it.                                                *)
(***************************************************************************)
Prompt ==
  /\ \A r \in Request :
       /\ op[r] # Absent /\ call'[r] = Absent => op'[r] = Absent
       /\ pc'[r] # "idle" => clock' < Locks!ExpiresAt(r)'
  /\ Locks!OneRequestPerUserAndPath'
  /\ Locks!NoRace

NoRenameOnto ==
  \A q, r \in Request :
    /\ q # r /\ call[q] # Absent /\ call[r] # Absent
    /\ call[q].kind = "rename"
    => call[q].to \notin {call[r].path, call[r].to}

\* The upload of r has looked at its file and has not opened it yet.
Expects(r) ==
  /\ call[r] # Absent /\ call[r].expected # Absent
  /\ Runs(r, "stat", "ok") \/ Runs(r, "write", "queued")

Undisturbed ==
  \A r \in Request : Expects(r) /\ op' = op => files'[op[r].path] = files[op[r].path]

CarefulNext == Next /\ Prompt /\ NoRenameOnto' /\ Undisturbed

CarefulSpec == Init /\ [][CarefulNext]_vars

----------------------------------------------------------------------------
(* Properties.                                                             *)

\* Every variable has its type.
TypeOK ==
  /\ Locks!TypeOK
  /\ files \in [Path -> File \cup {Absent}]
  /\ call \in [Request -> Call \cup {Absent}]
  /\ op \in [Request -> Op \cup {Absent}]
  /\ open \in [Request -> Path \cup {Absent}]
  /\ \A r \in Request : open[r] # Absent => IsFile(open[r])

\* The lock covers the operation: two operations on one path on behalf of
\* different requests are both part of downloads, and the target of a rename
\* is left alone.  (mkdir takes no lock.)
Works(r) == op[r] # Absent /\ op[r].do # "mkdir"
PathsOf(o) == {o.path, o.to}

OperationsExclude ==
  \A q, r \in Request :
    /\ q # r /\ Works(q) /\ Works(r)
    /\ PathsOf(op[q]) \cap PathsOf(op[r]) # {}
    => op[q].do = "read" /\ op[r].do = "read"

\* A download never gives the bytes of an upload that is still being written,
\* nor those of two uploads mixed.
DownloadIsWhole ==
  \A r \in Request :
    Runs(r, "read", "ok") => op[r].data \in {"whole", "broken"}

\* Nothing is left half-written: a file that no write has open has all the bytes
\* of one upload, or those of one that has failed, however writes, renames and
\* deletes followed each other.
FilesSettle ==
  \A p \in Path :
    IsFile(p) /\ (\A r \in Request : open[r] # p) => files[p].data \in {"whole", "broken"}

\* Optimistic concurrency control: from the look of an upload at its file until
\* its own write opens it nobody touches the path, unless to make a directory
\* where there was nothing; so what the write truncates is what the look has
\* compared with the expectation: a file last written in the millisecond that the
\* client named.  (Two writes in one millisecond look alike to the code.)
Opens(r) == op'[r] # Absent /\ op'[r].step = "opened"

ExpectationHolds ==
  [][\A r \in Request : \A p \in Path :
       Expects(r) /\ op[r].path = p =>
         /\ Opens(r) /\ Exists(p) => files[p].stamp = call[r].expected
         /\ files'[p] # files[p] /\ ~Opens(r) => ~Exists(p) /\ IsDir(p)']_vars

\* Every request whose body has come is answered, or its client goes away; locks
\* are never waited for, so nobody waits for anybody.  (A request whose body does
\* not come waits for ever: the handlers set no timeout.)
EveryRequestEnds ==
  \A r \in Request : call[r] # Absent /\ call[r].body = "whole" ~> call[r] = Absent

\* Every lock is given back.
EveryLockEnds == \A r \in Request : pc[r] # "idle" ~> pc[r] = "idle"
=============================================================================
