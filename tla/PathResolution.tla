--------------------------- MODULE PathResolution ---------------------------
(***************************************************************************)
(* How a request's mount and path become the path that the service locks   *)
(* and works on: src/src/fs/path.rs, the mount points of                   *)
(* src/src/models/mount.rs, and the file names of an upload, sanitized by  *)
(* src/src/api/fs.rs.                                                      *)
(*                                                                         *)
(* A path string is the sequence of what stands between its slashes, so    *)
(* "/a/./b" is <<"", "a", ".", "b">> and "" is <<"">>.  A resolved path is *)
(* the sequence of names from the root.                                    *)
(***************************************************************************)
EXTENDS Integers, Sequences, SequencesExt

CONSTANTS
  MountEntries,  \* the entries of MOUNT_POINTS, trimmed: name and path; an
                 \* entry without a colon has the path ""
  TooLong,       \* file names of more than MAX_FILENAME_LEN bytes
  Mount, Spelling,  \* the mount names and paths that the properties range over
  FileName          \* the same for the file names of uploads

\* A spelling is any string between slashes; a mount point is configured by hand.
ASSUME PathAssumption ==
  /\ MountEntries \in Seq([name : STRING, path : Seq(STRING)])
  /\ Spelling \cup FileName \subseteq Seq(STRING)

VARIABLE tree    \* the files of the host: a function from paths to nodes

\* A link points to a path without links; "size" is that of a file.
Node(Path, Size) == [kind : {"dir", "file", "link"}, to : Path, size : Size]

\* Component::Normal, what a file can be called.
Normal == STRING \ {"", ".", ".."}

\* Files are in directories, and these in others up to the root.
IsTree(files) ==
  \A p \in DOMAIN files :
    /\ p \in Seq(Normal)
    /\ \A k \in 0 .. Len(p) - 1 : /\ SubSeq(p, 1, k) \in DOMAIN files
                                 /\ files[SubSeq(p, 1, k)].kind = "dir"

\* No path, no name: the component that no resolved path has.
NoName == ".."
Failed == <<NoName>>

Exists(p) == p \in DOMAIN tree
IsDir(p) == Exists(p) /\ tree[p].kind = "dir"
IsLink(p) == Exists(p) /\ tree[p].kind = "link"
Target(p) == IF IsLink(p) THEN tree[p].to ELSE p

----------------------------------------------------------------------------
(* std::path and realpath.                                                 *)

\* Path::components: no empty ones, and a "." only if it is all there is.
Components(rel) ==
  LET kept[i \in 0 .. Len(rel)] ==
        IF i = 0 THEN <<>>
        ELSE IF rel[i] \in {"", "."} THEN kept[i - 1] ELSE Append(kept[i - 1], rel[i])
  IN kept[Len(rel)]

\* Path::join: an absolute path replaces what it is joined to.
Join(base, rel) == IF Len(rel) > 1 /\ rel[1] = "" THEN rel ELSE base \o rel

\* One component of realpath.  A component after a file is an error, an empty
\* one and "." included.
Step(at, c) ==
  LET p == Target(Append(at, c))
  IN IF ~IsDir(at) THEN Failed
     ELSE IF c \in {"", "."} THEN at
     ELSE IF Exists(p) THEN p ELSE Failed

\* Path::canonicalize.
Canonicalize(path) ==
  LET at[i \in 0 .. Len(path)] == IF i = 0 THEN <<>> ELSE Step(at[i - 1], path[i])
  IN at[Len(path)]

----------------------------------------------------------------------------
\* MountPoint::parse_all keeps these entries.
MountPoints == {i \in DOMAIN MountEntries : MountEntries[i].name # "" /\ MountEntries[i].path # <<"">>}

\* The mount points of a name: there may be none.
Mounts(mount) == {i \in MountPoints : MountEntries[i].name = mount}

\* mount_points.iter().find(|m| m.name == mount_name) finds the first.
MountPoint(mount) == MountEntries[Min(Mounts(mount))]

HasPathTraversal(rel) == Contains(rel, "..")

\* Mutant: no trimming.
Trimmed_Not(rel) == rel

\* rel_path.trim_start_matches('/')
Trimmed(rel) ==
  LET named == {i \in DOMAIN rel : rel[i] # ""}
  IN IF named = {} THEN <<"">> ELSE SubSeq(rel, Min(named), Len(rel))

\* Mutant: the prefix is that of the mount point as configured.
Within_Configured(mount, p) == IF IsPrefix(Components(mount.path), p) THEN p ELSE Failed

\* canonical.starts_with(&mount_canonical)
Within(mount, p) ==
  LET root == Canonicalize(mount.path)
  IN IF root # Failed /\ p # Failed /\ IsPrefix(root, p) THEN p ELSE Failed

ResolvePath(mount, rel) ==
  IF Mounts(mount) = {} \/ HasPathTraversal(rel) THEN Failed
  ELSE LET m == MountPoint(mount)
       IN Within(m, Canonicalize(Join(m.path, Trimmed(rel))))

\* Mutant: the path as it was given.
Child_AsGiven(parent, full) == full

\* parent_canonical.join(file_name)
Child(parent, full) == Append(parent, Last(full))

\* The target may not exist, but its parent must.
ResolveNewPath(mount, rel) ==
  IF Mounts(mount) = {} \/ HasPathTraversal(rel) THEN Failed
  ELSE LET m      == MountPoint(mount)
           full   == Components(Join(m.path, Trimmed(rel)))
           parent == Within(m, Canonicalize(Front(full)))
       IN IF full # <<>> /\ parent # Failed THEN Child(parent, full) ELSE Failed

\* Mutant: directories in front of a file name are kept.
SanitizeFilename_Keeping(raw) == IF Components(raw) = <<>> THEN <<NoName>> ELSE raw

\* Path::file_name, which a path that ends in ".." has not, and a limit on its
\* length: a path of one component, or <<NoName>>.
SanitizeFilename(raw) ==
  LET names == Components(raw)
  IN IF names = <<>> \/ Last(names) \in TooLong THEN <<NoName>> ELSE <<Last(names)>>

\* upload: format!("{}/{}", path, filename).
UploadPath(mount, dir, raw) ==
  LET name == SanitizeFilename(raw)
  IN IF name = <<NoName>> THEN Failed ELSE ResolveNewPath(mount, dir \o name)

\* std::fs::write(p).  The last component of p is as the client named it, and
\* when it is a link the write follows it, wherever it leads.
Written(p) == Target(p)

----------------------------------------------------------------------------
(* Properties of the paths that requests may spell, on any tree.           *)

\* Uploads and targets of renames are resolved by one function and everything
\* else by another, and the spellings of a path are many.  Where both functions
\* answer, what an upload of a path writes is what a download of it reads, and
\* both lock it under one key unless the path itself is a link: the key of the
\* upload is then the link's own name, and that of the download what it leads to.
KeysAgree ==
  \A m \in Mount, s \in Spelling :
    LET old == ResolvePath(m, s)
        new == ResolveNewPath(m, s)
    IN old # Failed /\ new # Failed => old = Written(new)

\* Every file of a mounted directory can be reached by its plain path, with a
\* slash in front or without, even if the mount point itself is a link.
FilesAreReachable ==
  \A m \in Mount : LET root == Canonicalize(MountPoint(m).path) IN
    \A p \in DOMAIN tree :
      Mounts(m) # {} /\ p # root /\ IsPrefix(root, p) /\ ~IsLink(p) =>
        LET plain == SubSeq(p, Len(root) + 1, Len(p))
        IN ResolvePath(m, plain) = p /\ ResolvePath(m, <<"">> \o plain) = p

\* Whatever file name a client gives, the bytes of an upload go into the
\* directory that its path names, under the last component of the file name.
\* The one exception is an entry of that name that is a link: they go to what it
\* leads to, inside of the mount or not, since only the parent was compared with
\* the mount.  A client that asks for what it has uploaded gets these bytes, or
\* is refused.
UploadsStayInDirectory ==
  \A m \in Mount, s \in Spelling, raw \in FileName :
    LET p     == UploadPath(m, s, raw)
        name  == Last(Components(raw))
        entry == Append(ResolvePath(m, s), name)
    IN p # Failed /\ IsDir(Front(p)) =>
         /\ Written(p) = IF IsLink(entry) THEN tree[entry].to ELSE entry
         /\ ResolvePath(m, Append(s, name)) \in {Failed, Written(p)}
=============================================================================
