--------------------------- MODULE MCFileWatcher ---------------------------
(* Small instances of FileWatcher for TLC. *)
EXTENDS FileWatcher, TLC

\* Streams, directories and watches are each interchangeable.
Interchangeable == Permutations(Stream) \cup Permutations(Dir) \cup Permutations(Watch)
=============================================================================
