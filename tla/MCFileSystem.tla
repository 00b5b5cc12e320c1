---------------------------- MODULE MCFileSystem ----------------------------
(***************************************************************************)
(* Instances of FileSystem for TLC: the sizes programs ask for, and the    *)
(* kinds of calls that may run at the same time.                           *)
(***************************************************************************)
EXTENDS FileSystem, TLC

\* -1 is what the shell passes on when the file to copy is missing.
ShortSizes == {-1, 1, 2}

\* As many sectors as an entry lists, and one more.
LongSizes == {3, 4}

\* Readers, and one writer beside them.
ReadersAndWriter == {{"read"}, {"read", "write"}}

\* Processes, names and values are interchangeable.
Symmetry == Permutations(Proc) \cup Permutations(Name) \cup Permutations(Value)

\* Two writers.
Writers == {{"write"}}

\* A reader and a call that deletes.
ReaderAndDeletion == {{"read", "delete"}, {"read", "write"}}
=============================================================================
