--------------------------- MODULE SafeFileSystem ---------------------------
(***************************************************************************)
(* The file system used as project6 uses it, and the invariants that hold  *)
(* of it for any disk, any number of processes and any names.              *)
(*                                                                         *)
(* The assumptions say which situations the code relies on: one call at a  *)
(* time changes the disk, the disk has room for what is written, no file   *)
(* fills its entry, the numbers of the sectors fit a byte and the power    *)
(* holds between the two last steps of writeFile.  What happens outside    *)
(* each of them is a run of FileSystem of its own.                         *)
(***************************************************************************)
EXTENDS FileSystem

\* Only one call at a time changes the disk.
ASSUME WritersAssumption ==
  {{"write"}, {"delete"}, {"write", "delete"}} \cap MayOverlap = {}

\* No file is deleted while it is read.
ASSUME ReadersAssumption == {"read", "delete"} \notin MayOverlap

ASSUME RoomAssumption == "full" \notin Exposed

ASSUME PowerAssumption == "crash" \notin Exposed

\* A file is not written again with fewer sectors, and not loaded again.
ASSUME RewriteAssumption == "shrink" \notin Exposed /\ "again" \notin Exposed

\* Every entry keeps a zero behind its list.
ASSUME SizesAssumption ==
  /\ Sizes \subseteq Int /\ \A size \in Sizes : size < MaxSectors
  /\ \A size \in LoadSizes : size < MaxSectors

ASSUME ByteAssumption == NSectors <= ByteRange

\* No name is a pair of a name and a content.
ASSUME RequestAssumption == NoName \notin Store!Request

-----------------------------------------------------------------------------
Steps == {"idle", "readDir", "readMap", "fetch", "writeData", "writeDir",
          "writeMap"}

Directory == [Entry -> DirEntry]

Call == [kind : Kinds \cup {"none"}, pc : Steps, name : Name \cup {NoName},
         size : Int, value : Value \cup {Blank},
         dirBuffer : Directory \cup {NoDir}, diskMap : SUBSET Sector,
         entry : Nat, z : Nat, k : Nat, buf : Seq(Block), held : Seq(Block)]

TypeOK ==
  /\ used \in SUBSET Sector
  /\ dir \in Directory
  /\ block \in [Sector -> Block]
  /\ call \in [Proc -> Call]
  /\ wild = FALSE

-----------------------------------------------------------------------------
(* A directory and a map that agree.  A slot with a 0 is empty; the slots  *)
(* that are not come first, so they are the list.                          *)

Tidy(entry) ==
  \A i, j \in Slot : i < j /\ entry.sectors[i] = 0 => entry.sectors[j] = 0

Distinct(d) ==
  \A e, f \in Entry : \A i, j \in Slot :
    d[e].sectors[i] # 0 /\ d[e].sectors[i] = d[f].sectors[j] => e = f /\ i = j

Ended(entry) == entry.sectors[MaxSectors] = 0

Agree(d, u) ==
  /\ 0 .. NSystem - 1 \subseteq u
  /\ \A e \in Entry : Tidy(d[e])
  /\ Distinct(d)
  /\ \A e \in Entry : \A k \in Slot : d[e].sectors[k] \in u
  /\ \A e \in Entry : d[e].name # System =>
       /\ Ended(d[e])
       /\ \A k \in Slot : d[e].sectors[k] # 0 => d[e].sectors[k] >= NSystem
  /\ \A e \in Entry : d[e].name = NoName =>
       \A k \in Slot : d[e].sectors[k] = 0

\* The map, or the one writeFile is about to write.
Rewriting(p) == call[p].kind = "write" /\ call[p].pc = "writeMap"

Taken == used \cup UNION {call[p].diskMap : p \in {r \in Proc : Rewriting(r)}}

-----------------------------------------------------------------------------
(* The parts of the invariant.                                             *)

\* What the fields of a call are at each step.
CallExact(c) ==
  /\ c.pc # "idle" => c.name \in Name
  /\ c.pc = "readDir" => c.kind \in Kinds
  /\ c.pc = "fetch" => c.kind = "read"
  /\ c.pc \in {"readMap", "writeDir", "writeMap"} => c.kind \in {"write", "delete"}
  /\ c.pc = "writeData" => c.kind = "write" /\ c.z \in 1 .. c.k
  /\ c.kind = "write" /\ c.pc # "idle" => c.value \in Value /\ c.size < MaxSectors
  /\ c.pc \notin {"idle", "readDir"} => c.dirBuffer \in Directory
  /\ c.pc \in {"fetch", "writeData", "writeDir", "writeMap"} => c.entry \in Entry

CallsExact == \A p \in Proc : CallExact(call[p])

\* Calls that change the disk run alone, so the others still see the disk they
\* have read.
OverlapsAllowed ==
  \A p, r \in Proc : p # r /\ call[p].pc # "idle" /\ call[r].pc # "idle" =>
    {call[p].kind, call[r].kind} \in MayOverlap

\* What a call has read is what is on the disk, and its copies agree with each
\* other; what it writes data to is free on the disk.
CopyExact(c) ==
  /\ c.pc = "readMap" => c.dirBuffer = dir
  /\ c.kind = "write" /\ c.pc \in {"readDir", "readMap"} =>
       c.size <= Cardinality(Sector \ used)
  /\ c.pc \in {"writeData", "writeDir", "writeMap"} => Agree(c.dirBuffer, c.diskMap)
  /\ c.pc \in {"writeData", "writeDir"} =>
       \A f \in Entry \ {c.entry} : c.dirBuffer[f] = dir[f]
  /\ c.pc = "writeMap" => c.dirBuffer = dir
  /\ c.kind = "write" /\ c.pc \in {"writeData", "writeDir"} =>
       /\ c.k < MaxSectors
       /\ \A m \in 1 .. c.k : c.dirBuffer[c.entry].sectors[m] \notin used
  /\ c.kind = "write" /\ c.pc \in {"writeData", "writeDir", "writeMap"} =>
       /\ used \subseteq c.diskMap
       /\ c.diskMap \subseteq used \cup Listed(c.dirBuffer[c.entry])
  /\ c.kind = "delete" /\ c.pc = "writeDir" =>
       c.diskMap = used \ Listed(dir[c.entry])
  /\ c.kind = "delete" /\ c.pc = "writeMap" => c.diskMap \subseteq used

CopiesExact == \A p \in Proc : CopyExact(call[p])

\* A reader has not come to the end of the list.
FetchExact(c) ==
  c.pc = "fetch" => c.z \in Slot /\ Ended(c.dirBuffer[c.entry])

FetchesExact == \A p \in Proc : FetchExact(call[p])

DiskExact == Agree(dir, Taken)

IInv ==
  /\ TypeOK
  /\ CallsExact
  /\ OverlapsAllowed
  /\ CopiesExact
  /\ FetchesExact
  /\ DiskExact
  /\ SystemIntact

-----------------------------------------------------------------------------
(* Readers: nothing is written over the sectors a reader is yet to fetch.  *)

ReaderExact(c) ==
  LET entry == c.dirBuffer[c.entry] IN
    /\ c.pc \notin {"fetch", "idle"} => c.buf = <<>> /\ c.held = <<>>
    /\ c.pc = "idle" => c.buf = c.held
    /\ c.pc = "fetch" =>
         /\ Tidy(entry)
         /\ \A k \in Slot : entry.sectors[k] \in Taken
         /\ Len(c.held) = Length(entry)
         /\ c.z <= Length(entry) + 1
         /\ \A k \in 1 .. Length(entry) : block[entry.sectors[k]] = c.held[k]
         /\ c.buf = SubSeq(c.held, 1, c.z - 1)

ReadersExact == \A p \in Proc : ReaderExact(call[p])

-----------------------------------------------------------------------------
(* Files: the copies of a call hold the file it was asked for, and no name *)
(* is in the directory twice.                                              *)

NamesUnique ==
  \A e, f \in Entry : dir[e].name = dir[f].name /\ dir[e].name \in Name => e = f

FileExact(c) ==
  LET new == c.dirBuffer[c.entry] IN
    /\ c.kind = "write" /\ c.pc \in {"readDir", "readMap"} =>
         \A e \in Matches(dir, c.name) : Length(dir[e]) <= c.size
    /\ c.kind = "write" /\ c.pc \in {"writeData", "writeDir"} =>
         /\ new.name = c.name
         /\ Length(new) = c.k
         /\ c.k = IF c.size < 0 THEN 0 ELSE c.size
         /\ \/ dir[c.entry].name = c.name
            \/ dir[c.entry].name = NoName /\ Matches(dir, c.name) = {}
         /\ \A m \in 1 .. c.k : m < c.z \/ c.pc = "writeDir" =>
              block[new.sectors[m]] = <<c.value, m>>
    /\ c.kind = "delete" /\ c.pc = "writeDir" =>
         /\ dir[c.entry].name = c.name
         /\ new.name = NoName

FilesExact == \A p \in Proc : FileExact(call[p])
=============================================================================
