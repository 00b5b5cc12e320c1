----------------------------- MODULE FileSystem -----------------------------
(***************************************************************************)
(* The file system of project6/kernel.c: readFile, writeFile and           *)
(* deleteFile on a disk whose sector 1 is the map of the used sectors and  *)
(* whose sector 2 is the directory.                                        *)
(*                                                                         *)
(* A call works on copies of the two sectors on the stack of the process   *)
(* that made it.  A step is one call of the BIOS to read or write a        *)
(* sector, with the work on the copies up to the next one; the timer may   *)
(* switch to another process between two steps, and the power may fail.    *)
(*                                                                         *)
(* The code is not safe in every situation; Exposed says which of the      *)
(* unsafe ones an instance lets happen and MayOverlap which kinds of calls *)
(* it lets run at the same time:                                           *)
(*   "shrink"  a file is written again with fewer sectors than it has      *)
(*   "full"    a file is written that the free sectors cannot hold         *)
(*   "crash"   the power fails between the two last steps of writeFile     *)
(*   "again"   loadFile copies a file whose name is in the directory       *)
(* A file of MaxSectors sectors is one more, excluded by Sizes, and so is  *)
(* a map of more sectors than fit the byte that lists them, excluded by    *)
(* ByteRange.                                                              *)
(*                                                                         *)
(* loadFile.c writes the same disk from the host, while the machine is     *)
(* off; it is one step.                                                    *)
(***************************************************************************)
EXTENDS Integers, Sequences, FiniteSets, FiniteSetsExt

CONSTANTS
  Proc,         \* the processes that make file calls
  Name,         \* names of files
  NoName,       \* the name of a directory entry that is not in use
  System,       \* the name of the kernel's own file, which nobody asks for
  NSectors,     \* sectors 0 .. NSectors - 1 have an entry in the map
  NSystem,      \* the boot sector, the map, the directory and the kernel
  NEntries,     \* entries in the directory, 16 in kernel.c:44
  MaxSectors,   \* sectors in an entry, 26 in kernel.c:39
  ByteRange,    \* numbers a char holds; the map has 512 entries in kernel.c:511
  Sizes,        \* the number of sectors a program asks writeFile to write
  LoadSizes,    \* the number of sectors loadFile fills with a file
  Value,        \* what a program may put into a file
  Blank,        \* what is in a sector nobody has written
  Absent,       \* what a file that does not exist holds
  MayOverlap,   \* sets of kinds of calls that may run at the same time
  Exposed       \* the unsafe situations that may happen

Sector == 0 .. NSectors - 1
Entry == 1 .. NEntries
Slot == 1 .. MaxSectors

ASSUME SystemAssumption ==
  NSectors \in Nat /\ NSystem \in 4 .. NSectors /\ NSystem - 3 <= MaxSectors
ASSUME NameAssumption == NoName \notin Name /\ System \notin Name \cup {NoName}
ASSUME CountAssumption == {NEntries, MaxSectors, ByteRange} \subseteq Nat \ {0}
ASSUME LoadAssumption == LoadSizes \subseteq Nat \ {0}

VARIABLES
  used,    \* sector 1: the sectors not free
  dir,     \* sector 2: the name and the sector list of every entry
  block,   \* what is in every sector
  call,    \* the file call each process is in
  wild     \* a call has read beyond the sector list of an entry, or written
           \* data over the map or the directory

vars == <<used, dir, block, call, wild>>

Kinds == {"read", "write", "delete"}

-----------------------------------------------------------------------------
(* A directory entry: the list of its sectors ends at the first 0, and     *)
(* nothing ends the list of a file that fills it.                          *)

Full(entry) == \A k \in Slot : entry.sectors[k] # 0

Length(entry) ==
  IF Full(entry) THEN MaxSectors
  ELSE Min({k \in Slot : entry.sectors[k] = 0}) - 1

Listed(entry) == {entry.sectors[k] : k \in 1 .. Length(entry)}

\* The entries of a directory that hold the name, in all six characters.
Matches(d, n) == {e \in Entry : d[e].name = n}

\* What a process finds on the disk under the name n.
Stored(n) ==
  IF Matches(dir, n) = {} THEN Absent
  ELSE LET entry == dir[Min(Matches(dir, n))]
       IN  [k \in 1 .. Length(entry) |-> block[entry.sectors[k]]]

-----------------------------------------------------------------------------
(* A call: its kind and arguments, the step it is at, the copies it has    *)
(* made, the entry it works on, the sectors that are still to transfer and *)
(* those transferred.  Of a finished call only what readFile read is kept, *)
(* and as history what the file held when its directory entry was read.    *)

NoDir == <<>>

Idle == [kind |-> "none", pc |-> "idle", name |-> NoName, size |-> 0,
         value |-> Blank, dirBuffer |-> NoDir, diskMap |-> {}, entry |-> 0,
         z |-> 0, k |-> 0, buf |-> <<>>, held |-> <<>>]

At(p, l) == ~wild /\ call[p].pc = l

MayBegin(p, kind) ==
  /\ At(p, "idle")
  /\ \A r \in Proc \ {p} :
       call[r].pc # "idle" => {kind, call[r].kind} \in MayOverlap

Begin(p, c) ==
  /\ call' = [call EXCEPT ![p] = c]
  /\ UNCHANGED <<used, dir, block, wild>>

-----------------------------------------------------------------------------
\* The disk image the project is built with: one file, the kernel.
Init ==
  /\ used = 0 .. NSystem - 1
  /\ dir = [e \in Entry |->
              [name |-> IF e = 1 THEN System ELSE NoName,
               sectors |-> [k \in Slot |->
                              IF e = 1 /\ k + 2 < NSystem THEN k + 2 ELSE 0]]]
  /\ block = [s \in Sector |-> Blank]
  /\ call = [p \in Proc |-> Idle]
  /\ wild = FALSE

BeginRead(p, n) ==
  /\ MayBegin(p, "read")
  /\ Begin(p, [Idle EXCEPT !.kind = "read", !.pc = "readDir", !.name = n])

BeginDelete(p, n) ==
  /\ MayBegin(p, "delete")
  /\ Begin(p, [Idle EXCEPT !.kind = "delete", !.pc = "readDir", !.name = n])

\* writeFile writes at most as many sectors as an entry can list.
Capped(size) == IF size > MaxSectors THEN MaxSectors ELSE size

BeginWrite(p, n, size, v) ==
  /\ MayBegin(p, "write")
  /\ "shrink" \in Exposed
       \/ \A e \in Matches(dir, n) : Length(dir[e]) <= size
  /\ "full" \in Exposed \/ Capped(size) <= Cardinality(Sector \ used)
  /\ Begin(p, [Idle EXCEPT !.kind = "write", !.pc = "readDir", !.name = n,
                           !.size = Capped(size), !.value = v])

-----------------------------------------------------------------------------
(* readFile.                                                               *)

\* Reads the directory and finds the file; a missing file ends the call.
ReadDirectory(p) ==
  /\ At(p, "readDir")
  /\ LET c == [call[p] EXCEPT !.dirBuffer = dir]
         found == Matches(dir, c.name)
     IN  call' = [call EXCEPT ![p] =
           CASE c.kind # "read" -> [c EXCEPT !.pc = "readMap"]
             [] c.kind = "read" /\ found = {} ->
                  [Idle EXCEPT !.kind = "read"]
             [] c.kind = "read" /\ found # {} ->
                  [c EXCEPT !.pc = "fetch", !.entry = Min(found), !.z = 1,
                            !.held = Stored(c.name)]]
  /\ UNCHANGED <<used, dir, block, wild>>

\* Reads the next sector of the file, until the list ends.
Fetch(p) ==
  /\ At(p, "fetch")
  /\ LET c == call[p]
         entry == c.dirBuffer[c.entry]
     IN  IF c.z > MaxSectors
           THEN wild' = TRUE /\ UNCHANGED call
         ELSE IF entry.sectors[c.z] = 0
           THEN /\ call' = [call EXCEPT ![p] =
                     [Idle EXCEPT !.kind = "read", !.buf = c.buf,
                                  !.held = c.held]]
                /\ UNCHANGED wild
         ELSE /\ call' = [call EXCEPT ![p].z = c.z + 1,
                    ![p].buf = Append(@, block[entry.sectors[c.z]])]
              /\ UNCHANGED wild
  /\ UNCHANGED <<used, dir, block>>

-----------------------------------------------------------------------------
(* writeFile.                                                              *)

\* The m-th free sector of a map.

\* Faulty: the map is not looked at.
UnusedAny(u, m) == NSystem + m - 1

Unused(u, m) ==
  CHOOSE s \in Sector \ u : Cardinality({r \in Sector \ u : r < s}) = m - 1

\* The first count sectors of unusedSectors.  The search fills as many as
\* there are free sectors; the rest is what the stack held before, here any
\* sector number.
Allocations(u, count) ==
  LET free == Cardinality(Sector \ u)
      Residue == IF count <= free THEN {<<>>} ELSE [free + 1 .. count -> Sector]
  IN  {[m \in 1 .. count |-> IF m <= free THEN Unused(u, m) ELSE rest[m]] :
         rest \in Residue}

\* Faulty: the sectors are not marked.
MarkedNot(u, sectors) == u

Marked(u, sectors) == u \cup {sectors[m] : m \in DOMAIN sectors}

\* The entry of a file that has sectors, each in a byte: what lies behind them
\* stays.
Entered(entry, n, sectors) ==
  [name |-> n,
   sectors |-> [k \in Slot |-> IF k \in DOMAIN sectors
                               THEN sectors[k] % ByteRange
                               ELSE entry.sectors[k]]]

\* Reads the map, then changes both copies: the entry of that name, or else
\* the first one not in use, gets the first free sectors.
ReadMapToWrite(p) ==
  /\ At(p, "readMap") /\ call[p].kind = "write"
  /\ LET c == call[p]
         entries == IF Matches(c.dirBuffer, c.name) # {}
                    THEN Matches(c.dirBuffer, c.name)
                    ELSE Matches(c.dirBuffer, NoName)
         e == Min(entries)
         count == IF c.size < 0 THEN 0 ELSE c.size
         free == Cardinality(Sector \ used)
         k == IF count <= free THEN count ELSE free
     IN  IF entries = {}
           THEN call' = [call EXCEPT ![p] = Idle]
           ELSE \E sectors \in Allocations(used, count) :
             call' = [call EXCEPT ![p] =
               [c EXCEPT !.pc = IF k = 0 THEN "writeDir" ELSE "writeData",
                         !.entry = e, !.z = 1, !.k = k,
                         !.diskMap = Marked(used, sectors),
                         !.dirBuffer[e] = Entered(@, c.name, sectors)]]
  /\ UNCHANGED <<used, dir, block, wild>>

\* Writes the next sector of the buffer.
WriteData(p) ==
  /\ At(p, "writeData")
  /\ LET c == call[p]
         s == c.dirBuffer[c.entry].sectors[c.z]
     IN  /\ block' = [block EXCEPT ![s] = <<c.value, c.z>>]
         /\ wild' = (s \in {1, 2})
         /\ call' = [call EXCEPT ![p].z = c.z + 1,
                       ![p].pc = IF c.z = c.k THEN "writeDir" ELSE @]
  /\ UNCHANGED <<used, dir>>

WriteDirectory(p) ==
  /\ At(p, "writeDir")
  /\ dir' = call[p].dirBuffer
  /\ call' = [call EXCEPT ![p].pc = "writeMap"]
  /\ UNCHANGED <<used, block, wild>>

WriteMap(p) ==
  /\ At(p, "writeMap")
  /\ used' = call[p].diskMap
  /\ call' = [call EXCEPT ![p] = Idle]
  /\ UNCHANGED <<dir, block, wild>>

-----------------------------------------------------------------------------
(* deleteFile.                                                             *)

\* Faulty: the list stays in the entry.
ErasedNameOnly(entry) == [entry EXCEPT !.name = NoName]

Erased(entry) ==
  [name |-> NoName,
   sectors |-> [k \in Slot |-> IF k <= Length(entry) THEN 0
                               ELSE entry.sectors[k]]]

\* Faulty: the first sector is forgotten.
FreedButFirst(u, entry) == u \ {entry.sectors[k] : k \in 2 .. Length(entry)}

Freed(u, entry) == u \ Listed(entry)

\* Reads the map, then changes both copies: the sectors of the file are free
\* and its entry is not in use.  A list without an end is followed into the
\* next entry.
ReadMapToDelete(p) ==
  /\ At(p, "readMap") /\ call[p].kind = "delete"
  /\ LET c == call[p]
         entries == Matches(c.dirBuffer, c.name)
         e == Min(entries)
     IN  IF entries = {}
           THEN call' = [call EXCEPT ![p] = Idle] /\ UNCHANGED wild
           ELSE /\ wild' = Full(c.dirBuffer[e])
                /\ call' = [call EXCEPT ![p] =
                     [c EXCEPT !.pc = "writeDir", !.entry = e,
                               !.diskMap = Freed(used, c.dirBuffer[e]),
                               !.dirBuffer[e] = Erased(@)]]
  /\ UNCHANGED <<used, dir, block>>

-----------------------------------------------------------------------------
(* loadFile.c.                                                             *)

\* The first free entry and the first free sectors, whatever the name; each
\* sector is written as it is found, map and directory at the end.  Without
\* enough sectors, or with too many, only the data are written.
Load(n, size, v) ==
  /\ ~wild /\ \A p \in Proc : call[p].pc = "idle"
  /\ "again" \in Exposed \/ Matches(dir, n) = {}
  /\ Matches(dir, NoName) # {}
  /\ LET e == Min(Matches(dir, NoName))
         u == used \cup {s \in Sector : s >= ByteRange}
         count == Min({size, MaxSectors, Cardinality(Sector \ u)})
         sectors == [m \in 1 .. count |-> Unused(u, m)]
     IN  /\ block' = [s \in Sector |->
               IF \E m \in 1 .. count : sectors[m] = s
               THEN <<v, CHOOSE m \in 1 .. count : sectors[m] = s>>
               ELSE block[s]]
         /\ IF count < size
              THEN UNCHANGED <<used, dir>>
              ELSE /\ used' = Marked(used, sectors)
                   /\ dir' = [dir EXCEPT ![e] = Entered(@, n, sectors)]
  /\ UNCHANGED <<call, wild>>

-----------------------------------------------------------------------------
\* The power fails; the calls are gone and the disk stays as it is.
Crash ==
  /\ "crash" \in Exposed
       \/ \A p \in Proc : ~(call[p].kind = "write" /\ call[p].pc = "writeMap")
  /\ call' = [p \in Proc |-> Idle]
  /\ UNCHANGED <<used, dir, block, wild>>

Next ==
  \/ \E p \in Proc :
       \/ \E n \in Name : BeginRead(p, n) \/ BeginDelete(p, n)
       \/ \E n \in Name, size \in Sizes, v \in Value : BeginWrite(p, n, size, v)
       \/ ReadDirectory(p)
       \/ Fetch(p)
       \/ ReadMapToWrite(p)
       \/ ReadMapToDelete(p)
       \/ WriteData(p)
       \/ WriteDirectory(p)
       \/ WriteMap(p)
  \/ \E n \in Name, size \in LoadSizes, v \in Value : Load(n, size, v)
  \/ Crash

Spec == Init /\ [][Next]_vars

-----------------------------------------------------------------------------
Block == {Blank} \cup (Value \X Slot)

DirEntry == [name : Name \cup {NoName, System}, sectors : [Slot -> Sector]]

\* No sector belongs to two files, nor twice to one, and no file of a program
\* holds a sector of the system (kernel.c:510-530).
NoCrossLink ==
  /\ \A e, f \in Entry :
       \A i \in 1 .. Length(dir[e]), j \in 1 .. Length(dir[f]) :
         dir[e].sectors[i] = dir[f].sectors[j] => e = f /\ i = j
  /\ \A e \in Entry : dir[e].name # System =>
       \A i \in 1 .. Length(dir[e]) : dir[e].sectors[i] >= NSystem

\* Between calls that write, every sector of every file is marked as taken, so
\* that no later writeFile can be given it (kernel.c:524-529, 541-542).
ListedAreUsed ==
  (\A p \in Proc : call[p].pc # "writeMap") =>
    \A e \in Entry : Listed(dir[e]) \subseteq used

\* No call reads beyond the 26 sectors of an entry, and none writes data over
\* the map or the directory (kernel.c:434, 526-538, 623).
NoOverrun == ~wild

\* readFile returns the file as it was when it read the directory, even if the
\* file is written again meanwhile (kernel.c:604-632).
ReadWhole ==
  \A p \in Proc : call[p].pc = "idle" => call[p].buf = call[p].held

\* Sectors no call can be given any more: marked, in no list, and not about to
\* be freed by a deletion under way.
Lost ==
  {s \in used : /\ s >= NSystem
                /\ \A e \in Entry : s \notin Listed(dir[e])
                /\ \A p \in Proc : call[p].pc = "writeMap"
                                   => s \in call[p].diskMap}

\* Only a file written again, or a power failure, loses sectors; every other
\* call keeps map and directory in step (kernel.c:434-442, 510-542).
OnlyRewritesLose ==
  [][\A s \in Lost' \ Lost :
       \/ \E p \in Proc : /\ call[p].kind = "write" /\ call[p].pc = "writeDir"
                          /\ s \in Listed(dir[call[p].entry])
       \/ \A p \in Proc : call'[p] = Idle]_vars

\* No call writes data over the boot sector, the map, the directory or the
\* kernel: they are marked in the map (kernel.c:522-531).
SystemIntact == \A s \in 0 .. NSystem - 1 : block[s] = Blank

\* What the call of p will make the file hold once the directory is written.
Wanted(c) == IF c.kind = "delete" THEN Absent
             ELSE [k \in 1 .. c.size |-> <<c.value, k>>]

Asked(p) ==
  IF call[p].kind \in {"write", "delete"}
     /\ call[p].pc \in {"readDir", "readMap", "writeData", "writeDir"}
  THEN [name |-> call[p].name, content |-> Wanted(call[p])]
  ELSE NoName

\* A file changes when the directory is written, at once and to what the call
\* asked for, or, if the power fails before, not at all; no call changes
\* another file (kernel.c:412-550).
Store == INSTANCE FileStore WITH
           Content <- {c \in Seq(Block) : Len(c) <= MaxSectors},
           NoRequest <- NoName,
           files <- [n \in Name |-> Stored(n)],
           asked <- [p \in Proc |-> Asked(p)]

ImplementsFileStore == Store!Spec
=============================================================================
