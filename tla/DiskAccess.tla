----------------------------- MODULE DiskAccess -----------------------------
(***************************************************************************)
(* readSector and writeSector of project6/kernel.c: the number of a sector *)
(* becomes the track, the head and the sector on the track that interrupt  *)
(* 0x13 is given, by the loop of mod, in 16-bit and 8-bit arithmetic.  The *)
(* two functions differ in the number of the BIOS function only.  Names    *)
(* begin with Disk where the file system above has the same one.           *)
(***************************************************************************)
EXTENDS Integers

CONSTANT DiskSize   \* sectors of the disk, 2880 on the floppy of opsys.bxrc

\* Beyond 256 tracks of 36 sectors the track no longer fits its char.
ASSUME DiskSizeAssumption == DiskSize \in 1 .. 9216

VARIABLES
  pc,          \* which call of mod is running; "idle": none, the disk has spot
  absSector,   \* the sector asked for
  number, modulo, temp, div,   \* the variables of mod
  relSector,   \* what the first call of mod gave
  spot         \* what interrupt 0x13 was given last, for which sector

diskVars == <<pc, absSector, number, modulo, temp, div, relSector, spot>>

AbsSector == 0 .. DiskSize - 1

Byte == 0 .. 255

MaxInt == 32767

Int16(x) == ((x + 32768) % 65536) - 32768

Char(x) == x % 256

-----------------------------------------------------------------------------
DiskInit ==
  /\ pc = "idle"
  /\ absSector = 0
  /\ number = 0 /\ modulo = 1 /\ temp = 0 /\ div = 1
  /\ relSector = 1
  /\ spot = [sector |-> 0, track |-> 0, head |-> 0, relSector |-> 1]

\* mod(k, d) is called.
CallMod(k, d) == number' = k /\ modulo' = d /\ temp' = k /\ div' = d

BeginAccess(s) ==
  /\ pc = "idle"
  /\ pc' = "relSector"
  /\ absSector' = s
  /\ CallMod(s, 18)
  /\ UNCHANGED <<relSector, spot>>

\* Faulty: a number equal to the divisor is its own remainder.
InLoopStrict(k, m) == m < k

\* Faulty: the loop takes one turn more for the number below a multiple.
InLoopFurther(k, m) == m <= k + 1

InLoop(k, m) == m <= k

\* Faulty: the multiple of the divisor stays.
GrownNot(m, d) == m

Grown(m, d) == Int16(m + d)

Loop ==
  /\ pc \in {"relSector", "head"}
  /\ InLoop(number, modulo)
  /\ modulo' = Grown(modulo, div)
  /\ temp' = Int16(temp - div)
  /\ UNCHANGED <<pc, absSector, number, div, relSector, spot>>

RelSector ==
  /\ pc = "relSector"
  /\ ~InLoop(number, modulo)
  /\ pc' = "head"
  /\ relSector' = Char(temp + 1)
  /\ CallMod(absSector \div 18, 2)
  /\ UNCHANGED <<absSector, spot>>

\* The head is found, the track follows, and the disk is accessed.
Access ==
  /\ pc = "head"
  /\ ~InLoop(number, modulo)
  /\ pc' = "idle"
  /\ spot' = [sector |-> absSector, track |-> Char(absSector \div 36),
              head |-> Char(temp), relSector |-> relSector]
  /\ UNCHANGED <<absSector, number, modulo, temp, div, relSector>>

DiskNext == (\E s \in AbsSector : BeginAccess(s)) \/ Loop \/ RelSector \/ Access

DiskSpec == DiskInit /\ [][DiskNext]_diskVars

-----------------------------------------------------------------------------
\* No int overflows: the multiple of the divisor stays below MaxInt, and what
\* is left of the number does not get negative (kernel.c:738-746).
DiskTypeOK ==
  /\ pc \in {"idle", "relSector", "head"}
  /\ absSector \in AbsSector
  /\ number \in AbsSector
  /\ modulo \in 1 .. MaxInt
  /\ temp \in AbsSector
  /\ div \in {1, 2, 18}
  /\ relSector \in Byte
  /\ spot \in [sector : AbsSector, track : Byte, head : Byte, relSector : Byte]

\* The disk is given an existing head and sector, and a place that no other
\* sector has: the one that counting the sectors track by track, and on each
\* track head by head, leads to (kernel.c:752-764, 398-410).
RightPlace ==
  /\ spot.relSector \in 1 .. 18
  /\ spot.head \in 0 .. 1
  /\ spot.sector = (spot.track * 2 + spot.head) * 18 + spot.relSector - 1

\* Every turn of the loop brings its end nearer, so mod returns
\* (kernel.c:741-744).
LoopEnds ==
  [][pc' = pc /\ pc # "idle" =>
       number' = number /\ modulo <= number /\ modulo' > modulo]_diskVars
=============================================================================
