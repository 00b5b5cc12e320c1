-------------------------- MODULE FileSystemProofs --------------------------
(***************************************************************************)
(* Proofs about the file system: what its operators compute, the invariant *)
(* of SafeFileSystem, and that the file system is a store of files.  The   *)
(* last part is about the disk below it, for every disk of up to 256       *)
(* tracks: mod stays within its integers and returns, and every sector is  *)
(* looked for in the right place.                                          *)
(***************************************************************************)
EXTENDS SafeFileSystem, DiskAccess, FiniteSetTheorems, TLAPS

-----------------------------------------------------------------------------
(* The operators of the file system.                                       *)

\* Every nonempty set of natural numbers has a least element.
LEMMA LeastNatural ==
  ASSUME NEW T \in SUBSET Nat, T # {}
  PROVE  \E m \in T : \A k \in T : m <= k
<1> DEFINE R == {pair \in Nat \X Nat : pair[1] < pair[2]}
<1>1. IsWellFoundedOn(R, Nat)
  BY NatLessThanWellFounded, Zenon DEF OpToRel
<1>2. \A m, k \in T : <<k, m>> \notin R => m <= k
  OBVIOUS
<1> HIDE DEF R
<1>3. PICK m \in T : \A k \in T : <<k, m>> \notin R
  BY <1>1, WFMin
<1> QED
  BY <1>2, <1>3

LEMMA MinOfNaturals ==
  ASSUME NEW T \in SUBSET Nat, T # {}
  PROVE  Min(T) \in T /\ \A k \in T : Min(T) <= k
BY LeastNatural DEF Min

LEMMA FirstEntry ==
  ASSUME NEW T \in SUBSET Entry, T # {}
  PROVE  Min(T) \in T
<1>1. T \in SUBSET Nat
  BY CountAssumption DEF Entry
<1> QED
  BY <1>1, MinOfNaturals

LEMMA ConstantFacts ==
  /\ NSectors \in Nat /\ NSystem \in Nat /\ 4 <= NSystem /\ NSystem <= NSectors
  /\ NEntries \in Nat /\ MaxSectors \in Nat /\ MaxSectors >= 1
  /\ NSystem - 3 <= MaxSectors
  /\ ByteRange \in Nat /\ NSectors <= ByteRange
  /\ 0 \in Sector /\ Sector \subseteq Nat /\ Slot \subseteq Nat /\ Entry \subseteq Nat
  /\ IsFiniteSet(Sector)
<1>1. NSystem \in Nat /\ NSectors \in Nat /\ 4 <= NSystem /\ NSystem <= NSectors
  BY SystemAssumption
<1>2. IsFiniteSet(Sector)
  BY <1>1, FS_Interval DEF Sector
<1> QED
  BY <1>1, <1>2, SystemAssumption, CountAssumption, ByteAssumption
     DEF Sector, Slot, Entry

\* The length of an entry is the number of slots before the first 0.
LEMMA LengthFacts ==
  ASSUME NEW entry \in DirEntry
  PROVE  /\ Length(entry) \in Nat /\ Length(entry) <= MaxSectors
         /\ \A k \in 1 .. Length(entry) : k \in Slot /\ entry.sectors[k] # 0
         /\ Length(entry) < MaxSectors =>
              /\ Length(entry) + 1 \in Slot
              /\ entry.sectors[Length(entry) + 1] = 0
<1>1. MaxSectors \in Nat /\ MaxSectors >= 1
  BY ConstantFacts
<1>2. CASE Full(entry)
  BY <1>1, <1>2 DEF Length, Full, Slot
<1>3. CASE ~Full(entry)
  <2> DEFINE T == {k \in Slot : entry.sectors[k] = 0}
  <2>1. T \in SUBSET Nat /\ T # {}
    BY <1>3 DEF Full, Slot
  <2>2. Min(T) \in T /\ \A k \in T : Min(T) <= k
    BY <2>1, MinOfNaturals
  <2>3. Length(entry) = Min(T) - 1
    BY <1>3 DEF Length
  <2>4. Min(T) \in Slot /\ entry.sectors[Min(T)] = 0
    BY <2>2
  <2>5. \A k \in Slot : k < Min(T) => entry.sectors[k] # 0
    BY <1>1, <2>2, <2>4 DEF Slot
  <2> HIDE DEF T
  <2> QED
    BY <1>1, <2>3, <2>4, <2>5 DEF Slot
<1> QED
  BY <1>2, <1>3

LEMMA LengthIs ==
  ASSUME NEW entry \in DirEntry, NEW n \in Nat, n <= MaxSectors,
         \A k \in 1 .. n : entry.sectors[k] # 0,
         n < MaxSectors => entry.sectors[n + 1] = 0
  PROVE  Length(entry) = n
<1> DEFINE l == Length(entry)
<1>1. /\ l \in Nat /\ l <= MaxSectors /\ MaxSectors \in Nat
      /\ \A k \in 1 .. l : entry.sectors[k] # 0
      /\ l < MaxSectors => entry.sectors[l + 1] = 0
  BY LengthFacts, ConstantFacts
<1> HIDE DEF l
<1>2. ~(l < n)
  BY <1>1
<1>3. ~(n < l)
  BY <1>1
<1> QED
  BY <1>1, <1>2, <1>3 DEF l

\* The list of a tidy entry is what is in its slots.
LEMMA TidyLength ==
  ASSUME NEW entry \in DirEntry, Tidy(entry)
  PROVE  /\ \A k \in Slot : entry.sectors[k] # 0 <=> k <= Length(entry)
         /\ \A s : s \in Listed(entry) <=>
                     s # 0 /\ \E k \in Slot : entry.sectors[k] = s
<1>1. /\ Length(entry) \in Nat /\ Length(entry) <= MaxSectors
      /\ \A k \in 1 .. Length(entry) : k \in Slot /\ entry.sectors[k] # 0
      /\ Length(entry) < MaxSectors =>
              /\ Length(entry) + 1 \in Slot
              /\ entry.sectors[Length(entry) + 1] = 0
      /\ MaxSectors \in Nat
  BY LengthFacts, ConstantFacts
<1>2. ASSUME NEW k \in Slot, k > Length(entry)
      PROVE  entry.sectors[k] = 0
  <2>1. Length(entry) < MaxSectors /\ k \in Nat
    BY <1>1, <1>2 DEF Slot
  <2> QED
    BY <1>1, <1>2, <2>1 DEF Tidy
<1>3. \A k \in Slot : k \in Nat /\ k >= 1
  BY <1>1 DEF Slot
<1>4. \A k \in Slot : entry.sectors[k] # 0 <=> k <= Length(entry)
  BY <1>1, <1>2, <1>3
<1> QED
  BY <1>1, <1>3, <1>4 DEF Listed

-----------------------------------------------------------------------------
(* The free sectors of a map.                                              *)

FreeBelow(u, s) == {r \in Sector \ u : r < s}

LEMMA FreeFinite ==
  ASSUME NEW u
  PROVE  /\ IsFiniteSet(Sector \ u) /\ Cardinality(Sector \ u) \in Nat
         /\ \A s : /\ IsFiniteSet(FreeBelow(u, s))
                   /\ Cardinality(FreeBelow(u, s)) \in Nat
<1>1. \A T \in SUBSET Sector : IsFiniteSet(T) /\ Cardinality(T) \in Nat
  BY ConstantFacts, FS_Subset, FS_CardinalityType
<1> QED
  BY <1>1 DEF FreeBelow

\* A map with m free sectors has an m-th one.
LEMMA NthFree ==
  ASSUME NEW u, NEW m \in Nat, m >= 1, m <= Cardinality(Sector \ u)
  PROVE  \E s \in Sector \ u : Cardinality(FreeBelow(u, s)) = m - 1
<1> DEFINE F == Sector \ u
           P(n) == \E s \in F : Cardinality(FreeBelow(u, s)) = n - 1
           Missing == {n \in Nat : n >= 1 /\ n <= Cardinality(F) /\ ~P(n)}
<1>1. /\ IsFiniteSet(F) /\ Cardinality(F) \in Nat /\ F \subseteq Nat
      /\ \A s : IsFiniteSet(FreeBelow(u, s))
  BY FreeFinite, ConstantFacts
<1>2. SUFFICES ASSUME Missing # {} PROVE FALSE
  BY <1>1
<1>3. PICK n \in Missing : \A k \in Missing : n <= k
  BY <1>2, LeastNatural
\* The sectors that are counted already, and the first one behind them.
<1>4. PICK T \in SUBSET F : /\ Cardinality(T) = n - 1
                            /\ \A r \in T : \A t \in F : t < r => t \in T
  <2>1. CASE n = 1
    BY <2>1, FS_EmptySet
  <2>2. CASE n # 1
    <3>1. n - 1 \in Nat /\ n - 1 >= 1 /\ n - 1 <= Cardinality(F) /\ n - 1 \notin Missing
      BY <1>1, <1>3, <2>2
    <3>2. PICK s \in F : Cardinality(FreeBelow(u, s)) = n - 2
      BY <3>1
    <3> DEFINE T == FreeBelow(u, s) \cup {s}
    <3>3. s \notin FreeBelow(u, s)
      BY <1>1, <3>2 DEF FreeBelow
    <3>4. Cardinality(T) = Cardinality(FreeBelow(u, s)) + 1
      BY <1>1, <3>3, FS_AddElement
    <3>5. Cardinality(T) = n - 1
      BY <1>3, <3>2, <3>4
    <3>6. T \in SUBSET F /\ \A r \in T : \A t \in F : t < r => t \in T
      BY <1>1, <3>2 DEF FreeBelow
    <3> QED
      BY <3>5, <3>6
  <2> QED
    BY <2>1, <2>2
<1>5. F \ T # {}
  <2>1. n - 1 # Cardinality(F)
    BY <1>1, <1>3
  <2> QED
    BY <1>4, <2>1
<1>6. PICK s \in F \ T : \A t \in F \ T : s <= t
  BY <1>1, <1>5, LeastNatural
<1>7. FreeBelow(u, s) = T
  <2>1. \A r \in F : r < s => r \in T
    BY <1>1, <1>6
  <2>2. \A r \in T : r < s
    BY <1>1, <1>4, <1>6
  <2> QED
    BY <2>1, <2>2, <1>4 DEF FreeBelow
<1> QED
  BY <1>3, <1>4, <1>6, <1>7

LEMMA UnusedFacts ==
  ASSUME NEW u, NEW n \in Nat, n <= Cardinality(Sector \ u)
  PROVE  /\ \A m \in 1 .. n : Unused(u, m) \in Sector \ u
         /\ \A m, l \in 1 .. n : Unused(u, m) = Unused(u, l) => m = l
<1>1. ASSUME NEW m \in 1 .. n
      PROVE  /\ Unused(u, m) \in Sector \ u
             /\ Cardinality(FreeBelow(u, Unused(u, m))) = m - 1
  <2>1. m \in Nat /\ m >= 1 /\ m <= Cardinality(Sector \ u)
    BY FreeFinite
  <2>2. \E s \in Sector \ u : Cardinality(FreeBelow(u, s)) = m - 1
    BY <2>1, NthFree
  <2> QED
    BY <2>2 DEF Unused, FreeBelow
<1> QED
  BY <1>1

-----------------------------------------------------------------------------
(* What writeFile and deleteFile do to their copies of the directory and   *)
(* the map keeps the two in agreement.                                     *)

LEMMA EnteredFacts ==
  ASSUME NEW d \in Directory, NEW u \in SUBSET Sector, Agree(d, u),
         NEW e \in Entry, d[e].name # System,
         NEW n \in Name, NEW count \in Nat, count < MaxSectors,
         count <= Cardinality(Sector \ u),
         NEW sectors, sectors = [m \in 1 .. count |-> Unused(u, m)],
         NEW new, new = Entered(d[e], n, sectors)
  PROVE  /\ new \in DirEntry /\ new.name = n
         /\ \A k \in Slot : new.sectors[k] = IF k <= count THEN Unused(u, k)
                                             ELSE d[e].sectors[k]
         /\ Marked(u, sectors) \in SUBSET Sector
         /\ u \subseteq Marked(u, sectors)
         /\ Marked(u, sectors) \subseteq u \cup Listed(new)
         /\ Agree([d EXCEPT ![e] = new], Marked(u, sectors))
<1> DEFINE dd == [d EXCEPT ![e] = new]
           uu == Marked(u, sectors)
<1>1. /\ \A m \in 1 .. count : Unused(u, m) \in Sector \ u
      /\ \A m, l \in 1 .. count : Unused(u, m) = Unused(u, l) => m = l
  BY UnusedFacts
<1>2. /\ 0 \in u /\ \A s \in Sector : s \in Nat /\ s % ByteRange = s
      /\ \A s \in 0 .. NSystem - 1 : s \in u
      /\ \A s \in Sector : s \notin u => s >= NSystem
  <2>1. \A s \in 0 .. NSystem - 1 : s \in u
    BY DEF Agree
  <2>2. 0 \in u
    BY <2>1, ConstantFacts
  <2>3. \A s \in Sector : s \in Nat /\ s < NSectors
    BY ConstantFacts DEF Sector
  <2>4. ASSUME NEW s \in Sector
        PROVE  s % ByteRange = s
    <3>1. s \in Nat /\ ByteRange \in Nat /\ s < ByteRange
      BY <2>3, ConstantFacts
    <3> QED
      BY <3>1
  <2>5. \A s \in Sector : s \notin u => s >= NSystem
    BY <2>1, <2>3, ConstantFacts
  <2> QED
    BY <2>1, <2>2, <2>3, <2>4, <2>5
<1>3. DOMAIN sectors = 1 .. count
  OBVIOUS
<1>4. \A k \in Slot : k \in Nat /\ k >= 1 /\ k <= MaxSectors
  BY ConstantFacts DEF Slot
<1>5. d[e] \in DirEntry
  BY DEF Directory
<1>6. \A k \in Slot : new.sectors[k] = IF k <= count THEN Unused(u, k)
                                       ELSE d[e].sectors[k]
  <2>1. \A k \in Slot : new.sectors[k] = IF k \in 1 .. count THEN sectors[k] % ByteRange
                                         ELSE d[e].sectors[k]
    BY <1>3 DEF Entered
  <2>2. \A k \in 1 .. count : sectors[k] % ByteRange = Unused(u, k)
    BY <1>1, <1>2
  <2> QED
    BY <2>1, <2>2, <1>4
<1>7. new \in DirEntry /\ new.name = n
  <2>1. new = [name |-> n, sectors |-> [k \in Slot |-> new.sectors[k]]]
    BY DEF Entered
  <2>2. \A k \in Slot : new.sectors[k] \in Sector
    BY <1>1, <1>4, <1>5, <1>6 DEF DirEntry
  <2>3. [k \in Slot |-> new.sectors[k]] \in [Slot -> Sector]
    BY <2>2
  <2> HIDE DEF Sector
  <2> QED
    BY <2>1, <2>3 DEF DirEntry
<1>8. uu \in SUBSET Sector /\ u \subseteq uu /\ \A m \in 1 .. count : Unused(u, m) \in uu
  BY <1>1, <1>3 DEF Marked
<1>9. \A f \in Entry : dd[f] = IF f = e THEN new ELSE d[f]
  BY DEF Directory
<1>10. Tidy(new)
  <2> SUFFICES ASSUME NEW i \in Slot, NEW j \in Slot, i < j, new.sectors[i] = 0
               PROVE  new.sectors[j] = 0
    BY DEF Tidy
  <2>1. i > count
    BY <1>1, <1>2, <1>4, <1>6
  <2>2. d[e].sectors[i] = 0 /\ j > count
    BY <2>1, <1>4, <1>6
  <2>3. d[e].sectors[j] = 0
    BY <2>2 DEF Agree, Tidy
  <2> QED
    BY <2>2, <2>3, <1>4, <1>6
<1>11. uu \subseteq u \cup Listed(new)
  <2> SUFFICES ASSUME NEW m \in 1 .. count
               PROVE  Unused(u, m) \in Listed(new)
    BY <1>3 DEF Marked
  <2>1. m \in Slot
    BY ConstantFacts DEF Slot
  <2>2. new.sectors[m] = Unused(u, m) /\ Unused(u, m) # 0
    BY <2>1, <1>1, <1>2, <1>6
  <2> QED
    BY <2>1, <2>2, <1>7, <1>10, TidyLength
<1>12. \A f \in Entry : Tidy(dd[f])
  BY <1>9, <1>10 DEF Agree
<1>13. Distinct(dd)
  <2> SUFFICES ASSUME NEW f \in Entry, NEW g \in Entry, NEW i \in Slot, NEW j \in Slot,
                      dd[f].sectors[i] # 0, dd[f].sectors[i] = dd[g].sectors[j]
               PROVE  f = g /\ i = j
    BY DEF Distinct
  <2> DEFINE Fresh(h, k) == h = e /\ k <= count
  <2>1. ASSUME NEW h \in Entry, NEW k \in Slot
        PROVE  /\ Fresh(h, k) => dd[h].sectors[k] = Unused(u, k) /\ k \in 1 .. count
               /\ ~Fresh(h, k) => dd[h].sectors[k] = d[h].sectors[k]
               /\ ~Fresh(h, k) => dd[h].sectors[k] \in u
    BY <1>4, <1>6, <1>9 DEF Agree
  <2>2. CASE Fresh(f, i) /\ Fresh(g, j)
    BY <2>1, <2>2, <1>1
  <2>3. CASE ~Fresh(f, i) /\ ~Fresh(g, j)
    BY <2>1, <2>3 DEF Agree, Distinct
  <2>4. CASE Fresh(f, i) /\ ~Fresh(g, j)
    <3>1. dd[g].sectors[j] \in u
      BY <2>1, <2>4
    <3>2. dd[f].sectors[i] = Unused(u, i) /\ i \in 1 .. count
      BY <2>1, <2>4
    <3>3. dd[f].sectors[i] \notin u
      BY <3>2, <1>1
    <3> QED
      BY <3>1, <3>3
  <2>5. CASE ~Fresh(f, i) /\ Fresh(g, j)
    <3>1. dd[f].sectors[i] \in u
      BY <2>1, <2>5
    <3>2. dd[g].sectors[j] = Unused(u, j) /\ j \in 1 .. count
      BY <2>1, <2>5
    <3>3. dd[g].sectors[j] \notin u
      BY <3>2, <1>1
    <3> QED
      BY <3>1, <3>3
  <2> QED
    BY <2>2, <2>3, <2>4, <2>5
<1>14. \A f \in Entry : \A k \in Slot : dd[f].sectors[k] \in uu
  BY <1>4, <1>6, <1>8, <1>9 DEF Agree
<1>15. ASSUME NEW f \in Entry, dd[f].name # System
       PROVE  /\ Ended(dd[f])
              /\ \A k \in Slot : dd[f].sectors[k] # 0 => dd[f].sectors[k] >= NSystem
  <2>1. MaxSectors \in Slot
    BY ConstantFacts DEF Slot
  <2>2. CASE f = e
    <3>1. Ended(new)
      <4>1. new.sectors[MaxSectors] = d[e].sectors[MaxSectors]
        BY <2>1, <1>4, <1>6
      <4>2. Ended(d[e])
        BY DEF Agree
      <4> QED
        BY <4>1, <4>2 DEF Ended
    <3>2. \A k \in Slot : new.sectors[k] # 0 => new.sectors[k] >= NSystem
      BY <1>1, <1>2, <1>4, <1>6 DEF Agree
    <3> QED
      BY <2>2, <3>1, <3>2, <1>9
  <2>3. CASE f # e
    BY <2>3, <1>9, <1>15 DEF Agree
  <2> QED
    BY <2>2, <2>3
<1>16. \A f \in Entry : dd[f].name = NoName => \A k \in Slot : dd[f].sectors[k] = 0
  BY <1>7, <1>9, NameAssumption DEF Agree
<1>17. 0 .. NSystem - 1 \subseteq uu
  BY <1>8 DEF Agree
<1>18. Agree(dd, uu)
  <2> HIDE DEF dd, uu
  <2> QED
    BY <1>12, <1>13, <1>14, <1>15, <1>16, <1>17 DEF Agree
<1> QED
  BY <1>6, <1>7, <1>8, <1>11, <1>18

LEMMA ErasedFacts ==
  ASSUME NEW d \in Directory, NEW u \in SUBSET Sector, Agree(d, u),
         NEW e \in Entry, d[e].name \notin {NoName, System},
         NEW new, new = Erased(d[e])
  PROVE  /\ new \in DirEntry /\ new.name = NoName
         /\ Freed(u, d[e]) \in SUBSET Sector
         /\ Agree([d EXCEPT ![e] = new], Freed(u, d[e]))
<1> DEFINE dd == [d EXCEPT ![e] = new]
           uu == Freed(u, d[e])
<1>1. d[e] \in DirEntry /\ Tidy(d[e])
  BY DEF Directory, Agree
<1>2. \A k \in Slot : new.sectors[k] = 0
  BY <1>1, TidyLength DEF Erased
<1>3. new.name = NoName /\ new = [name |-> NoName, sectors |-> [k \in Slot |-> 0]]
  BY <1>1, TidyLength DEF Erased
<1>4. new \in DirEntry
  <2>1. [k \in Slot |-> 0] \in [Slot -> Sector]
    BY ConstantFacts
  <2> QED
    BY <1>3, <2>1 DEF DirEntry
<1>5. \A s : s \in uu <=> s \in u /\ ~(s # 0 /\ \E k \in Slot : d[e].sectors[k] = s)
  BY <1>1, TidyLength DEF Freed
<1>6. uu \in SUBSET Sector
  BY <1>5
<1>7. \A f \in Entry : dd[f] = IF f = e THEN new ELSE d[f]
  BY DEF Directory
<1>8. \A f \in Entry : Tidy(dd[f])
  BY <1>2, <1>7 DEF Agree, Tidy
<1>9. Distinct(dd)
  BY <1>2, <1>7 DEF Agree, Distinct
<1>10. ASSUME NEW f \in Entry, NEW k \in Slot
       PROVE  dd[f].sectors[k] \in uu
  <2>1. CASE f = e
    <3>1. 0 \in uu
      BY <1>5, ConstantFacts DEF Agree
    <3> QED
      BY <2>1, <3>1, <1>2, <1>7
  <2>2. CASE f # e
    <3>1. dd[f] = d[f] /\ d[f].sectors[k] \in u
      BY <2>2, <1>7 DEF Agree
    <3>2. \A j \in Slot : d[f].sectors[k] # 0 => d[e].sectors[j] # d[f].sectors[k]
      BY <2>2 DEF Agree, Distinct
    <3> QED
      BY <3>1, <3>2, <1>5
  <2> QED
    BY <2>1, <2>2
<1>11. \A f \in Entry : dd[f].name # System =>
         /\ Ended(dd[f])
         /\ \A k \in Slot : dd[f].sectors[k] # 0 => dd[f].sectors[k] >= NSystem
  <2>1. MaxSectors \in Slot
    BY ConstantFacts DEF Slot
  <2> QED
    BY <2>1, <1>2, <1>7 DEF Agree, Ended
<1>12. \A f \in Entry : dd[f].name = NoName => \A k \in Slot : dd[f].sectors[k] = 0
  BY <1>2, <1>7 DEF Agree
<1>13. 0 .. NSystem - 1 \subseteq uu
  <2> SUFFICES ASSUME NEW s \in 0 .. NSystem - 1
               PROVE  s \in uu
    OBVIOUS
  <2>1. s \in u /\ s \in Nat /\ ~(s >= NSystem)
    BY ConstantFacts DEF Agree
  <2>2. \A k \in Slot : d[e].sectors[k] # 0 => d[e].sectors[k] >= NSystem
    BY DEF Agree
  <2> QED
    BY <2>1, <2>2, <1>5
<1>14. Agree(dd, uu)
  <2> HIDE DEF dd, uu
  <2> QED
    BY <1>8, <1>9, <1>10, <1>11, <1>12, <1>13 DEF Agree
<1> QED
  BY <1>3, <1>4, <1>6, <1>14

-----------------------------------------------------------------------------
(* The calls.                                                              *)

\* A call that changes the disk has only readers beside it.
LEMMA OneWriter ==
  ASSUME IInv, NEW p \in Proc, NEW r \in Proc, p # r,
         call[p].pc # "idle", call[p].kind \in {"write", "delete"},
         call[r].pc # "idle"
  PROVE  call[r].kind = "read" /\ call[r].pc \in {"readDir", "fetch"}
<1>1. {call[p].kind, call[r].kind} \in MayOverlap
  BY DEF IInv, OverlapsAllowed
<1>2. call[r].kind \in Kinds /\ call[r].pc \in Steps
  BY DEF IInv, TypeOK, Call, CallsExact, CallExact, Steps, Kinds
<1>3. call[r].kind # "write" /\ call[r].kind # "delete"
  <2>1. {"write", "write"} \notin MayOverlap /\ {"delete", "delete"} \notin MayOverlap
    <3>1. {"write", "write"} = {"write"} /\ {"delete", "delete"} = {"delete"}
      OBVIOUS
    <3> QED
      BY <3>1, WritersAssumption
  <2>2. {"write", "delete"} \notin MayOverlap /\ {"delete", "write"} \notin MayOverlap
    <3>1. {"delete", "write"} = {"write", "delete"}
      OBVIOUS
    <3> QED
      BY <3>1, WritersAssumption
  <2> QED
    BY <1>1, <2>1, <2>2
<1>4. call[r].kind = "read"
  BY <1>2, <1>3 DEF Kinds
<1> QED
  BY <1>2, <1>4 DEF IInv, CallsExact, CallExact, Steps

\* What is taken while the call of p changes the disk, and otherwise.
LEMMA TakenByOne ==
  ASSUME IInv, NEW p \in Proc, call[p].pc # "idle",
         call[p].kind \in {"write", "delete"}
  PROVE  Taken = IF Rewriting(p) THEN call[p].diskMap ELSE used
<1>1. \A r \in Proc : Rewriting(r) => r = p
  BY OneWriter DEF Rewriting
<1>2. CASE Rewriting(p)
  <2>1. used \subseteq call[p].diskMap
    BY <1>2 DEF IInv, CopiesExact, CopyExact, Rewriting
  <2> QED
    BY <1>1, <1>2, <2>1 DEF Taken
<1>3. CASE ~Rewriting(p)
  BY <1>1, <1>3 DEF Taken
<1> QED
  BY <1>2, <1>3

LEMMA TakenByNone ==
  ASSUME \A r \in Proc : ~Rewriting(r)
  PROVE  Taken = used
BY DEF Taken

LEMMA TakenSame ==
  ASSUME used' = used,
         \A r \in Proc : Rewriting(r)' <=> Rewriting(r),
         \A r \in Proc : Rewriting(r) => call'[r].diskMap = call[r].diskMap
  PROVE  Taken' = Taken
<1>1. {r \in Proc : Rewriting(r)}' = {r \in Proc : Rewriting(r)}
  OBVIOUS
<1> DEFINE W == {r \in Proc : Rewriting(r)}
<1>2. {call[r].diskMap : r \in W}' = {call[r].diskMap : r \in W}
  BY <1>1
<1> QED
  BY <1>2 DEF Taken

LEMMA DirectoryType ==
  ASSUME NEW d \in Directory, NEW e \in Entry, NEW new \in DirEntry
  PROVE  [d EXCEPT ![e] = new] \in Directory
BY DEF Directory

-----------------------------------------------------------------------------
(* Every step keeps the invariant.                                         *)

LEMMA InitIInv == Init => IInv
<1> SUFFICES ASSUME Init PROVE IInv
  OBVIOUS
<1>1. \A p \in Proc : call[p] = Idle
  BY DEF Init
<1>2. Idle \in Call
  <2>1. Idle.buf \in Seq(Block) /\ Idle.held \in Seq(Block)
    BY DEF Idle
  <2> QED
    BY <2>1 DEF Idle, Call, Steps, NoDir
<1>3. TypeOK
  <2>1. used \in SUBSET Sector
    BY ConstantFacts DEF Init, Sector
  <2>2. dir \in Directory
    <3>1. \A e \in Entry : dir[e] \in DirEntry
      <4> SUFFICES ASSUME NEW e \in Entry PROVE dir[e] \in DirEntry
        OBVIOUS
      <4>1. dir[e] = [name |-> IF e = 1 THEN System ELSE NoName,
                      sectors |-> [k \in Slot |->
                                     IF e = 1 /\ k + 2 < NSystem THEN k + 2 ELSE 0]]
        BY DEF Init
      <4>2. \A k \in Slot : (IF e = 1 /\ k + 2 < NSystem THEN k + 2 ELSE 0) \in Sector
        BY ConstantFacts DEF Slot, Sector
      <4> HIDE DEF Sector
      <4> QED
        BY <4>1, <4>2 DEF DirEntry
    <3> QED
      BY <3>1 DEF Init, Directory
  <2>3. block \in [Sector -> Block]
    BY DEF Init, Block
  <2> QED
    BY <1>1, <1>2, <2>1, <2>2, <2>3 DEF TypeOK, Init
<1>4. CallsExact /\ OverlapsAllowed /\ CopiesExact /\ FetchesExact
  BY <1>1 DEF CallsExact, CallExact, OverlapsAllowed, CopiesExact, CopyExact,
              FetchesExact, FetchExact, Idle
<1>5. Taken = used
  BY <1>1, TakenByNone DEF Rewriting, Idle
<1>6. Agree(dir, used)
  <2>1. \A e \in Entry : \A k \in Slot :
          dir[e].sectors[k] = IF e = 1 /\ k + 2 < NSystem THEN k + 2 ELSE 0
    BY DEF Init
  <2>2. \A e \in Entry : dir[e].name = IF e = 1 THEN System ELSE NoName
    BY DEF Init
  <2>3. used = 0 .. NSystem - 1
    BY DEF Init
  <2>4. \A k \in Slot : k \in Nat /\ k >= 1
    BY ConstantFacts DEF Slot
  <2>5. \A e \in Entry : Tidy(dir[e])
    <3> SUFFICES ASSUME NEW e \in Entry, NEW i \in Slot, NEW j \in Slot,
                        i < j, dir[e].sectors[i] = 0
                 PROVE  dir[e].sectors[j] = 0
      BY DEF Tidy
    <3>1. ~(e = 1 /\ i + 2 < NSystem)
      BY <2>1, <2>4
    <3>2. ~(e = 1 /\ j + 2 < NSystem)
      BY <2>4, <3>1, ConstantFacts
    <3> QED
      BY <2>1, <3>2
  <2>6. Distinct(dir)
    BY <2>1, <2>4, ConstantFacts DEF Distinct
  <2>7. \A e \in Entry : \A k \in Slot : dir[e].sectors[k] \in used
    BY <2>1, <2>3, <2>4, ConstantFacts
  <2>8. \A e \in Entry : e # 1 => \A k \in Slot : dir[e].sectors[k] = 0
    BY <2>1
  <2>9. MaxSectors \in Slot
    BY ConstantFacts DEF Slot
  <2>10. System # NoName
    BY NameAssumption
  <2> QED
    BY <2>2, <2>3, <2>5, <2>6, <2>7, <2>8, <2>9, <2>10 DEF Agree, Ended
<1>7. SystemIntact
  BY ConstantFacts DEF Init, SystemIntact, Sector
<1> QED
  BY <1>3, <1>4, <1>5, <1>6, <1>7 DEF IInv, DiskExact

\* A step of the call of p that leaves the map and the directory as they are.
LEMMA CallStep ==
  ASSUME IInv, NEW p \in Proc, NEW c \in Call,
         UNCHANGED <<used, dir>>, block' \in [Sector -> Block],
         \A s \in 0 .. NSystem - 1 : block'[s] = Blank, wild' = FALSE,
         call' = [call EXCEPT ![p] = c],
         CallExact(c), CopyExact(c), FetchExact(c),
         c.pc # "idle" =>
           \A r \in Proc \ {p} : call[r].pc # "idle" =>
             {c.kind, call[r].kind} \in MayOverlap,
         call[p].pc # "writeMap", c.pc # "writeMap"
  PROVE  IInv' /\ Taken' = Taken
<1>1. \A r \in Proc : call'[r] = IF r = p THEN c ELSE call[r]
  BY DEF IInv, TypeOK
<1>2. TypeOK'
  BY <1>1 DEF IInv, TypeOK
<1>3. CallsExact'
  BY <1>1 DEF IInv, CallsExact, CallExact
<1>4. OverlapsAllowed'
  <2> SUFFICES ASSUME NEW q \in Proc, NEW r \in Proc, q # r,
                      call'[q].pc # "idle", call'[r].pc # "idle"
               PROVE  {call'[q].kind, call'[r].kind} \in MayOverlap
    BY DEF OverlapsAllowed
  <2>1. CASE q # p /\ r # p
    BY <1>1, <2>1 DEF IInv, OverlapsAllowed
  <2>2. CASE q = p
    BY <1>1, <2>2
  <2>3. CASE r = p
    <3>1. {call'[r].kind, call'[q].kind} \in MayOverlap
      BY <1>1, <2>3
    <3>2. {call'[r].kind, call'[q].kind} = {call'[q].kind, call'[r].kind}
      OBVIOUS
    <3> QED
      BY <3>1, <3>2
  <2> QED
    BY <2>1, <2>2, <2>3
<1>5. CopiesExact'
  <2> SUFFICES ASSUME NEW r \in Proc
               PROVE  CopyExact(call[r])'
    BY DEF CopiesExact
  <2>1. CASE r = p
    BY <1>1, <2>1 DEF CopyExact
  <2>2. CASE r # p
    <3>1. CopyExact(call[r])
      BY DEF IInv, CopiesExact
    <3> QED
      BY <1>1, <2>2, <3>1 DEF CopyExact
  <2> QED
    BY <2>1, <2>2
<1>6. FetchesExact'
  BY <1>1 DEF IInv, FetchesExact, FetchExact
<1>7. Taken' = Taken
  BY <1>1, TakenSame DEF Rewriting
<1>8. DiskExact'
  BY <1>7 DEF IInv, DiskExact
<1>9. SystemIntact'
  BY DEF SystemIntact
<1> QED
  BY <1>2, <1>3, <1>4, <1>5, <1>6, <1>7, <1>8, <1>9 DEF IInv

LEMMA LocalStep ==
  ASSUME IInv, NEW p \in Proc, NEW c \in Call,
         UNCHANGED <<used, dir, block>>, wild' = FALSE,
         call' = [call EXCEPT ![p] = c],
         CallExact(c), CopyExact(c), FetchExact(c),
         c.pc # "idle" =>
           \A r \in Proc \ {p} : call[r].pc # "idle" =>
             {c.kind, call[r].kind} \in MayOverlap,
         call[p].pc # "writeMap", c.pc # "writeMap"
  PROVE  IInv' /\ Taken' = Taken
<1>1. /\ block' \in [Sector -> Block]
      /\ \A s \in 0 .. NSystem - 1 : block'[s] = Blank
  BY DEF IInv, TypeOK, SystemIntact
<1> QED
  BY <1>1, CallStep

\* A call that begins.
LEMMA IdleCall == Idle \in Call
<1>1. Idle.buf \in Seq(Block) /\ Idle.held \in Seq(Block)
  BY DEF Idle
<1> QED
  BY <1>1 DEF Idle, Call, Steps, NoDir

LEMMA BeginKeeps ==
  ASSUME IInv, NEW p \in Proc, NEW kind \in Kinds, MayBegin(p, kind),
         NEW c \in Call, c.kind = kind, c.pc = "readDir", c.name \in Name,
         kind = "write" =>
           /\ c.value \in Value
           /\ c.size < MaxSectors /\ c.size <= Cardinality(Sector \ used),
         Begin(p, c)
  PROVE  IInv' /\ Taken' = Taken
<1>3. CallExact(c) /\ CopyExact(c) /\ FetchExact(c)
  BY DEF CallExact, CopyExact, FetchExact
<1>4. /\ call[p].pc = "idle" /\ wild' = FALSE
      /\ \A r \in Proc \ {p} : call[r].pc # "idle" =>
           {c.kind, call[r].kind} \in MayOverlap
  BY DEF MayBegin, At, Begin, IInv, TypeOK
<1> QED
  BY <1>3, <1>4, LocalStep DEF Begin

LEMMA BeginReadKeeps ==
  ASSUME IInv, NEW p \in Proc, NEW n \in Name, BeginRead(p, n)
  PROVE  IInv' /\ Taken' = Taken
<1> DEFINE c == [Idle EXCEPT !.kind = "read", !.pc = "readDir", !.name = n]
<1>1. c \in Call /\ c.kind = "read" /\ c.pc = "readDir" /\ c.name = n
  BY IdleCall DEF Idle, Call, Kinds, Steps
<1>2. "read" \in Kinds
  BY DEF Kinds
<1>3. MayBegin(p, "read") /\ Begin(p, c)
  BY DEF BeginRead
<1> HIDE DEF c
<1> QED
  BY <1>1, <1>2, <1>3, BeginKeeps

LEMMA BeginDeleteKeeps ==
  ASSUME IInv, NEW p \in Proc, NEW n \in Name, BeginDelete(p, n)
  PROVE  IInv' /\ Taken' = Taken
<1> DEFINE c == [Idle EXCEPT !.kind = "delete", !.pc = "readDir", !.name = n]
<1>1. c \in Call /\ c.kind = "delete" /\ c.pc = "readDir" /\ c.name = n
  BY IdleCall DEF Idle, Call, Kinds, Steps
<1>2. "delete" \in Kinds
  BY DEF Kinds
<1>3. MayBegin(p, "delete") /\ Begin(p, c)
  BY DEF BeginDelete
<1> HIDE DEF c
<1> QED
  BY <1>1, <1>2, <1>3, BeginKeeps

LEMMA BeginWriteKeeps ==
  ASSUME IInv, NEW p \in Proc, NEW n \in Name, NEW size \in Sizes,
         NEW v \in Value, BeginWrite(p, n, size, v)
  PROVE  IInv' /\ Taken' = Taken
<1> DEFINE c == [Idle EXCEPT !.kind = "write", !.pc = "readDir", !.name = n,
                             !.size = size, !.value = v]
<1>1. size \in Int /\ size < MaxSectors /\ Capped(size) = size
  BY SizesAssumption, ConstantFacts DEF Capped
<1>2. "write" \in Kinds
  BY DEF Kinds
<1>3. MayBegin(p, "write") /\ Begin(p, c) /\ size <= Cardinality(Sector \ used)
  BY <1>1, RoomAssumption DEF BeginWrite
<1>4. /\ c \in Call /\ c.kind = "write" /\ c.pc = "readDir" /\ c.name = n
      /\ c.size = size /\ c.value = v
  BY <1>1, IdleCall DEF Idle, Call, Kinds, Steps
<1> HIDE DEF c
<1> QED
  BY <1>1, <1>2, <1>3, <1>4, BeginKeeps

\* The entries that hold a name.
LEMMA MatchesFacts ==
  ASSUME NEW d, NEW n, Matches(d, n) # {}
  PROVE  /\ Min(Matches(d, n)) \in Entry
         /\ d[Min(Matches(d, n))].name = n
<1>1. Matches(d, n) \in SUBSET Entry
  BY DEF Matches
<1>2. Min(Matches(d, n)) \in Matches(d, n)
  BY <1>1, FirstEntry
<1> QED
  BY <1>2 DEF Matches

\* The content of a file is a sequence.
LEMMA StoredSeq ==
  ASSUME TypeOK, NEW n, Matches(dir, n) # {},
         NEW entry, entry = dir[Min(Matches(dir, n))]
  PROVE  /\ Stored(n) = [k \in 1 .. Length(entry) |-> block[entry.sectors[k]]]
         /\ Stored(n) \in Seq(Block)
         /\ Len(Stored(n)) = Length(entry)
<1>1. Stored(n) = [k \in 1 .. Length(entry) |-> block[entry.sectors[k]]]
  BY DEF Stored
<1>2. entry \in DirEntry
  BY MatchesFacts DEF TypeOK, Directory
<1>3. Length(entry) \in Nat /\ \A k \in 1 .. Length(entry) : k \in Slot
  BY <1>2, LengthFacts
<1>4. \A k \in 1 .. Length(entry) : block[entry.sectors[k]] \in Block
  BY <1>2, <1>3 DEF TypeOK, DirEntry
<1> QED
  BY <1>1, <1>3, <1>4

\* What the directory tells a call.
DirectoryCall(p) ==
  LET found == Matches(dir, call[p].name) IN
  IF call[p].kind # "read"
    THEN [call[p] EXCEPT !.dirBuffer = dir, !.pc = "readMap"]
  ELSE IF found = {} THEN [Idle EXCEPT !.kind = "read"]
  ELSE [call[p] EXCEPT !.dirBuffer = dir, !.pc = "fetch", !.entry = Min(found),
                       !.z = 1, !.held = Stored(call[p].name)]

LEMMA DirectoryCopies ==
  ASSUME IInv, NEW p \in Proc, ReadDirectory(p)
  PROVE  LET c     == DirectoryCall(p)
             found == Matches(dir, call[p].name)
         IN
         /\ call[p].pc = "readDir" /\ wild' = FALSE
         /\ UNCHANGED <<used, dir, block>>
         /\ call[p] \in Call /\ dir \in Directory /\ call[p].name \in Name
         /\ call' = [call EXCEPT ![p] = c] /\ c \in Call
         /\ call[p].kind # "read" =>
              /\ call[p].kind \in {"write", "delete"}
              /\ c.pc = "readMap" /\ c.kind = call[p].kind /\ c.name = call[p].name
              /\ c.size = call[p].size /\ c.value = call[p].value
              /\ c.dirBuffer = dir /\ c.buf = call[p].buf /\ c.held = call[p].held
         /\ call[p].kind = "read" /\ found = {} =>
              c.pc = "idle" /\ c.kind = "read" /\ c.buf = <<>> /\ c.held = <<>>
         /\ call[p].kind = "read" /\ found # {} =>
              /\ c.pc = "fetch" /\ c.kind = "read" /\ c.name = call[p].name
              /\ c.dirBuffer = dir /\ c.entry = Min(found) /\ c.z = 1
              /\ c.buf = call[p].buf /\ c.held = Stored(call[p].name)
<1> DEFINE c == DirectoryCall(p)
           found == Matches(dir, call[p].name)
<1>0. c = DirectoryCall(p) /\ found = Matches(dir, call[p].name)
  OBVIOUS
<1> HIDE DEF c, found
<1>1. /\ call[p].pc = "readDir" /\ wild' = FALSE
      /\ UNCHANGED <<used, dir, block>>
      /\ call[p] \in Call /\ dir \in Directory
  BY DEF ReadDirectory, At, IInv, TypeOK
<1>2. call' = [call EXCEPT ![p] = c]
  BY <1>0, <1>1 DEF ReadDirectory, DirectoryCall, Call
<1>3. call[p].name \in Name
  BY <1>1 DEF IInv, CallsExact, CallExact
<1>4. CASE call[p].kind # "read"
  <2>1. call[p].kind \in {"write", "delete"}
    BY <1>1, <1>4 DEF IInv, CallsExact, CallExact, Kinds
  <2>2. c = [call[p] EXCEPT !.dirBuffer = dir, !.pc = "readMap"]
    BY <1>0, <1>4 DEF DirectoryCall
  <2>3. c \in Call
    BY <1>1, <2>2 DEF Call, Steps
  <2>4. /\ c.pc = "readMap" /\ c.kind = call[p].kind /\ c.name = call[p].name
        /\ c.size = call[p].size /\ c.value = call[p].value
        /\ c.dirBuffer = dir /\ c.buf = call[p].buf /\ c.held = call[p].held
    BY <1>1, <2>2 DEF Call
  <2> QED
    BY <1>1, <1>2, <1>3, <1>4, <2>1, <2>3, <2>4 DEF c, found
<1>5. CASE call[p].kind = "read" /\ found = {}
  <2>1. c = [Idle EXCEPT !.kind = "read"]
    BY <1>0, <1>5 DEF DirectoryCall
  <2>2. c \in Call
    BY <2>1, IdleCall DEF Call, Kinds
  <2>3. c.pc = "idle" /\ c.kind = "read" /\ c.buf = <<>> /\ c.held = <<>>
    BY <2>1 DEF Idle
  <2> QED
    BY <1>1, <1>2, <1>3, <1>5, <2>2, <2>3 DEF c, found
<1>6. CASE call[p].kind = "read" /\ found # {}
  <2>1. c = [call[p] EXCEPT !.dirBuffer = dir, !.pc = "fetch", !.entry = Min(found),
                            !.z = 1, !.held = Stored(call[p].name)]
    BY <1>0, <1>6 DEF DirectoryCall
  <2>2. Stored(call[p].name) \in Seq(Block)
    BY <1>0, <1>6, StoredSeq DEF IInv
  <2>3. Min(found) \in Nat
    BY <1>0, <1>6, MatchesFacts, ConstantFacts
  <2>4. c \in Call
    <3> DEFINE e == Min(found)
               held == Stored(call[p].name)
    <3>1. /\ e \in Nat /\ held \in Seq(Block) /\ "fetch" \in Steps /\ 1 \in Nat
          /\ c = [call[p] EXCEPT !.dirBuffer = dir, !.pc = "fetch", !.entry = e,
                                 !.z = 1, !.held = held]
      BY <2>1, <2>2, <2>3 DEF Steps
    <3> HIDE DEF e, held
    <3> QED
      BY <1>1, <3>1 DEF Call
  <2>5. /\ c.pc = "fetch" /\ c.kind = "read" /\ c.name = call[p].name
        /\ c.dirBuffer = dir /\ c.entry = Min(found) /\ c.z = 1
        /\ c.buf = call[p].buf /\ c.held = Stored(call[p].name)
    BY <1>1, <1>6, <2>1 DEF Call
  <2> QED
    BY <1>1, <1>2, <1>3, <1>6, <2>4, <2>5 DEF c, found
<1> QED
  BY <1>4, <1>5, <1>6 DEF c, found

LEMMA ReadDirectoryKeeps ==
  ASSUME IInv, NEW p \in Proc, ReadDirectory(p)
  PROVE  IInv' /\ Taken' = Taken
<1> DEFINE found == Matches(dir, call[p].name)
           c == DirectoryCall(p)
<1>0. c = DirectoryCall(p) /\ found = Matches(dir, call[p].name)
  OBVIOUS
<1> HIDE DEF c, found
<1>1. /\ call[p].pc = "readDir" /\ wild' = FALSE
      /\ UNCHANGED <<used, dir, block>>
      /\ call[p].name \in Name /\ dir \in Directory
      /\ call' = [call EXCEPT ![p] = c] /\ c \in Call
      /\ call[p].kind # "read" =>
           /\ call[p].kind \in {"write", "delete"}
           /\ c.pc = "readMap" /\ c.kind = call[p].kind /\ c.name = call[p].name
           /\ c.size = call[p].size /\ c.value = call[p].value
           /\ c.dirBuffer = dir
      /\ call[p].kind = "read" /\ found = {} => c.pc = "idle" /\ c.kind = "read"
      /\ call[p].kind = "read" /\ found # {} =>
           /\ c.pc = "fetch" /\ c.kind = "read" /\ c.name = call[p].name
           /\ c.dirBuffer = dir /\ c.entry = Min(found) /\ c.z = 1
  BY DirectoryCopies DEF c, found
<1>2. CallExact(call[p]) /\ CopyExact(call[p])
  BY DEF IInv, CallsExact, CopiesExact
<1>3. CallExact(c) /\ CopyExact(c) /\ FetchExact(c)
  <2>1. CASE call[p].kind # "read"
    BY <1>1, <1>2, <2>1 DEF CallExact, CopyExact, FetchExact
  <2>2. CASE call[p].kind = "read" /\ found = {}
    BY <1>1, <2>2 DEF CallExact, CopyExact, FetchExact
  <2>3. CASE call[p].kind = "read" /\ found # {}
    <3>1. Min(found) \in Entry /\ dir[Min(found)].name = call[p].name
      BY <1>0, <2>3, MatchesFacts
    <3>2. Ended(dir[Min(found)])
      BY <1>1, <3>1, NameAssumption DEF IInv, DiskExact, Agree
    <3>3. 1 \in Slot
      BY ConstantFacts DEF Slot
    <3> QED
      BY <1>1, <2>3, <3>1, <3>2, <3>3 DEF CallExact, CopyExact, FetchExact
  <2> QED
    BY <2>1, <2>2, <2>3
<1>4. c.pc # "writeMap" /\ (c.pc # "idle" => c.kind = call[p].kind)
  BY <1>1
<1>5. \A r \in Proc \ {p} : call[r].pc # "idle" => {call[p].kind, call[r].kind} \in MayOverlap
  BY <1>1 DEF IInv, OverlapsAllowed
<1> QED
  BY <1>1, <1>3, <1>4, <1>5, LocalStep

\* The next sector of a reader: it ends at the 0 behind the list.
NextSector(p) == call[p].dirBuffer[call[p].entry].sectors[call[p].z]

FetchCall(p) ==
  IF NextSector(p) = 0
    THEN [Idle EXCEPT !.kind = "read", !.buf = call[p].buf, !.held = call[p].held]
    ELSE [call[p] EXCEPT !.z = call[p].z + 1,
                         !.buf = Append(call[p].buf, block[NextSector(p)])]

LEMMA FetchCopies ==
  ASSUME IInv, NEW p \in Proc, Fetch(p)
  PROVE  LET c == FetchCall(p)
             s == NextSector(p)
         IN
         /\ call[p].pc = "fetch" /\ wild' = FALSE
         /\ UNCHANGED <<used, dir, block>>
         /\ call[p] \in Call /\ call[p].kind = "read" /\ call[p].name \in Name
         /\ call[p].dirBuffer \in Directory /\ call[p].entry \in Entry
         /\ call[p].z \in Slot /\ Ended(call[p].dirBuffer[call[p].entry])
         /\ s \in Sector
         /\ call' = [call EXCEPT ![p] = c] /\ c \in Call
         /\ s = 0 => c.pc = "idle" /\ c.kind = "read"
                     /\ c.buf = call[p].buf /\ c.held = call[p].held
         /\ s # 0 => /\ c.pc = "fetch" /\ c.kind = "read" /\ c.name = call[p].name
                     /\ c.dirBuffer = call[p].dirBuffer /\ c.entry = call[p].entry
                     /\ c.z = call[p].z + 1 /\ c.held = call[p].held
                     /\ c.buf = Append(call[p].buf, block[s])
<1> DEFINE entry == call[p].dirBuffer[call[p].entry]
           c == FetchCall(p)
           s == NextSector(p)
<1>0. c = FetchCall(p) /\ s = NextSector(p)
  OBVIOUS
<1> HIDE DEF c, s
<1>1. /\ call[p].pc = "fetch"
      /\ UNCHANGED <<used, dir, block>>
      /\ call[p] \in Call
  BY DEF Fetch, At, IInv, TypeOK
<1>2. /\ call[p].kind = "read" /\ call[p].name \in Name
      /\ call[p].dirBuffer \in Directory /\ call[p].entry \in Entry
      /\ call[p].z \in Slot /\ Ended(entry)
  BY <1>1 DEF IInv, CallsExact, CallExact, FetchesExact, FetchExact
<1>3. /\ s \in Sector /\ block[s] \in Block
      /\ call[p].z \in Nat /\ call[p].z <= MaxSectors
  <2>1. entry \in DirEntry
    BY <1>2 DEF Directory
  <2>2. s \in Sector
    BY <1>0, <1>2, <2>1 DEF DirEntry, NextSector
  <2>3. block[s] \in Block
    BY <2>2 DEF IInv, TypeOK
  <2> QED
    BY <1>2, <2>2, <2>3, ConstantFacts DEF Slot
<1>4. ~(call[p].z > MaxSectors)
  BY <1>3, ConstantFacts
<1>5. CASE s = 0
  <2>1. c = [Idle EXCEPT !.kind = "read", !.buf = call[p].buf, !.held = call[p].held]
    BY <1>0, <1>5 DEF FetchCall
  <2>2. call' = [call EXCEPT ![p] = c] /\ wild' = FALSE
    BY <1>0, <1>4, <1>5, <2>1 DEF Fetch, NextSector, IInv, TypeOK
  <2>3. c \in Call
    BY <1>1, <2>1, IdleCall DEF Call, Kinds
  <2>4. c.pc = "idle" /\ c.kind = "read" /\ c.buf = call[p].buf /\ c.held = call[p].held
    BY <2>1 DEF Idle
  <2> QED
    BY <1>1, <1>2, <1>3, <1>5, <2>2, <2>3, <2>4 DEF c, s
<1>6. CASE s # 0
  <2>1. c = [call[p] EXCEPT !.z = call[p].z + 1, !.buf = Append(call[p].buf, block[s])]
    BY <1>0, <1>6 DEF FetchCall
  <2>2. /\ call' = [call EXCEPT ![p].z = call[p].z + 1,
                                ![p].buf = Append(@, block[s])]
        /\ wild' = FALSE
    BY <1>0, <1>4, <1>6 DEF Fetch, NextSector, IInv, TypeOK
  <2>3. call' = [call EXCEPT ![p] = c]
    BY <2>1, <2>2, <1>1 DEF IInv, TypeOK, Call
  <2>4. call[p].z + 1 \in Nat /\ Append(call[p].buf, block[s]) \in Seq(Block)
    BY <1>1, <1>3 DEF Call
  <2>5. c \in Call
    BY <1>1, <2>1, <2>4 DEF Call
  <2>6. /\ c.pc = "fetch" /\ c.kind = "read" /\ c.name = call[p].name
        /\ c.dirBuffer = call[p].dirBuffer /\ c.entry = call[p].entry
        /\ c.z = call[p].z + 1 /\ c.held = call[p].held
        /\ c.buf = Append(call[p].buf, block[s])
    BY <1>1, <1>2, <2>1 DEF Call
  <2> QED
    BY <1>1, <1>2, <1>3, <1>6, <2>2, <2>3, <2>5, <2>6 DEF c, s
<1> QED
  BY <1>5, <1>6 DEF c, s

LEMMA FetchKeeps ==
  ASSUME IInv, NEW p \in Proc, Fetch(p)
  PROVE  IInv' /\ Taken' = Taken
<1> DEFINE c == FetchCall(p)
           s == NextSector(p)
<1>0. c = FetchCall(p) /\ s = NextSector(p)
  OBVIOUS
<1> HIDE DEF c, s
<1>1. /\ call[p].pc = "fetch" /\ wild' = FALSE
      /\ UNCHANGED <<used, dir, block>>
      /\ call[p].kind = "read" /\ call[p].name \in Name
      /\ call[p].dirBuffer \in Directory /\ call[p].entry \in Entry
      /\ call[p].z \in Slot /\ Ended(call[p].dirBuffer[call[p].entry])
      /\ call' = [call EXCEPT ![p] = c] /\ c \in Call
      /\ s = 0 => c.pc = "idle" /\ c.kind = "read"
      /\ s # 0 => /\ c.pc = "fetch" /\ c.kind = "read" /\ c.name = call[p].name
                  /\ c.dirBuffer = call[p].dirBuffer /\ c.entry = call[p].entry
                  /\ c.z = call[p].z + 1
  BY FetchCopies DEF c, s
<1>2. s # 0 => call[p].z + 1 \in Slot
  <2>1. s # 0 => call[p].z # MaxSectors
    BY <1>0, <1>1 DEF Ended, NextSector
  <2> QED
    BY <1>1, <2>1, ConstantFacts DEF Slot
<1>3. CallExact(c) /\ CopyExact(c) /\ FetchExact(c)
  BY <1>1, <1>2 DEF CallExact, CopyExact, FetchExact
<1>4. \A r \in Proc \ {p} : call[r].pc # "idle" => {call[p].kind, call[r].kind} \in MayOverlap
  BY <1>1 DEF IInv, OverlapsAllowed
<1> QED
  BY <1>1, <1>3, <1>4, LocalStep

-----------------------------------------------------------------------------
(* What readMap leaves in the copies of a call that writes.                *)

WriteEntry(p) ==
  IF Matches(dir, call[p].name) # {} THEN Min(Matches(dir, call[p].name))
                                     ELSE Min(Matches(dir, NoName))

WriteCount(p) == IF call[p].size < 0 THEN 0 ELSE call[p].size

WriteSectors(p) == [m \in 1 .. WriteCount(p) |-> Unused(used, m)]

WriteNew(p) == Entered(dir[WriteEntry(p)], call[p].name, WriteSectors(p))

WriteCall(p) ==
  [call[p] EXCEPT !.pc = IF WriteCount(p) = 0 THEN "writeDir" ELSE "writeData",
                  !.entry = WriteEntry(p), !.z = 1, !.k = WriteCount(p),
                  !.diskMap = Marked(used, WriteSectors(p)),
                  !.dirBuffer = [dir EXCEPT ![WriteEntry(p)] = WriteNew(p)]]

\* The free sectors suffice, as they did when the call began.
LEMMA WriteFits ==
  ASSUME IInv, NEW p \in Proc, call[p].pc = "readMap", call[p].kind = "write"
  PROVE  /\ call[p] \in Call /\ call[p].name \in Name /\ call[p].value \in Value
         /\ call[p].dirBuffer = dir /\ dir \in Directory
         /\ WriteCount(p) \in Nat /\ WriteCount(p) < MaxSectors
         /\ WriteCount(p) <= Cardinality(Sector \ used)
         /\ Taken = used /\ Agree(dir, used)
<1>1. CallExact(call[p]) /\ CopyExact(call[p]) /\ call[p] \in Call
  BY DEF IInv, CallsExact, CopiesExact, TypeOK
<1>2. /\ call[p].name \in Name /\ call[p].value \in Value /\ call[p].size \in Int
      /\ call[p].size < MaxSectors /\ call[p].size <= Cardinality(Sector \ used)
      /\ call[p].dirBuffer = dir
  BY <1>1 DEF CallExact, CopyExact, Call
<1>3. Cardinality(Sector \ used) \in Nat
  BY FreeFinite
<1>4. Taken = used
  BY TakenByOne DEF Rewriting
<1> QED
  BY <1>1, <1>2, <1>3, <1>4, ConstantFacts DEF WriteCount, IInv, TypeOK, DiskExact

LEMMA WriteCopies ==
  ASSUME IInv, NEW p \in Proc, ReadMapToWrite(p)
  PROVE  /\ call[p].pc = "readMap" /\ call[p].kind = "write"
         /\ UNCHANGED <<used, dir, block, wild>>
         /\ \/ call' = [call EXCEPT ![p] = Idle]
            \/ /\ call' = [call EXCEPT ![p] = WriteCall(p)]
               /\ WriteEntry(p) \in Entry
               /\ \/ dir[WriteEntry(p)].name = call[p].name
                  \/ /\ dir[WriteEntry(p)].name = NoName
                     /\ Matches(dir, call[p].name) = {}
<1> DEFINE n == call[p].name
           entries == IF Matches(dir, n) # {} THEN Matches(dir, n)
                      ELSE Matches(dir, NoName)
           free == Cardinality(Sector \ used)
           count == WriteCount(p)
<1>1. /\ call[p].pc = "readMap" /\ call[p].kind = "write"
      /\ UNCHANGED <<used, dir, block, wild>>
  BY DEF ReadMapToWrite, At
<1>2. /\ call[p] \in Call /\ call[p].dirBuffer = dir /\ dir \in Directory
      /\ count \in Nat /\ count <= free /\ free \in Nat
  BY <1>1, WriteFits, FreeFinite
<1>3. Min(entries) = WriteEntry(p)
  BY DEF WriteEntry
<1>4. CASE entries = {}
  BY <1>1, <1>2, <1>4 DEF ReadMapToWrite
<1>5. CASE entries # {}
  <2> DEFINE After(sectors) ==
               call' = [call EXCEPT ![p] =
                 [call[p] EXCEPT !.pc = IF count = 0 THEN "writeDir" ELSE "writeData",
                                 !.entry = Min(entries), !.z = 1, !.k = count,
                                 !.diskMap = Marked(used, sectors),
                                 !.dirBuffer[Min(entries)] = Entered(@, n, sectors)]]
  <2>1. \E sectors \in Allocations(used, count) : After(sectors)
    <3>1. (IF count <= free THEN count ELSE free) = count
      BY <1>2
    <3> QED
      BY <3>1, <1>2, <1>5 DEF ReadMapToWrite, WriteCount
  <2>2. PICK sectors \in Allocations(used, count) : After(sectors)
    BY <2>1
  <2>3. sectors = WriteSectors(p)
    <3>1. Allocations(used, count) =
            {[m \in 1 .. count |-> IF m <= free THEN Unused(used, m) ELSE rest[m]] :
               rest \in {<<>>}}
      BY <1>2 DEF Allocations
    <3>2. sectors = [m \in 1 .. count |-> IF m <= free THEN Unused(used, m)
                                          ELSE <<>>[m]]
      BY <3>1
    <3>3. \A m \in 1 .. count : m <= free
      BY <1>2
    <3> QED
      BY <3>2, <3>3 DEF WriteSectors
  <2>4. [call[p].dirBuffer EXCEPT ![Min(entries)] = Entered(@, n, sectors)]
          = [dir EXCEPT ![WriteEntry(p)] = WriteNew(p)]
    BY <1>2, <1>3, <2>3 DEF WriteNew
  <2>5. call' = [call EXCEPT ![p] = WriteCall(p)]
    <3> DEFINE l == IF count = 0 THEN "writeDir" ELSE "writeData"
               i == Min(entries)
               u == Marked(used, sectors)
    <3>1. call' = [call EXCEPT ![p] =
            [call[p] EXCEPT !.pc = l, !.entry = i, !.z = 1, !.k = count, !.diskMap = u,
                            !.dirBuffer[i] = Entered(@, n, sectors)]]
      BY <2>2
    <3>2. WriteCall(p) =
            [call[p] EXCEPT !.pc = l, !.entry = i, !.z = 1, !.k = count, !.diskMap = u,
                            !.dirBuffer = [dir EXCEPT ![i] = WriteNew(p)]]
      BY <1>3, <2>3 DEF WriteCall
    <3>3. /\ [call[p].dirBuffer EXCEPT ![i] = Entered(@, n, sectors)]
               = [dir EXCEPT ![i] = WriteNew(p)]
      BY <2>4, <1>3
    <3> HIDE DEF l, i, u, count, n, entries
    <3>4. [call[p] EXCEPT !.pc = l, !.entry = i, !.z = 1, !.k = count, !.diskMap = u,
                          !.dirBuffer[i] = Entered(@, n, sectors)]
            = WriteCall(p)
      BY <3>2, <3>3, <1>2 DEF Call
    <3> QED
      BY <3>1, <3>4
  <2>6. /\ WriteEntry(p) \in Entry
        /\ \/ dir[WriteEntry(p)].name = n
           \/ dir[WriteEntry(p)].name = NoName /\ Matches(dir, n) = {}
    BY <1>5, MatchesFacts DEF WriteEntry
  <2> QED
    BY <1>1, <2>5, <2>6
<1> QED
  BY <1>4, <1>5

\* The copies agree, the sectors of the file are free on the disk.
LEMMA WriteCallFacts ==
  ASSUME IInv, NEW p \in Proc, call[p].pc = "readMap", call[p].kind = "write",
         WriteEntry(p) \in Entry,
         dir[WriteEntry(p)].name \in {call[p].name, NoName},
         NEW c, c = WriteCall(p)
  PROVE  /\ c \in Call
         /\ c.kind = "write" /\ c.pc \in {"writeData", "writeDir"}
         /\ c.pc = "writeData" => 1 <= c.k
         /\ c.pc = "writeDir" => c.k = 0
         /\ c.name = call[p].name /\ c.size = call[p].size
         /\ c.value = call[p].value /\ c.buf = call[p].buf /\ c.held = call[p].held
         /\ c.entry = WriteEntry(p) /\ c.z = 1 /\ c.k = WriteCount(p)
         /\ c.dirBuffer \in Directory
         /\ c.dirBuffer[c.entry] = WriteNew(p)
         /\ \A f \in Entry \ {c.entry} : c.dirBuffer[f] = dir[f]
         /\ \A m \in 1 .. c.k : WriteNew(p).sectors[m] \notin used
         /\ \A m \in Slot : m > c.k =>
              WriteNew(p).sectors[m] = dir[WriteEntry(p)].sectors[m]
         /\ WriteNew(p).name = call[p].name
         /\ Agree(c.dirBuffer, c.diskMap) /\ used \subseteq c.diskMap
         /\ c.diskMap \subseteq used \cup Listed(WriteNew(p))
<1> DEFINE e == WriteEntry(p)
           new == WriteNew(p)
           sectors == WriteSectors(p)
           u == Marked(used, sectors)
           d == [dir EXCEPT ![e] = new]
           l == IF WriteCount(p) = 0 THEN "writeDir" ELSE "writeData"
<1>1. /\ call[p] \in Call /\ call[p].name \in Name
      /\ dir \in Directory /\ used \in SUBSET Sector /\ Agree(dir, used)
      /\ WriteCount(p) \in Nat /\ WriteCount(p) < MaxSectors
      /\ WriteCount(p) <= Cardinality(Sector \ used)
  BY WriteFits DEF IInv, TypeOK
<1>2. dir[e].name # System
  BY <1>1, NameAssumption
<1>3. /\ sectors = [m \in 1 .. WriteCount(p) |-> Unused(used, m)]
      /\ new = Entered(dir[e], call[p].name, sectors) /\ e \in Entry
  BY DEF WriteSectors, WriteNew
<1>4. /\ new \in DirEntry /\ new.name = call[p].name
      /\ \A k \in Slot : new.sectors[k] = IF k <= WriteCount(p) THEN Unused(used, k)
                                          ELSE dir[e].sectors[k]
      /\ u \in SUBSET Sector /\ used \subseteq u
      /\ u \subseteq used \cup Listed(new)
      /\ Agree(d, u)
  <2> HIDE DEF e, new, sectors
  <2> QED
    BY <1>1, <1>2, <1>3, EnteredFacts, SMTT(30)
<1>5. d \in Directory /\ d[e] = new /\ \A f \in Entry \ {e} : d[f] = dir[f]
  BY <1>1, <1>4 DEF Directory
<1>6. e \in Nat
  BY ConstantFacts
<1>7. \A m \in 1 .. WriteCount(p) : m \in Slot /\ Unused(used, m) \notin used
  BY <1>1, UnusedFacts, ConstantFacts DEF Slot
<1>8. /\ c = [call[p] EXCEPT !.pc = l, !.entry = e, !.z = 1, !.k = WriteCount(p),
                             !.diskMap = u, !.dirBuffer = d]
      /\ l \in {"writeData", "writeDir"}
      /\ l = "writeData" => 1 <= WriteCount(p)
      /\ l = "writeDir" => WriteCount(p) = 0
  BY <1>1 DEF WriteCall
<1> HIDE DEF e, new, u, d, l, sectors
<1>9. /\ c \in Call /\ c.kind = "write" /\ c.pc \in {"writeData", "writeDir"}
      /\ c.pc = "writeData" => 1 <= c.k
      /\ c.pc = "writeDir" => c.k = 0
      /\ c.name = call[p].name /\ c.size = call[p].size
      /\ c.value = call[p].value /\ c.buf = call[p].buf /\ c.held = call[p].held
      /\ c.entry = e /\ c.z = 1 /\ c.k = WriteCount(p)
      /\ c.diskMap = u /\ c.dirBuffer = d
  <2>1. /\ c.kind = call[p].kind /\ c.pc = l
        /\ c.name = call[p].name /\ c.size = call[p].size
        /\ c.value = call[p].value /\ c.buf = call[p].buf /\ c.held = call[p].held
        /\ c.entry = e /\ c.z = 1 /\ c.k = WriteCount(p)
        /\ c.diskMap = u /\ c.dirBuffer = d
    BY <1>1, <1>8 DEF Call
  <2>2. l \in Steps /\ u \in SUBSET Sector /\ d \in Directory /\ 1 \in Nat
    BY <1>4, <1>5, <1>8 DEF Steps
  <2>3. c \in Call
    BY <1>1, <1>6, <1>8, <2>2, ZenonT(30) DEF Call
  <2> QED
    BY <1>8, <2>1, <2>3
<1>10. \A m \in 1 .. WriteCount(p) : new.sectors[m] \notin used
  BY <1>1, <1>4, <1>7
<1>11. \A m \in Slot : m > WriteCount(p) => new.sectors[m] = dir[e].sectors[m]
  BY <1>1, <1>4, ConstantFacts
<1> QED
  BY <1>4, <1>5, <1>9, <1>10, <1>11 DEF e, new, sectors, u, d

LEMMA ReadMapToWriteKeeps ==
  ASSUME IInv, NEW p \in Proc, ReadMapToWrite(p)
  PROVE  IInv' /\ Taken' = Taken
<1>1. /\ call[p].pc = "readMap" /\ call[p].kind = "write"
      /\ UNCHANGED <<used, dir, block>> /\ wild' = FALSE
  BY WriteCopies DEF IInv, TypeOK
<1>2. \A r \in Proc \ {p} : call[r].pc # "idle" => {call[p].kind, call[r].kind} \in MayOverlap
  BY <1>1 DEF IInv, OverlapsAllowed
<1>3. CASE call' = [call EXCEPT ![p] = Idle]
  <2>1. /\ Idle \in Call /\ CallExact(Idle) /\ CopyExact(Idle) /\ FetchExact(Idle)
        /\ Idle.pc = "idle"
    BY IdleCall DEF Idle, CallExact, CopyExact, FetchExact
  <2> QED
    BY <1>1, <1>3, <2>1, LocalStep
<1>4. CASE call' # [call EXCEPT ![p] = Idle]
  <2> DEFINE c == WriteCall(p)
  <2>1. call' = [call EXCEPT ![p] = c]
    BY <1>4, WriteCopies
  <2>2. /\ WriteEntry(p) \in Entry /\ dir[WriteEntry(p)].name \in {call[p].name, NoName}
    BY <1>4, WriteCopies
  <2>3. c = WriteCall(p)
    OBVIOUS
  <2> HIDE DEF c
  <2>4. /\ c \in Call
        /\ c.kind = "write" /\ c.pc \in {"writeData", "writeDir"}
        /\ c.pc = "writeData" => 1 <= c.k
        /\ c.name = call[p].name /\ c.size = call[p].size /\ c.value = call[p].value
        /\ c.entry = WriteEntry(p) /\ c.z = 1 /\ c.k = WriteCount(p)
        /\ c.dirBuffer \in Directory
        /\ c.dirBuffer[c.entry] = WriteNew(p)
        /\ \A f \in Entry \ {c.entry} : c.dirBuffer[f] = dir[f]
        /\ \A m \in 1 .. c.k : WriteNew(p).sectors[m] \notin used
        /\ Agree(c.dirBuffer, c.diskMap) /\ used \subseteq c.diskMap
        /\ c.diskMap \subseteq used \cup Listed(WriteNew(p))
    BY <1>1, <2>2, <2>3, WriteCallFacts
  <2>5. /\ call[p].name \in Name /\ call[p].value \in Value
        /\ call[p].size < MaxSectors
        /\ WriteCount(p) \in Nat /\ WriteCount(p) < MaxSectors
    <3>1. CallExact(call[p])
      BY DEF IInv, CallsExact
    <3> QED
      BY <1>1, <3>1, WriteFits DEF CallExact
  <2>6. CallExact(c)
    BY <2>2, <2>4, <2>5 DEF CallExact
  <2>7. CopyExact(c)
    BY <2>4, <2>5 DEF CopyExact
  <2>8. FetchExact(c)
    BY <2>4 DEF FetchExact
  <2> QED
    BY <1>1, <1>2, <2>1, <2>4, <2>6, <2>7, <2>8, LocalStep
<1> QED
  BY <1>3, <1>4

-----------------------------------------------------------------------------
(* deleteFile.                                                             *)

DeleteEntry(p) == Min(Matches(dir, call[p].name))

DeleteCall(p) ==
  [call[p] EXCEPT !.pc = "writeDir", !.entry = DeleteEntry(p),
                  !.diskMap = Freed(used, dir[DeleteEntry(p)]),
                  !.dirBuffer = [dir EXCEPT ![DeleteEntry(p)] =
                                   Erased(dir[DeleteEntry(p)])]]

\* The list of the file ends within its entry.
LEMMA DeleteCopies ==
  ASSUME IInv, NEW p \in Proc, ReadMapToDelete(p)
  PROVE  /\ call[p] \in Call /\ call[p].name \in Name
         /\ call[p].pc = "readMap" /\ call[p].kind = "delete"
         /\ UNCHANGED <<used, dir, block>> /\ wild' = FALSE
         /\ Agree(dir, used) /\ Taken = used
         /\ \/ call' = [call EXCEPT ![p] = Idle]
            \/ /\ call' = [call EXCEPT ![p] = DeleteCall(p)]
               /\ DeleteEntry(p) \in Entry
               /\ dir[DeleteEntry(p)].name = call[p].name
<1> DEFINE entries == Matches(dir, call[p].name)
           e == DeleteEntry(p)
<1>1. /\ call[p].pc = "readMap" /\ call[p].kind = "delete"
      /\ UNCHANGED <<used, dir, block>>
  BY DEF ReadMapToDelete, At
<1>2. call[p] \in Call /\ dir \in Directory /\ wild = FALSE
  BY DEF IInv, TypeOK
<1>3. call[p].name \in Name /\ call[p].dirBuffer = dir
  BY <1>1 DEF IInv, CallsExact, CallExact, CopiesExact, CopyExact
<1>4. Taken = used /\ Agree(dir, used)
  BY <1>1, TakenByOne DEF Rewriting, IInv, DiskExact
<1>5. CASE entries = {}
  BY <1>1, <1>2, <1>3, <1>4, <1>5 DEF ReadMapToDelete
<1>6. CASE entries # {}
  <2>1. e \in Entry /\ dir[e].name = call[p].name
    BY <1>6, MatchesFacts DEF DeleteEntry
  <2>2. ~Full(dir[e])
    <3>1. dir[e].name # System
      BY <1>3, <2>1, NameAssumption
    <3>2. Ended(dir[e])
      BY <1>4, <2>1, <3>1 DEF Agree
    <3>3. MaxSectors \in Slot
      BY ConstantFacts DEF Slot
    <3> QED
      BY <3>2, <3>3 DEF Ended, Full
  <2>3. wild' = FALSE
    BY <1>3, <1>6, <2>2 DEF ReadMapToDelete, DeleteEntry
  <2>4. call' = [call EXCEPT ![p] =
          [call[p] EXCEPT !.pc = "writeDir", !.entry = e,
                          !.diskMap = Freed(used, call[p].dirBuffer[e]),
                          !.dirBuffer[e] = Erased(@)]]
    BY <1>3, <1>6 DEF ReadMapToDelete, DeleteEntry
  <2>5. [call[p] EXCEPT !.pc = "writeDir", !.entry = e,
                        !.diskMap = Freed(used, call[p].dirBuffer[e]),
                        !.dirBuffer[e] = Erased(@)] = DeleteCall(p)
    <3>1. [call[p].dirBuffer EXCEPT ![e] = Erased(@)] = [dir EXCEPT ![e] = Erased(dir[e])]
      BY <1>3
    <3>2. DeleteCall(p) =
            [call[p] EXCEPT !.pc = "writeDir", !.entry = e,
                            !.diskMap = Freed(used, call[p].dirBuffer[e]),
                            !.dirBuffer = [dir EXCEPT ![e] = Erased(dir[e])]]
      BY <1>3 DEF DeleteCall
    <3> HIDE DEF e
    <3> QED
      BY <3>1, <3>2, <1>2 DEF Call
  <2> QED
    BY <1>1, <1>2, <1>3, <1>4, <2>1, <2>3, <2>4, <2>5
<1> QED
  BY <1>5, <1>6

LEMMA DeleteCallFacts ==
  ASSUME IInv, NEW p \in Proc, call[p].pc = "readMap", call[p].kind = "delete",
         Agree(dir, used), call[p].name \in Name,
         DeleteEntry(p) \in Entry, dir[DeleteEntry(p)].name = call[p].name,
         NEW c, c = DeleteCall(p)
  PROVE  /\ c \in Call /\ c.kind = "delete" /\ c.pc = "writeDir"
         /\ c.name = call[p].name /\ c.entry = DeleteEntry(p)
         /\ c.buf = call[p].buf /\ c.held = call[p].held
         /\ c.dirBuffer \in Directory
         /\ c.dirBuffer[c.entry].name = NoName
         /\ \A f \in Entry \ {c.entry} : c.dirBuffer[f] = dir[f]
         /\ Agree(c.dirBuffer, c.diskMap)
         /\ c.diskMap = used \ Listed(dir[c.entry])
<1> DEFINE e == DeleteEntry(p)
           new == Erased(dir[e])
           u == Freed(used, dir[e])
           d == [dir EXCEPT ![e] = new]
<1>1. call[p] \in Call /\ dir \in Directory /\ used \in SUBSET Sector /\ e \in Entry
  BY DEF IInv, TypeOK
<1>2. dir[e].name \notin {NoName, System}
  BY NameAssumption
<1>3. new \in DirEntry /\ new.name = NoName /\ u \in SUBSET Sector /\ Agree(d, u)
  <2> HIDE DEF e, new
  <2>1. new = Erased(dir[e])
    BY DEF new
  <2> QED
    BY <1>1, <1>2, <2>1, ErasedFacts
<1>4. d \in Directory /\ d[e] = new /\ \A f \in Entry \ {e} : d[f] = dir[f]
  BY <1>1, <1>3 DEF Directory
<1>5. u = used \ Listed(dir[e]) /\ e \in Nat
  BY <1>1, ConstantFacts DEF Freed
<1>6. c = [call[p] EXCEPT !.pc = "writeDir", !.entry = e, !.diskMap = u,
                          !.dirBuffer = d]
  BY DEF DeleteCall
<1> HIDE DEF e, new, u, d
<1>7. /\ c.kind = call[p].kind /\ c.pc = "writeDir" /\ c.name = call[p].name
      /\ c.buf = call[p].buf /\ c.held = call[p].held
      /\ c.entry = e /\ c.diskMap = u /\ c.dirBuffer = d
  BY <1>1, <1>6 DEF Call
<1>8. c \in Call
  BY <1>1, <1>3, <1>4, <1>5, <1>6, ZenonT(30) DEF Call, Steps
<1> QED
  BY <1>3, <1>4, <1>5, <1>7, <1>8 DEF e, u, d, new

LEMMA ReadMapToDeleteKeeps ==
  ASSUME IInv, NEW p \in Proc, ReadMapToDelete(p)
  PROVE  IInv' /\ Taken' = Taken
<1>1. /\ call[p].pc = "readMap" /\ call[p].kind = "delete"
      /\ UNCHANGED <<used, dir, block>> /\ wild' = FALSE
      /\ Agree(dir, used) /\ call[p].name \in Name
  BY DeleteCopies
<1>2. \A r \in Proc \ {p} : call[r].pc # "idle" => {call[p].kind, call[r].kind} \in MayOverlap
  BY <1>1 DEF IInv, OverlapsAllowed
<1>3. CASE call' = [call EXCEPT ![p] = Idle]
  <2>1. /\ Idle \in Call /\ CallExact(Idle) /\ CopyExact(Idle) /\ FetchExact(Idle)
        /\ Idle.pc = "idle"
    BY IdleCall DEF Idle, CallExact, CopyExact, FetchExact
  <2> QED
    BY <1>1, <1>3, <2>1, LocalStep
<1>4. CASE call' # [call EXCEPT ![p] = Idle]
  <2> DEFINE c == DeleteCall(p)
  <2>1. /\ call' = [call EXCEPT ![p] = c]
        /\ DeleteEntry(p) \in Entry /\ dir[DeleteEntry(p)].name = call[p].name
    BY <1>4, DeleteCopies
  <2>2. c = DeleteCall(p)
    OBVIOUS
  <2> HIDE DEF c
  <2>3. /\ c \in Call /\ c.kind = "delete" /\ c.pc = "writeDir"
        /\ c.name = call[p].name /\ c.entry = DeleteEntry(p)
        /\ c.dirBuffer \in Directory
        /\ \A f \in Entry \ {c.entry} : c.dirBuffer[f] = dir[f]
        /\ Agree(c.dirBuffer, c.diskMap)
        /\ c.diskMap = used \ Listed(dir[c.entry])
    BY <1>1, <2>1, <2>2, DeleteCallFacts
  <2>4. CallExact(c) /\ CopyExact(c) /\ FetchExact(c)
    BY <1>1, <2>1, <2>3 DEF CallExact, CopyExact, FetchExact
  <2> QED
    BY <1>1, <1>2, <2>1, <2>3, <2>4, LocalStep
<1> QED
  BY <1>3, <1>4

-----------------------------------------------------------------------------
(* The steps that write to the disk.                                       *)

\* The next sector writeFile writes: free on the disk, beyond the system.
LEMMA WriteDataFacts ==
  ASSUME IInv, NEW p \in Proc, call[p].pc = "writeData",
         NEW s, s = call[p].dirBuffer[call[p].entry].sectors[call[p].z]
  PROVE  /\ call[p] \in Call /\ call[p].kind = "write" /\ call[p].entry \in Entry
         /\ call[p].dirBuffer \in Directory
         /\ call[p].value \in Value /\ call[p].k < MaxSectors
         /\ call[p].z \in 1 .. call[p].k /\ call[p].z \in Slot
         /\ s \in Sector /\ s \notin used /\ s >= NSystem
         /\ Taken = used
<1>1. /\ call[p] \in Call /\ call[p].kind = "write"
      /\ call[p].z \in 1 .. call[p].k /\ call[p].value \in Value
      /\ call[p].dirBuffer \in Directory /\ call[p].entry \in Entry
      /\ call[p].k < MaxSectors
      /\ \A m \in 1 .. call[p].k :
           call[p].dirBuffer[call[p].entry].sectors[m] \notin used
  BY DEF IInv, TypeOK, CallsExact, CallExact, CopiesExact, CopyExact
<1>2. call[p].z \in Slot
  BY <1>1, ConstantFacts DEF Call, Slot
<1>3. s \in Sector
  BY <1>1, <1>2 DEF Directory, DirEntry
<1>4. Taken = used
  BY <1>1, TakenByOne DEF Rewriting
<1>5. \A r \in 0 .. NSystem - 1 : r \in used
  BY <1>4 DEF IInv, DiskExact, Agree
<1>6. s >= NSystem
  <2>1. s \notin used
    BY <1>1
  <2>2. s \in Nat /\ NSystem \in Nat
    BY <1>3, ConstantFacts DEF Sector
  <2>3. ~(s < NSystem)
    BY <1>5, <2>1, <2>2
  <2> QED
    BY <2>2, <2>3
<1> QED
  BY <1>1, <1>2, <1>3, <1>4, <1>6

LEMMA WriteDataKeeps ==
  ASSUME IInv, NEW p \in Proc, WriteData(p)
  PROVE  IInv' /\ Taken' = Taken
<1> DEFINE s == call[p].dirBuffer[call[p].entry].sectors[call[p].z]
           c == [call[p] EXCEPT !.z = call[p].z + 1,
                                !.pc = IF call[p].z = call[p].k THEN "writeDir" ELSE @]
<1>1. /\ call[p].pc = "writeData" /\ UNCHANGED <<used, dir>>
      /\ block' = [block EXCEPT ![s] = <<call[p].value, call[p].z>>]
      /\ wild' = (s \in {1, 2})
  BY DEF WriteData, At
<1>2. /\ call[p] \in Call /\ call[p].kind = "write" /\ call[p].entry \in Entry
      /\ call[p].value \in Value /\ call[p].z \in 1 .. call[p].k /\ call[p].z \in Slot
      /\ call[p].k < MaxSectors /\ s \in Sector /\ s \notin used /\ s >= NSystem
  BY <1>1, WriteDataFacts
<1>3. call' = [call EXCEPT ![p] = c]
  BY <1>2 DEF WriteData, IInv, TypeOK, Call
<1>4. /\ c.kind = "write" /\ c.z = call[p].z + 1 /\ c.k = call[p].k
      /\ c.pc = IF call[p].z = call[p].k THEN "writeDir" ELSE "writeData"
      /\ c.name = call[p].name /\ c.size = call[p].size /\ c.value = call[p].value
      /\ c.dirBuffer = call[p].dirBuffer /\ c.diskMap = call[p].diskMap
      /\ c.entry = call[p].entry
  BY <1>1, <1>2 DEF Call
<1>5. c \in Call
  <2>1. call[p].z + 1 \in Nat
    BY <1>2 DEF Call
  <2> QED
    BY <1>1, <1>2, <2>1 DEF Call, Steps
<1>6. wild' = FALSE
  <2>1. s # 1 /\ s # 2
    BY <1>2, ConstantFacts
  <2>2. (s \in {1, 2}) = FALSE
    BY <2>1
  <2>3. wild' = (s \in {1, 2})
    BY <1>1
  <2> HIDE DEF s
  <2> QED
    BY <2>2, <2>3, Zenon
<1>7. /\ block' \in [Sector -> Block]
      /\ \A r \in 0 .. NSystem - 1 : block'[r] = Blank
  <2>1. <<call[p].value, call[p].z>> \in Block
    BY <1>2 DEF Block
  <2>2. block \in [Sector -> Block] /\ \A r \in 0 .. NSystem - 1 : r \in Sector /\ block[r] = Blank
    BY ConstantFacts DEF IInv, TypeOK, SystemIntact, Sector
  <2>3. \A r \in 0 .. NSystem - 1 : r # s
    BY <1>2, ConstantFacts
  <2> HIDE DEF s
  <2> QED
    BY <1>1, <1>2, <2>1, <2>2, <2>3
<1>8. CallExact(call[p]) /\ CopyExact(call[p])
  BY DEF IInv, CallsExact, CopiesExact
<1>9. call[p].z # call[p].k => c.z \in 1 .. c.k
  BY <1>2, <1>4 DEF Call
<1> HIDE DEF c
<1>10. CallExact(c) /\ FetchExact(c)
  BY <1>1, <1>4, <1>8, <1>9 DEF CallExact, FetchExact
<1>11. CopyExact(c)
  <2>1. c.pc \in {"writeData", "writeDir"}
    BY <1>4
  <2> QED
    BY <1>1, <1>2, <1>4, <1>8, <2>1 DEF CopyExact
<1>12. \A r \in Proc \ {p} : call[r].pc # "idle" => {call[p].kind, call[r].kind} \in MayOverlap
  BY <1>1 DEF IInv, OverlapsAllowed
<1> QED
  BY <1>1, <1>2, <1>3, <1>4, <1>5, <1>6, <1>7, <1>10, <1>11, <1>12, CallStep

\* What the other calls are while p writes: they read, or nothing.
LEMMA OthersRead ==
  ASSUME IInv, NEW p \in Proc, call[p].pc # "idle",
         call[p].kind \in {"write", "delete"}, NEW r \in Proc, r # p
  PROVE  \/ call[r].pc = "idle"
         \/ call[r].kind = "read" /\ call[r].pc \in {"readDir", "fetch"}
BY OneWriter

LEMMA AgreeMore ==
  ASSUME NEW d, NEW u, NEW v, Agree(d, u), u \subseteq v
  PROVE  Agree(d, v)
BY DEF Agree

LEMMA WriteDirectoryKeeps ==
  ASSUME IInv, NEW p \in Proc, WriteDirectory(p)
  PROVE  IInv'
<1>1. /\ call[p].pc = "writeDir" /\ dir' = call[p].dirBuffer
      /\ call' = [call EXCEPT ![p].pc = "writeMap"]
      /\ UNCHANGED <<used, block>> /\ wild' = FALSE
  BY DEF WriteDirectory, At, IInv, TypeOK
<1>2. /\ call[p] \in Call /\ CallExact(call[p]) /\ CopyExact(call[p])
  BY DEF IInv, TypeOK, CallsExact, CopiesExact
<1>3. /\ call[p].kind \in {"write", "delete"} /\ call[p].dirBuffer \in Directory
      /\ Agree(call[p].dirBuffer, call[p].diskMap)
      /\ call[p].kind = "write" => used \subseteq call[p].diskMap
      /\ call[p].kind = "delete" => call[p].diskMap \subseteq used
  BY <1>1, <1>2 DEF CallExact, CopyExact
<1>4. \A r \in Proc : call'[r] = IF r = p THEN [call[p] EXCEPT !.pc = "writeMap"]
                                 ELSE call[r]
  BY <1>1 DEF IInv, TypeOK
<1>5. /\ call'[p].pc = "writeMap"
      /\ call'[p].kind = call[p].kind /\ call'[p].name = call[p].name
      /\ call'[p].size = call[p].size /\ call'[p].value = call[p].value
      /\ call'[p].dirBuffer = call[p].dirBuffer /\ call'[p].diskMap = call[p].diskMap
      /\ call'[p].entry = call[p].entry /\ call'[p].k = call[p].k
      /\ call'[p] \in Call
  BY <1>2, <1>4, SMTT(30) DEF Call, Steps
<1>6. \A r \in Proc : r # p => \/ call[r].pc = "idle"
                               \/ call[r].kind = "read" /\ call[r].pc \in {"readDir", "fetch"}
  BY <1>1, <1>3, OthersRead
<1>7. TypeOK'
  BY <1>1, <1>3, <1>4, <1>5 DEF IInv, TypeOK
<1>8. CallsExact'
  <2> SUFFICES ASSUME NEW r \in Proc PROVE CallExact(call[r])'
    BY DEF CallsExact
  <2>1. CASE r = p
    BY <1>1, <1>2, <1>5, <2>1 DEF CallExact
  <2>2. CASE r # p
    BY <1>4, <2>2 DEF IInv, CallsExact, CallExact
  <2> QED
    BY <2>1, <2>2
<1>9. OverlapsAllowed'
  <2>1. \A r \in Proc : call'[r].kind = call[r].kind /\ (call'[r].pc # "idle" => call[r].pc # "idle")
    BY <1>1, <1>4, <1>5
  <2> QED
    BY <2>1 DEF IInv, OverlapsAllowed
<1>10. CopiesExact'
  <2> SUFFICES ASSUME NEW r \in Proc PROVE CopyExact(call[r])'
    BY DEF CopiesExact
  <2>1. CASE r = p
    BY <1>1, <1>2, <1>3, <1>5, <2>1 DEF CopyExact
  <2>2. CASE r # p
    BY <1>4, <1>6, <2>2 DEF CopyExact
  <2> QED
    BY <2>1, <2>2
<1>11. FetchesExact'
  BY <1>1, <1>4, <1>5 DEF IInv, FetchesExact, FetchExact
<1>12. DiskExact'
  <2>1. \A r \in Proc : Rewriting(r)' <=> r = p /\ call[p].kind = "write"
    BY <1>4, <1>5, <1>6 DEF Rewriting
  <2>2. CASE call[p].kind = "write"
    <3>1. Taken' = call[p].diskMap
      BY <1>1, <1>3, <1>5, <2>1, <2>2 DEF Taken
    <3> QED
      BY <1>1, <1>3, <3>1 DEF DiskExact
  <2>3. CASE call[p].kind = "delete"
    <3>1. Taken' = used
      BY <1>1, <2>1, <2>3 DEF Taken
    <3> QED
      BY <1>1, <1>3, <2>3, <3>1, AgreeMore DEF DiskExact
  <2> QED
    BY <1>3, <2>2, <2>3
<1>13. SystemIntact'
  BY <1>1 DEF IInv, SystemIntact
<1> QED
  BY <1>7, <1>8, <1>9, <1>10, <1>11, <1>12, <1>13 DEF IInv

LEMMA WriteMapKeeps ==
  ASSUME IInv, NEW p \in Proc, WriteMap(p)
  PROVE  IInv'
<1>1. /\ call[p].pc = "writeMap" /\ used' = call[p].diskMap
      /\ call' = [call EXCEPT ![p] = Idle]
      /\ UNCHANGED <<dir, block>> /\ wild' = FALSE
  BY DEF WriteMap, At, IInv, TypeOK
<1>2. /\ call[p] \in Call /\ CallExact(call[p]) /\ CopyExact(call[p])
  BY DEF IInv, TypeOK, CallsExact, CopiesExact
<1>3. /\ call[p].kind \in {"write", "delete"} /\ call[p].diskMap \in SUBSET Sector
      /\ Agree(dir, call[p].diskMap)
  BY <1>1, <1>2 DEF CallExact, CopyExact, Call
<1>4. \A r \in Proc : call'[r] = IF r = p THEN Idle ELSE call[r]
  BY <1>1 DEF IInv, TypeOK
<1>5. \A r \in Proc : \/ call'[r].pc = "idle"
                      \/ call'[r].kind = "read" /\ call'[r].pc \in {"readDir", "fetch"}
  BY <1>1, <1>3, <1>4, OthersRead DEF Idle
<1>6. TypeOK'
  BY <1>1, <1>3, <1>4, IdleCall DEF IInv, TypeOK
<1>7. CallsExact'
  BY <1>4 DEF IInv, CallsExact, CallExact, Idle
<1>8. OverlapsAllowed'
  <2>1. \A r \in Proc : call'[r].pc # "idle" => r # p /\ call'[r] = call[r]
    BY <1>4 DEF Idle
  <2> QED
    BY <2>1 DEF IInv, OverlapsAllowed
<1>9. CopiesExact'
  BY <1>5 DEF CopiesExact, CopyExact
<1>10. FetchesExact'
  BY <1>4 DEF IInv, FetchesExact, FetchExact, Idle
<1>11. Taken' = used'
  BY <1>5 DEF Taken, Rewriting
<1>12. DiskExact'
  BY <1>1, <1>3, <1>11 DEF DiskExact
<1>13. SystemIntact'
  BY <1>1 DEF IInv, SystemIntact
<1> QED
  BY <1>6, <1>7, <1>8, <1>9, <1>10, <1>12, <1>13 DEF IInv

-----------------------------------------------------------------------------
(* loadFile and the power failure.                                         *)

LoadEntry == Min(Matches(dir, NoName))

LoadCount(size) == Min({size, MaxSectors, Cardinality(Sector \ used)})

LoadSectors(size) == [m \in 1 .. LoadCount(size) |-> Unused(used, m)]

LoadNew(n, size) == Entered(dir[LoadEntry], n, LoadSectors(size))

LEMMA LoadFacts ==
  ASSUME IInv, NEW n \in Name, NEW size \in LoadSizes, NEW v \in Value,
         Load(n, size, v)
  PROVE  /\ \A p \in Proc : call[p].pc = "idle"
         /\ UNCHANGED call /\ wild' = FALSE
         /\ Matches(dir, n) = {} \/ "again" \in Exposed
         /\ dir \in Directory /\ used \in SUBSET Sector
         /\ Taken = used /\ Agree(dir, used)
         /\ LoadEntry \in Entry /\ dir[LoadEntry].name = NoName
         /\ size \in Nat /\ size < MaxSectors /\ LoadCount(size) \in Nat
         /\ LoadCount(size) <= size /\ LoadCount(size) <= Cardinality(Sector \ used)
         /\ block' = [s \in Sector |->
               IF \E m \in 1 .. LoadCount(size) : LoadSectors(size)[m] = s
               THEN <<v, CHOOSE m \in 1 .. LoadCount(size) : LoadSectors(size)[m] = s>>
               ELSE block[s]]
         /\ \/ LoadCount(size) < size /\ UNCHANGED <<used, dir>>
            \/ /\ LoadCount(size) = size
               /\ used' = Marked(used, LoadSectors(size))
               /\ dir' = [dir EXCEPT ![LoadEntry] = LoadNew(n, size)]
<1> DEFINE u == used \cup {s \in Sector : s >= ByteRange}
<1>1. /\ \A p \in Proc : call[p].pc = "idle"
      /\ UNCHANGED call /\ wild' = FALSE
      /\ dir \in Directory /\ used \in SUBSET Sector
      /\ Matches(dir, n) = {} \/ "again" \in Exposed
  BY DEF Load, IInv, TypeOK
<1>2. Taken = used /\ Agree(dir, used)
  <2>1. Taken = used
    BY <1>1, TakenByNone DEF Rewriting
  <2> QED
    BY <2>1 DEF IInv, DiskExact
<1>3. LoadEntry \in Entry /\ dir[LoadEntry].name = NoName
  BY MatchesFacts DEF Load, LoadEntry
<1>4. u = used
  BY ConstantFacts DEF Sector
<1>5. size \in Nat /\ size < MaxSectors
  BY LoadAssumption, SizesAssumption
<1>6. /\ LoadCount(size) \in Nat /\ LoadCount(size) <= size
      /\ LoadCount(size) <= Cardinality(Sector \ used)
  <2> DEFINE T == {size, MaxSectors, Cardinality(Sector \ used)}
  <2>1. T \in SUBSET Nat /\ T # {}
    BY <1>5, FreeFinite, ConstantFacts
  <2>2. Min(T) \in T /\ \A k \in T : Min(T) <= k
    BY <2>1, MinOfNaturals
  <2> QED
    BY <2>1, <2>2 DEF LoadCount
<1>7. block' = [s \in Sector |->
         IF \E m \in 1 .. LoadCount(size) : LoadSectors(size)[m] = s
         THEN <<v, CHOOSE m \in 1 .. LoadCount(size) : LoadSectors(size)[m] = s>>
         ELSE block[s]]
  BY <1>4 DEF Load, LoadCount, LoadSectors
<1>8. \/ LoadCount(size) < size /\ UNCHANGED <<used, dir>>
      \/ /\ ~(LoadCount(size) < size)
         /\ used' = Marked(used, LoadSectors(size))
         /\ dir' = [dir EXCEPT ![LoadEntry] = LoadNew(n, size)]
  <2>1. IF LoadCount(size) < size
          THEN UNCHANGED <<used, dir>>
          ELSE /\ used' = Marked(used, LoadSectors(size))
               /\ dir' = [dir EXCEPT ![LoadEntry] = Entered(@, n, LoadSectors(size))]
    BY <1>4 DEF Load, LoadCount, LoadSectors, LoadEntry
  <2> QED
    BY <2>1 DEF LoadNew
<1>9. ~(LoadCount(size) < size) => LoadCount(size) = size
  BY <1>5, <1>6
<1> QED
  BY <1>1, <1>2, <1>3, <1>5, <1>6, <1>7, <1>8, <1>9

\* The sectors loadFile writes are free, and hold the file in order.
LEMMA LoadBlocks ==
  ASSUME IInv, NEW n \in Name, NEW size \in LoadSizes, NEW v \in Value,
         Load(n, size, v)
  PROVE  /\ block' \in [Sector -> Block]
         /\ \A s \in used : block'[s] = block[s]
         /\ \A m \in 1 .. LoadCount(size) :
              /\ Unused(used, m) \in Sector
              /\ block'[Unused(used, m)] = <<v, m>>
<1> DEFINE c == LoadCount(size)
           sectors == LoadSectors(size)
<1>1. /\ c \in Nat /\ c <= Cardinality(Sector \ used) /\ c <= size /\ size < MaxSectors
      /\ size \in Nat /\ used \in SUBSET Sector
      /\ block' = [s \in Sector |->
               IF \E m \in 1 .. c : sectors[m] = s
               THEN <<v, CHOOSE m \in 1 .. c : sectors[m] = s>>
               ELSE block[s]]
  BY LoadFacts, ZenonT(60)
<1>2. \A m \in 1 .. c : sectors[m] = Unused(used, m)
  BY DEF LoadSectors
<1> HIDE DEF c, sectors
<1>3. /\ \A m \in 1 .. c : sectors[m] \in Sector \ used
      /\ \A m, l \in 1 .. c : sectors[m] = sectors[l] => m = l
  <2>1. c \in Nat /\ c <= Cardinality(Sector \ used)
    BY <1>1
  <2>2. /\ \A m \in 1 .. c : Unused(used, m) \in Sector \ used
        /\ \A m, l \in 1 .. c : Unused(used, m) = Unused(used, l) => m = l
    BY <2>1, UnusedFacts
  <2> QED
    BY <1>2, <2>2
<1>4. \A s \in used : block'[s] = block[s]
  BY <1>1, <1>3
<1>5. ASSUME NEW m \in 1 .. c
      PROVE  block'[sectors[m]] = <<v, m>>
  <2>1. (CHOOSE l \in 1 .. c : sectors[l] = sectors[m]) = m
    BY <1>3
  <2> QED
    BY <1>1, <1>3, <2>1
<1>6. ASSUME NEW s \in Sector
      PROVE  block'[s] \in Block
  <2>1. CASE \E m \in 1 .. c : sectors[m] = s
    <3>1. PICK m \in 1 .. c : sectors[m] = s
      BY <2>1
    <3>2. m \in Slot
      BY <1>1, ConstantFacts DEF Slot
    <3> QED
      BY <1>5, <3>1, <3>2 DEF Block
  <2>2. CASE ~\E m \in 1 .. c : sectors[m] = s
    BY <1>1, <2>2 DEF IInv, TypeOK
  <2> QED
    BY <2>1, <2>2
<1>7. block' \in [Sector -> Block]
  BY <1>1, <1>6
<1> QED
  BY <1>2, <1>3, <1>4, <1>5, <1>7 DEF c

\* The directory and the map loadFile writes.
LEMMA LoadedFacts ==
  ASSUME IInv, NEW n \in Name, NEW size \in LoadSizes, NEW v \in Value,
         Load(n, size, v), LoadCount(size) = size,
         NEW new, new = LoadNew(n, size)
  PROVE  /\ new \in DirEntry /\ new.name = n
         /\ \A k \in Slot : new.sectors[k] = IF k <= size THEN Unused(used, k) ELSE 0
         /\ Marked(used, LoadSectors(size)) \in SUBSET Sector
         /\ used \subseteq Marked(used, LoadSectors(size))
         /\ Marked(used, LoadSectors(size)) \subseteq used \cup Listed(new)
         /\ Agree([dir EXCEPT ![LoadEntry] = new], Marked(used, LoadSectors(size)))
<1> DEFINE sectors == LoadSectors(size)
           e == LoadEntry
<1>1. /\ dir \in Directory /\ used \in SUBSET Sector /\ Agree(dir, used)
      /\ e \in Entry /\ dir[e].name = NoName
      /\ size \in Nat /\ size < MaxSectors /\ size <= Cardinality(Sector \ used)
  BY LoadFacts
<1>2. dir[e].name # System
  BY <1>1, NameAssumption
<1>3. /\ sectors = [m \in 1 .. size |-> Unused(used, m)]
      /\ new = Entered(dir[e], n, sectors)
  BY DEF LoadSectors, LoadNew
<1>4. \A k \in Slot : dir[e].sectors[k] = 0
  BY <1>1 DEF Agree
<1> HIDE DEF sectors, e
<1>5. /\ new \in DirEntry /\ new.name = n
      /\ \A k \in Slot : new.sectors[k] = IF k <= size THEN Unused(used, k)
                                          ELSE dir[e].sectors[k]
      /\ Marked(used, sectors) \in SUBSET Sector
      /\ used \subseteq Marked(used, sectors)
      /\ Marked(used, sectors) \subseteq used \cup Listed(new)
      /\ Agree([dir EXCEPT ![e] = new], Marked(used, sectors))
  BY <1>1, <1>2, <1>3, EnteredFacts, SMTT(30)
<1> QED
  BY <1>4, <1>5 DEF e, sectors

LEMMA LoadKeeps ==
  ASSUME IInv, NEW n \in Name, NEW size \in LoadSizes, NEW v \in Value,
         Load(n, size, v)
  PROVE  IInv'
<1>1. /\ \A p \in Proc : call[p].pc = "idle"
      /\ call' = call /\ wild' = FALSE
      /\ dir \in Directory /\ used \in SUBSET Sector
      /\ Taken = used /\ Agree(dir, used) /\ LoadEntry \in Entry
      /\ \/ UNCHANGED <<used, dir>>
         \/ /\ LoadCount(size) = size
            /\ used' = Marked(used, LoadSectors(size))
            /\ dir' = [dir EXCEPT ![LoadEntry] = LoadNew(n, size)]
  BY LoadFacts
<1>2. /\ block' \in [Sector -> Block] /\ \A s \in used : block'[s] = block[s]
  BY LoadBlocks
<1>3. used' \in SUBSET Sector /\ dir' \in Directory /\ Agree(dir, used)'
  <2>1. CASE UNCHANGED <<used, dir>>
    BY <1>1, <2>1 DEF Agree
  <2>2. CASE /\ LoadCount(size) = size
             /\ used' = Marked(used, LoadSectors(size))
             /\ dir' = [dir EXCEPT ![LoadEntry] = LoadNew(n, size)]
    <3>1. /\ LoadNew(n, size) \in DirEntry
          /\ Marked(used, LoadSectors(size)) \in SUBSET Sector
          /\ Agree([dir EXCEPT ![LoadEntry] = LoadNew(n, size)],
                   Marked(used, LoadSectors(size)))
      BY <2>2, LoadedFacts
    <3> QED
      BY <1>1, <2>2, <3>1, DirectoryType
  <2> QED
    BY <1>1, <2>1, <2>2
<1>4. TypeOK'
  BY <1>1, <1>2, <1>3 DEF IInv, TypeOK
<1>5. CallsExact' /\ OverlapsAllowed' /\ CopiesExact' /\ FetchesExact'
  BY <1>1 DEF IInv, CallsExact, CallExact, OverlapsAllowed, CopiesExact, CopyExact,
              FetchesExact, FetchExact
<1>6. DiskExact'
  <2>1. Taken' = used'
    BY <1>1 DEF Taken, Rewriting
  <2> QED
    BY <1>3, <2>1 DEF DiskExact
<1>7. SystemIntact'
  <2>1. \A s \in 0 .. NSystem - 1 : s \in used
    BY <1>1 DEF Agree
  <2> QED
    BY <1>2, <2>1 DEF IInv, SystemIntact
<1> QED
  BY <1>4, <1>5, <1>6, <1>7 DEF IInv

LEMMA CrashKeeps ==
  ASSUME IInv, Crash
  PROVE  IInv'
<1>1. /\ \A p \in Proc : call'[p] = Idle
      /\ \A p \in Proc : ~Rewriting(p)
      /\ UNCHANGED <<used, dir, block>> /\ wild' = FALSE
      /\ call' = [p \in Proc |-> Idle]
  BY PowerAssumption DEF Crash, Rewriting, IInv, TypeOK
<1>2. Agree(dir, used)
  BY <1>1, TakenByNone DEF IInv, DiskExact
<1>3. TypeOK'
  BY <1>1, IdleCall DEF IInv, TypeOK
<1>4. CallsExact' /\ OverlapsAllowed' /\ CopiesExact' /\ FetchesExact'
  BY <1>1 DEF CallsExact, CallExact, OverlapsAllowed, CopiesExact, CopyExact,
              FetchesExact, FetchExact, Idle
<1>5. Taken' = used
  BY <1>1 DEF Taken, Rewriting, Idle
<1>6. DiskExact'
  BY <1>1, <1>2, <1>5 DEF DiskExact
<1>7. SystemIntact'
  BY <1>1 DEF IInv, SystemIntact
<1> QED
  BY <1>3, <1>4, <1>6, <1>7 DEF IInv

LEMMA StutterKeeps ==
  ASSUME IInv, UNCHANGED vars
  PROVE  IInv' /\ Taken' = Taken
<1>1. /\ UNCHANGED <<used, dir, block, call>> /\ wild' = wild
  BY DEF vars
<1>2. Taken' = Taken
  BY <1>1, TakenSame DEF Rewriting
<1>3. TypeOK' /\ SystemIntact'
  BY <1>1 DEF IInv, TypeOK, SystemIntact
<1>4. CallsExact' /\ OverlapsAllowed' /\ FetchesExact'
  BY <1>1 DEF IInv, CallsExact, CallExact, OverlapsAllowed, FetchesExact, FetchExact
<1>5. CopiesExact'
  BY <1>1 DEF IInv, CopiesExact, CopyExact
<1> QED
  BY <1>1, <1>2, <1>3, <1>4, <1>5 DEF IInv, DiskExact

LEMMA NextIInv == IInv /\ [Next]_vars => IInv'
<1> SUFFICES ASSUME IInv, [Next]_vars PROVE IInv'
  OBVIOUS
<1>1. ASSUME NEW p \in Proc,
             \/ \E n \in Name : BeginRead(p, n) \/ BeginDelete(p, n)
             \/ \E n \in Name, size \in Sizes, v \in Value : BeginWrite(p, n, size, v)
      PROVE  IInv'
  BY <1>1, BeginReadKeeps, BeginDeleteKeeps, BeginWriteKeeps
<1>2. ASSUME NEW p \in Proc,
             ReadDirectory(p) \/ Fetch(p) \/ ReadMapToWrite(p) \/ ReadMapToDelete(p)
      PROVE  IInv'
  BY <1>2, ReadDirectoryKeeps, FetchKeeps, ReadMapToWriteKeeps, ReadMapToDeleteKeeps
<1>3. ASSUME NEW p \in Proc, WriteData(p) \/ WriteDirectory(p) \/ WriteMap(p)
      PROVE  IInv'
  BY <1>3, WriteDataKeeps, WriteDirectoryKeeps, WriteMapKeeps
<1>4. ASSUME NEW n \in Name, NEW size \in LoadSizes, NEW v \in Value, Load(n, size, v)
      PROVE  IInv'
  BY <1>4, LoadKeeps
<1>5. CASE Crash
  BY <1>5, CrashKeeps
<1>6. CASE UNCHANGED vars
  BY <1>6, StutterKeeps
<1> QED
  BY <1>1, <1>2, <1>3, <1>4, <1>5, <1>6 DEF Next

-----------------------------------------------------------------------------
\* The invariant holds in every state of every behaviour.
THEOREM Invariance == Spec => []IInv
BY InitIInv, NextIInv, PTL DEF Spec

\* The lists of a directory that agrees with a map are lists of used sectors.
LEMMA AgreeListed ==
  ASSUME NEW d \in Directory, NEW u, Agree(d, u), NEW e \in Entry
  PROVE  /\ Listed(d[e]) \subseteq u
         /\ Length(d[e]) \in Nat
         /\ \A i \in 1 .. Length(d[e]) : i \in Slot /\ d[e].sectors[i] # 0
<1>1. d[e] \in DirEntry
  BY DEF Directory
<1>2. /\ Length(d[e]) \in Nat
      /\ \A i \in 1 .. Length(d[e]) : i \in Slot /\ d[e].sectors[i] # 0
  BY <1>1, LengthFacts
<1> QED
  BY <1>2 DEF Agree, Listed

LEMMA NoCrossLinkHolds == IInv => NoCrossLink
<1> SUFFICES ASSUME IInv PROVE NoCrossLink
  OBVIOUS
<1>1. dir \in Directory /\ Agree(dir, Taken)
  BY DEF IInv, TypeOK, DiskExact
<1>2. \A e \in Entry : \A i \in 1 .. Length(dir[e]) : i \in Slot /\ dir[e].sectors[i] # 0
  BY <1>1, AgreeListed
<1>3. ASSUME NEW e \in Entry, NEW f \in Entry, NEW i \in 1 .. Length(dir[e]),
             NEW j \in 1 .. Length(dir[f]), dir[e].sectors[i] = dir[f].sectors[j]
      PROVE  e = f /\ i = j
  BY <1>1, <1>2, <1>3 DEF Agree, Distinct
<1>4. ASSUME NEW e \in Entry, dir[e].name # System, NEW i \in 1 .. Length(dir[e])
      PROVE  dir[e].sectors[i] >= NSystem
  BY <1>1, <1>2, <1>4 DEF Agree
<1> QED
  BY <1>3, <1>4 DEF NoCrossLink

LEMMA ListedAreUsedHolds == IInv => ListedAreUsed
<1> SUFFICES ASSUME IInv, \A p \in Proc : call[p].pc # "writeMap", NEW e \in Entry
             PROVE  Listed(dir[e]) \subseteq used
  BY DEF ListedAreUsed
<1>1. Taken = used
  BY TakenByNone DEF Rewriting
<1> QED
  BY <1>1, AgreeListed DEF IInv, TypeOK, DiskExact

\* No sector belongs to two files or twice to one, nor a sector of the system
\* to a file, whatever writes, deletes and power failures there were
\* (kernel.c:510-530).
THEOREM FilesShareNoSector == Spec => []NoCrossLink
BY Invariance, NoCrossLinkHolds, PTL

\* Every sector in a list is marked in the map (kernel.c:524-529, 541-542).
THEOREM ListsAreMarked == Spec => []ListedAreUsed
BY Invariance, ListedAreUsedHolds, PTL

\* No data are written over the boot sector or the kernel either
\* (kernel.c:522-531).
THEOREM SystemStaysIntact == Spec => []SystemIntact
<1>1. IInv => SystemIntact
  BY DEF IInv
<1> QED
  BY <1>1, Invariance, PTL

-----------------------------------------------------------------------------
(* No sector is lost but by a file written again.                          *)

\* The steps of a call that do not write the map or the directory.
Quiet(p) ==
  \/ \E n \in Name : BeginRead(p, n) \/ BeginDelete(p, n)
  \/ \E n \in Name, size \in Sizes, v \in Value : BeginWrite(p, n, size, v)
  \/ ReadDirectory(p) \/ Fetch(p) \/ ReadMapToWrite(p) \/ ReadMapToDelete(p)
  \/ WriteData(p)

LEMMA QuietFacts ==
  ASSUME IInv, NEW p \in Proc, Quiet(p)
  PROVE  /\ UNCHANGED <<used, dir>> /\ Taken' = Taken
         /\ \A r \in Proc \ {p} : call'[r] = call[r]
         /\ call[p].pc # "writeMap" /\ call'[p].pc # "writeMap"
<1>1. ASSUME NEW c, call' = [call EXCEPT ![p] = c]
      PROVE  call'[p] = c /\ \A r \in Proc \ {p} : call'[r] = call[r]
  BY <1>1 DEF IInv, TypeOK
<1>2. ASSUME NEW n \in Name, BeginRead(p, n)
      PROVE  /\ UNCHANGED <<used, dir>> /\ Taken' = Taken
             /\ \A r \in Proc \ {p} : call'[r] = call[r]
             /\ call[p].pc # "writeMap" /\ call'[p].pc # "writeMap"
  BY <1>1, <1>2, BeginReadKeeps DEF BeginRead, Begin, MayBegin, At, Idle
<1>3. ASSUME NEW n \in Name, BeginDelete(p, n)
      PROVE  /\ UNCHANGED <<used, dir>> /\ Taken' = Taken
             /\ \A r \in Proc \ {p} : call'[r] = call[r]
             /\ call[p].pc # "writeMap" /\ call'[p].pc # "writeMap"
  BY <1>1, <1>3, BeginDeleteKeeps DEF BeginDelete, Begin, MayBegin, At, Idle
<1>4. ASSUME NEW n \in Name, NEW size \in Sizes, NEW v \in Value, BeginWrite(p, n, size, v)
      PROVE  /\ UNCHANGED <<used, dir>> /\ Taken' = Taken
             /\ \A r \in Proc \ {p} : call'[r] = call[r]
             /\ call[p].pc # "writeMap" /\ call'[p].pc # "writeMap"
  <2>1. UNCHANGED <<used, dir>> /\ Taken' = Taken
    BY <1>4, BeginWriteKeeps DEF BeginWrite, Begin
  <2>2. call[p].pc # "writeMap"
    BY <1>4 DEF BeginWrite, MayBegin, At
  <2> DEFINE c == [Idle EXCEPT !.kind = "write", !.pc = "readDir", !.name = n,
                               !.size = Capped(size), !.value = v]
  <2>3. call' = [call EXCEPT ![p] = c]
    BY <1>4 DEF BeginWrite, Begin
  <2>4. c.pc = "readDir"
    BY DEF Idle
  <2> HIDE DEF c
  <2> QED
    BY <1>1, <2>1, <2>2, <2>3, <2>4
<1>5. CASE ReadDirectory(p)
  <2> DEFINE c == DirectoryCall(p)
  <2>1. /\ call' = [call EXCEPT ![p] = c] /\ c.pc # "writeMap"
        /\ UNCHANGED <<used, dir>> /\ call[p].pc # "writeMap"
    BY <1>5, DirectoryCopies
  <2> HIDE DEF c
  <2> QED
    BY <1>1, <1>5, <2>1, ReadDirectoryKeeps
<1>6. CASE Fetch(p)
  <2> DEFINE c == FetchCall(p)
  <2>1. /\ call' = [call EXCEPT ![p] = c] /\ c.pc # "writeMap"
        /\ UNCHANGED <<used, dir>> /\ call[p].pc # "writeMap"
    BY <1>6, FetchCopies
  <2> HIDE DEF c
  <2> QED
    BY <1>1, <1>6, <2>1, FetchKeeps
<1>7. CASE ReadMapToWrite(p)
  <2> DEFINE c == WriteCall(p)
  <2>1. /\ call[p].pc = "readMap" /\ call[p].kind = "write" /\ UNCHANGED <<used, dir>>
        /\ \/ call' = [call EXCEPT ![p] = Idle]
           \/ /\ call' = [call EXCEPT ![p] = c] /\ WriteEntry(p) \in Entry
              /\ dir[WriteEntry(p)].name \in {call[p].name, NoName}
    BY <1>7, WriteCopies
  <2>2. c = WriteCall(p)
    OBVIOUS
  <2> HIDE DEF c
  <2>3. call' = [call EXCEPT ![p] = c] /\ WriteEntry(p) \in Entry
        /\ dir[WriteEntry(p)].name \in {call[p].name, NoName}
          => c.pc \in {"writeData", "writeDir"}
    BY <2>1, <2>2, WriteCallFacts
  <2>4. Idle.pc = "idle"
    BY DEF Idle
  <2> QED
    BY <1>1, <1>7, <2>1, <2>3, <2>4, ReadMapToWriteKeeps
<1>8. CASE ReadMapToDelete(p)
  <2> DEFINE c == DeleteCall(p)
  <2>1. /\ call[p].pc = "readMap" /\ call[p] \in Call /\ UNCHANGED <<used, dir>>
        /\ \/ call' = [call EXCEPT ![p] = Idle]
           \/ call' = [call EXCEPT ![p] = c]
    BY <1>8, DeleteCopies
  <2>2. c.pc = "writeDir"
    BY <2>1 DEF DeleteCall, Call
  <2>3. Idle.pc = "idle"
    BY DEF Idle
  <2> HIDE DEF c
  <2> QED
    BY <1>1, <1>8, <2>1, <2>2, <2>3, ReadMapToDeleteKeeps
<1>9. CASE WriteData(p)
  <2>1. /\ call[p].pc = "writeData" /\ UNCHANGED <<used, dir>> /\ call[p] \in Call
        /\ call' = [call EXCEPT ![p].z = call[p].z + 1,
                      ![p].pc = IF call[p].z = call[p].k THEN "writeDir" ELSE @]
    BY <1>9 DEF WriteData, At, IInv, TypeOK
  <2>2. /\ \A r \in Proc \ {p} : call'[r] = call[r]
        /\ call'[p].pc # "writeMap"
    BY <2>1 DEF IInv, TypeOK, Call
  <2> QED
    BY <1>9, <2>1, <2>2, WriteDataKeeps
<1> QED
  BY <1>2, <1>3, <1>4, <1>5, <1>6, <1>7, <1>8, <1>9 DEF Quiet

LostIs(s) ==
  /\ s \in used /\ s >= NSystem
  /\ \A e \in Entry : s \notin Listed(dir[e])
  /\ \A p \in Proc : call[p].pc = "writeMap" => s \in call[p].diskMap

LEMMA LostMeans == \A s : s \in Lost <=> LostIs(s)
BY DEF Lost, LostIs

\* The two ways a sector may be lost.
Excused(s) ==
  \/ \E p \in Proc : /\ call[p].kind = "write" /\ call[p].pc = "writeDir"
                     /\ s \in Listed(dir[call[p].entry])
  \/ \A p \in Proc : call'[p] = Idle

LEMMA LoseStep ==
  ASSUME IInv, [Next]_vars, NEW s, LostIs(s)', ~LostIs(s)
  PROVE  Excused(s)
<1>1. ASSUME NEW p \in Proc, Quiet(p)
      PROVE  FALSE
  <2>1. /\ UNCHANGED <<used, dir>>
        /\ \A r \in Proc \ {p} : call'[r] = call[r]
        /\ call[p].pc # "writeMap" /\ call'[p].pc # "writeMap"
    BY <1>1, QuietFacts
  <2>2. \A e \in Entry : Listed(dir[e])' = Listed(dir[e])
    BY <2>1 DEF Listed, Length, Full
  <2> QED
    BY <2>1, <2>2 DEF LostIs
<1>2. ASSUME NEW p \in Proc, WriteDirectory(p)
      PROVE  Excused(s)
  <2>1. /\ call[p].pc = "writeDir" /\ dir' = call[p].dirBuffer
        /\ call' = [call EXCEPT ![p].pc = "writeMap"]
        /\ UNCHANGED used /\ call[p] \in Call
        /\ CallExact(call[p]) /\ CopyExact(call[p])
    BY <1>2 DEF WriteDirectory, At, IInv, TypeOK, CallsExact, CopiesExact
  <2>2. /\ call[p].kind \in {"write", "delete"} /\ call[p].entry \in Entry
        /\ \A f \in Entry \ {call[p].entry} : dir'[f] = dir[f]
        /\ call[p].kind = "delete" => call[p].diskMap = used \ Listed(dir[call[p].entry])
    BY <2>1 DEF CallExact, CopyExact
  <2>3. call'[p].pc = "writeMap" /\ call'[p].diskMap = call[p].diskMap
    BY <2>1 DEF IInv, TypeOK, Call
  <2>4. s \in used /\ s >= NSystem /\ s \in call[p].diskMap
    BY <2>1, <2>3 DEF LostIs
  <2>5. \A f \in Entry \ {call[p].entry} : s \notin Listed(dir[f])
    <3>1. \A f \in Entry : s \notin Listed(dir'[f])
      BY DEF LostIs, Listed, Length, Full
    <3> QED
      BY <2>2, <3>1
  <2>6. \A r \in Proc : call[r].pc # "writeMap"
    BY <2>1, <2>2, OthersRead
  <2>7. s \in Listed(dir[call[p].entry])
    BY <2>2, <2>4, <2>5, <2>6 DEF LostIs
  <2> QED
    BY <2>1, <2>2, <2>4, <2>7 DEF Excused
<1>3. ASSUME NEW p \in Proc, WriteMap(p)
      PROVE  FALSE
  <2>1. /\ call[p].pc = "writeMap" /\ used' = call[p].diskMap /\ dir' = dir
        /\ CallExact(call[p]) /\ CopyExact(call[p])
    BY <1>3 DEF WriteMap, At, IInv, CallsExact, CopiesExact
  <2>2. /\ call[p].kind \in {"write", "delete"} /\ call[p].entry \in Entry
        /\ call[p].dirBuffer = dir
        /\ call[p].kind = "write" =>
             call[p].diskMap \subseteq used \cup Listed(dir[call[p].entry])
        /\ call[p].kind = "delete" => call[p].diskMap \subseteq used
    BY <2>1 DEF CallExact, CopyExact
  <2>3. /\ s \in call[p].diskMap /\ s >= NSystem
        /\ \A f \in Entry : s \notin Listed(dir[f])
    <3>1. \A f \in Entry : s \notin Listed(dir'[f])
      BY DEF LostIs, Listed, Length, Full
    <3> QED
      BY <2>1, <3>1 DEF LostIs
  <2>4. s \in used
    BY <2>2, <2>3
  <2>5. \A r \in Proc : call[r].pc = "writeMap" => r = p
    BY <2>1, <2>2, OthersRead
  <2> QED
    BY <2>3, <2>4, <2>5 DEF LostIs
<1>4. ASSUME NEW n \in Name, NEW size \in LoadSizes, NEW v \in Value, Load(n, size, v)
      PROVE  FALSE
  <2>1. /\ \A p \in Proc : call[p].pc = "idle" /\ call'[p].pc = "idle"
        /\ dir \in Directory /\ LoadEntry \in Entry /\ dir[LoadEntry].name = NoName
        /\ Agree(dir, used)
        /\ \/ UNCHANGED <<used, dir>>
           \/ /\ LoadCount(size) = size
              /\ used' = Marked(used, LoadSectors(size))
              /\ dir' = [dir EXCEPT ![LoadEntry] = LoadNew(n, size)]
    BY <1>4, LoadFacts
  <2>2. /\ s \in used' /\ s >= NSystem
        /\ \A f \in Entry : s \notin Listed(dir'[f])
    BY DEF LostIs, Listed, Length, Full
  <2>3. CASE UNCHANGED <<used, dir>>
    BY <2>1, <2>2, <2>3 DEF LostIs
  <2>4. CASE /\ LoadCount(size) = size
             /\ used' = Marked(used, LoadSectors(size))
             /\ dir' = [dir EXCEPT ![LoadEntry] = LoadNew(n, size)]
    <3>1. Marked(used, LoadSectors(size)) \subseteq used \cup Listed(LoadNew(n, size))
      BY <1>4, <2>4, LoadedFacts
    <3>2. /\ dir'[LoadEntry] = LoadNew(n, size)
          /\ \A f \in Entry \ {LoadEntry} : dir'[f] = dir[f]
      BY <2>1, <2>4 DEF Directory
    <3>3. s \in used
      BY <2>1, <2>2, <2>4, <3>1, <3>2
    <3>4. s \notin Listed(dir[LoadEntry])
      <4>1. dir[LoadEntry] \in DirEntry /\ Tidy(dir[LoadEntry])
            /\ \A k \in Slot : dir[LoadEntry].sectors[k] = 0
        BY <2>1 DEF Agree, Directory
      <4> QED
        BY <4>1, TidyLength
    <3>5. \A f \in Entry : s \notin Listed(dir[f])
      BY <2>2, <3>2, <3>4
    <3> QED
      BY <2>1, <2>2, <3>3, <3>5 DEF LostIs
  <2> QED
    BY <2>1, <2>3, <2>4
<1>5. CASE Crash
  BY <1>5 DEF Crash, Excused
<1>6. CASE UNCHANGED vars
  <2>1. UNCHANGED <<used, dir, call>>
    BY <1>6 DEF vars
  <2>2. \A e \in Entry : Listed(dir[e])' = Listed(dir[e])
    BY <2>1 DEF Listed, Length, Full
  <2> QED
    BY <2>1, <2>2 DEF LostIs
<1> QED
  BY <1>1, <1>2, <1>3, <1>4, <1>5, <1>6 DEF Next, Quiet

\* Only a file written again, or a power failure, loses sectors
\* (kernel.c:434-442, 510-542).
THEOREM OnlyRewritesLoseSectors == Spec => OnlyRewritesLose
<1>1. IInv /\ [Next]_vars => [\A s \in Lost' \ Lost : Excused(s)]_vars
  <2> SUFFICES ASSUME IInv, [Next]_vars, NEW s \in Lost' \ Lost
               PROVE  Excused(s)
    OBVIOUS
  <2>1. LostIs(s)' /\ ~LostIs(s)
    BY DEF Lost, LostIs
  <2> QED
    BY <2>1, LoseStep
<1>2. (\A s \in Lost' \ Lost : Excused(s)) <=>
        \A s \in Lost' \ Lost :
          \/ \E p \in Proc : /\ call[p].kind = "write" /\ call[p].pc = "writeDir"
                             /\ s \in Listed(dir[call[p].entry])
          \/ \A p \in Proc : call'[p] = Idle
  BY DEF Excused
<1> QED
  BY <1>1, <1>2, Invariance, PTL DEF Spec, OnlyRewritesLose
-----------------------------------------------------------------------------
(* A reader gets the file as it was.                                       *)

LEMMA SubSeqAppend ==
  ASSUME NEW S, NEW s \in Seq(S), NEW z \in 1 .. Len(s)
  PROVE  Append(SubSeq(s, 1, z - 1), s[z]) = SubSeq(s, 1, z)
OBVIOUS

\* What a reader has fetched, and is yet to fetch, does not change with blocks
\* that are not taken.
LEMMA ReaderFrame ==
  ASSUME IInv, NEW r \in Proc, ReaderExact(call[r]), call'[r] = call[r],
         Taken \subseteq Taken', \A s \in Taken : block'[s] = block[s]
  PROVE  ReaderExact(call[r])'
<1> DEFINE entry == call[r].dirBuffer[call[r].entry]
<1>1. CASE call[r].pc # "fetch"
  BY <1>1 DEF ReaderExact
<1>2. CASE call[r].pc = "fetch"
  <2>1. entry \in DirEntry
    BY <1>2 DEF IInv, CallsExact, CallExact, Directory
  <2>2. \A k \in 1 .. Length(entry) : k \in Slot
    BY <2>1, LengthFacts
  <2>3. /\ Tidy(entry)
        /\ \A k \in Slot : entry.sectors[k] \in Taken
        /\ Len(call[r].held) = Length(entry)
        /\ call[r].z <= Length(entry) + 1
        /\ \A k \in 1 .. Length(entry) : block[entry.sectors[k]] = call[r].held[k]
        /\ call[r].buf = SubSeq(call[r].held, 1, call[r].z - 1)
    BY <1>2 DEF ReaderExact
  <2>4. /\ \A k \in Slot : entry.sectors[k] \in Taken'
        /\ \A k \in 1 .. Length(entry) : block'[entry.sectors[k]] = call[r].held[k]
    BY <2>2, <2>3
  <2> QED
    BY <1>2, <2>3, <2>4 DEF ReaderExact
<1> QED
  BY <1>1, <1>2

\* A step of a call that is not at a fetch afterwards.
LEMMA ReadersStep ==
  ASSUME IInv, ReadersExact, NEW p \in Proc, NEW c,
         \A r \in Proc : call'[r] = IF r = p THEN c ELSE call[r],
         Taken \subseteq Taken', \A s \in Taken : block'[s] = block[s],
         c.pc # "fetch", c.buf = c.held, c.pc # "idle" => c.buf = <<>>
  PROVE  ReadersExact'
<1>1. \A r \in Proc \ {p} : ReaderExact(call[r])'
  BY ReaderFrame DEF ReadersExact
<1>2. call'[p] = c
  OBVIOUS
<1>3. ReaderExact(call[p])'
  BY <1>2 DEF ReaderExact
<1> QED
  BY <1>1, <1>3 DEF ReadersExact

LEMMA CallUpdate ==
  ASSUME IInv, NEW p \in Proc, NEW c, call' = [call EXCEPT ![p] = c]
  PROVE  \A r \in Proc : call'[r] = IF r = p THEN c ELSE call[r]
BY DEF IInv, TypeOK

LEMMA BeginReaders ==
  ASSUME IInv, ReadersExact, NEW p \in Proc, Taken' = Taken,
         \/ \E n \in Name : BeginRead(p, n) \/ BeginDelete(p, n)
         \/ \E n \in Name, size \in Sizes, v \in Value : BeginWrite(p, n, size, v)
  PROVE  ReadersExact'
<1>1. ASSUME NEW c, Begin(p, c), c.pc = "readDir", c.buf = <<>>, c.held = <<>>
      PROVE  ReadersExact'
  <2>1. call' = [call EXCEPT ![p] = c] /\ block' = block
    BY <1>1 DEF Begin
  <2>2. \A r \in Proc : call'[r] = IF r = p THEN c ELSE call[r]
    BY <2>1, CallUpdate
  <2> QED
    BY <1>1, <2>1, <2>2, ReadersStep
<1>2. ASSUME NEW n \in Name, BeginRead(p, n)
      PROVE  ReadersExact'
  BY <1>1, <1>2 DEF BeginRead, Idle
<1>3. ASSUME NEW n \in Name, BeginDelete(p, n)
      PROVE  ReadersExact'
  BY <1>1, <1>3 DEF BeginDelete, Idle
<1>4. ASSUME NEW n \in Name, NEW size \in Sizes, NEW v \in Value, BeginWrite(p, n, size, v)
      PROVE  ReadersExact'
  BY <1>1, <1>4 DEF BeginWrite, Idle
<1> QED
  BY <1>2, <1>3, <1>4

LEMMA ReadDirectoryReaders ==
  ASSUME IInv, ReadersExact, NEW p \in Proc, Taken' = Taken, ReadDirectory(p)
  PROVE  ReadersExact'
<1> DEFINE c == DirectoryCall(p)
           found == Matches(dir, call[p].name)
           entry == dir[Min(found)]
<1>1. /\ call[p].pc = "readDir" /\ block' = block
      /\ call' = [call EXCEPT ![p] = c]
      /\ call[p].kind # "read" =>
           c.pc = "readMap" /\ c.buf = call[p].buf /\ c.held = call[p].held
      /\ call[p].kind = "read" /\ found = {} =>
           c.pc = "idle" /\ c.buf = <<>> /\ c.held = <<>>
      /\ call[p].kind = "read" /\ found # {} =>
           /\ c.pc = "fetch" /\ c.dirBuffer = dir /\ c.entry = Min(found) /\ c.z = 1
           /\ c.buf = call[p].buf /\ c.held = Stored(call[p].name)
  BY DirectoryCopies
<1>2. call[p].buf = <<>> /\ call[p].held = <<>>
  BY <1>1 DEF ReadersExact, ReaderExact
<1>3. CASE ~(call[p].kind = "read" /\ found # {})
  <2> HIDE DEF c, found
  <2> QED
    BY <1>1, <1>2, <1>3, CallUpdate, ReadersStep
<1>4. CASE call[p].kind = "read" /\ found # {}
  <2>1. /\ Stored(call[p].name) = [k \in 1 .. Length(entry) |-> block[entry.sectors[k]]]
        /\ Stored(call[p].name) \in Seq(Block)
        /\ Len(Stored(call[p].name)) = Length(entry)
        /\ Min(found) \in Entry
    BY <1>4, StoredSeq, MatchesFacts DEF IInv
  <2>2. Tidy(entry) /\ \A k \in Slot : entry.sectors[k] \in Taken
    BY <2>1 DEF IInv, DiskExact, Agree
  <2>3. Length(entry) \in Nat
    BY <2>1, LengthFacts DEF IInv, TypeOK, Directory
  <2>4. \A r \in Proc : call'[r] = IF r = p THEN c ELSE call[r]
    BY <1>1, CallUpdate
  <2> HIDE DEF c, found
  <2>5. \A r \in Proc \ {p} : ReaderExact(call[r])'
    BY <1>1, <2>4, ReaderFrame DEF ReadersExact
  <2>6. ReaderExact(call[p])'
    <3>1. c.dirBuffer[c.entry] = entry /\ c.pc = "fetch" /\ c.z = 1 /\ c.buf = <<>>
          /\ c.held = Stored(call[p].name)
      BY <1>1, <1>2, <1>4
    <3> DEFINE held == Stored(call[p].name)
    <3>2. /\ c.buf = SubSeq(c.held, 1, c.z - 1)
          /\ c.z <= Length(entry) + 1
          /\ Len(c.held) = Length(entry)
          /\ \A k \in 1 .. Length(entry) : block[entry.sectors[k]] = c.held[k]
      BY <2>1, <2>3, <3>1
    <3>3. call'[p] = c /\ call'[p].dirBuffer[call'[p].entry] = entry
      BY <2>4, <3>1
    <3> DEFINE old == entry
    <3>4. old = entry /\ \A k \in Slot : old.sectors[k] \in Taken'
      BY <2>2
    <3> HIDE DEF old
    <3> QED
      BY <1>1, <2>2, <3>1, <3>2, <3>3, <3>4 DEF ReaderExact
  <2> QED
    BY <2>5, <2>6 DEF ReadersExact
<1> QED
  BY <1>3, <1>4

\* The end of the list is the end of the file.
LEMMA FetchReaders ==
  ASSUME IInv, ReadersExact, NEW p \in Proc, Taken' = Taken, Fetch(p)
  PROVE  ReadersExact'
<1> DEFINE c == FetchCall(p)
           s == NextSector(p)
           entry == call[p].dirBuffer[call[p].entry]
           held == call[p].held
           z == call[p].z
<1>1. /\ call[p].pc = "fetch" /\ block' = block /\ call[p] \in Call
      /\ call[p].dirBuffer \in Directory /\ call[p].entry \in Entry /\ z \in Slot
      /\ call' = [call EXCEPT ![p] = c]
      /\ s = 0 => c.pc = "idle" /\ c.buf = call[p].buf /\ c.held = held
      /\ s # 0 => /\ c.pc = "fetch" /\ c.dirBuffer = call[p].dirBuffer
                  /\ c.entry = call[p].entry
                  /\ c.z = call[p].z + 1 /\ c.held = held
                  /\ c.buf = Append(call[p].buf, block[s])
  BY FetchCopies
<1>2. /\ Tidy(entry)
      /\ \A k \in Slot : entry.sectors[k] \in Taken
      /\ Len(held) = Length(entry)
      /\ z <= Length(entry) + 1
      /\ \A k \in 1 .. Length(entry) : block[entry.sectors[k]] = held[k]
      /\ call[p].buf = SubSeq(held, 1, z - 1)
  BY <1>1 DEF ReadersExact, ReaderExact
<1>3. /\ entry \in DirEntry /\ held \in Seq(Block) /\ z \in Nat /\ z >= 1
  <2>1. entry \in DirEntry
    BY <1>1 DEF Directory
  <2>2. held \in Seq(Block)
    BY <1>1 DEF Call
  <2>3. z \in Nat /\ z >= 1
    BY <1>1, ConstantFacts DEF Slot
  <2> QED
    BY <2>1, <2>2, <2>3
<1>4. Length(entry) \in Nat /\ (s # 0 <=> z <= Length(entry)) /\ s = entry.sectors[z]
  BY <1>1, <1>2, <1>3, TidyLength, LengthFacts DEF NextSector
<1>5. \A r \in Proc : call'[r] = IF r = p THEN c ELSE call[r]
  BY <1>1, CallUpdate
<1> HIDE DEF c, s
<1>6. CASE s = 0
  <2>1. z = Length(entry) + 1
    <3>1. ~(z <= Length(entry))
      BY <1>4, <1>6
    <3> QED
      BY <1>2, <1>3, <1>4, <3>1
  <2>2. call[p].buf = held
    <3>1. z - 1 = Len(held)
      BY <1>2, <1>4, <2>1, SMTT(30)
    <3>2. SubSeq(held, 1, Len(held)) = held
      BY <1>3
    <3> QED
      BY <1>2, <3>1, <3>2
  <2> HIDE DEF entry, held, z
  <2> QED
    BY <1>1, <1>5, <1>6, <2>2, ReadersStep
<1>7. CASE s # 0
  <2>1. z \in 1 .. Length(entry) /\ block[s] = held[z]
    <3>1. z <= Length(entry) /\ s = entry.sectors[z]
      BY <1>4, <1>7
    <3>2. z \in 1 .. Length(entry)
      BY <1>3, <1>4, <3>1
    <3> QED
      BY <1>2, <3>1, <3>2
  <2>2. Append(SubSeq(held, 1, z - 1), held[z]) = SubSeq(held, 1, z)
    BY <1>2, <1>3, <2>1, SubSeqAppend
  <2>3. \A r \in Proc \ {p} : ReaderExact(call[r])'
    BY <1>1, <1>5, ReaderFrame DEF ReadersExact
  <2>4. ReaderExact(call[p])'
    <3>1. c.buf = SubSeq(held, 1, z)
      BY <1>1, <1>2, <1>7, <2>1, <2>2
    <3>2. c.z <= Length(entry) + 1 /\ z = c.z - 1 /\ c.dirBuffer[c.entry] = entry
          /\ c.held = held /\ c.pc = "fetch"
      <4>1. c.z = z + 1 /\ c.dirBuffer[c.entry] = entry /\ c.held = held /\ c.pc = "fetch"
        BY <1>1, <1>7
      <4> QED
        BY <1>3, <1>4, <2>1, <4>1
    <3>3. call'[p] = c /\ call'[p].dirBuffer[call'[p].entry] = entry
      BY <1>5, <3>2
    <3> DEFINE old == entry
               was == held
    <3>4. /\ old = entry /\ \A k \in Slot : old.sectors[k] \in Taken'
          /\ was = held /\ \A k \in 1 .. Length(old) : block'[old.sectors[k]] = was[k]
      BY <1>1, <1>2
    <3> HIDE DEF old, was, entry, held, z
    <3> QED
      BY <1>2, <3>1, <3>2, <3>3, <3>4 DEF ReaderExact
  <2> QED
    BY <2>3, <2>4 DEF ReadersExact
<1> QED
  BY <1>6, <1>7

LEMMA ReadMapReaders ==
  ASSUME IInv, ReadersExact, NEW p \in Proc, Taken' = Taken,
         ReadMapToWrite(p) \/ ReadMapToDelete(p)
  PROVE  ReadersExact'
<1>1. Idle.pc = "idle" /\ Idle.buf = Idle.held
  BY DEF Idle
<1>2. ASSUME call[p].pc = "readMap", block' = block, call' = [call EXCEPT ![p] = Idle]
      PROVE  ReadersExact'
  BY <1>1, <1>2, CallUpdate, ReadersStep
<1>3. ASSUME call[p].pc = "readMap", block' = block,
             NEW c, call' = [call EXCEPT ![p] = c],
             c.pc \in {"writeData", "writeDir"}, c.buf = call[p].buf, c.held = call[p].held
      PROVE  ReadersExact'
  <2>1. call[p].buf = <<>> /\ call[p].held = <<>>
    BY <1>3 DEF ReadersExact, ReaderExact
  <2> QED
    BY <1>3, <2>1, CallUpdate, ReadersStep
<1>4. CASE ReadMapToWrite(p)
  <2> DEFINE c == WriteCall(p)
  <2>1. /\ call[p].pc = "readMap" /\ call[p].kind = "write" /\ block' = block
        /\ \/ call' = [call EXCEPT ![p] = Idle]
           \/ /\ call' = [call EXCEPT ![p] = c] /\ WriteEntry(p) \in Entry
              /\ dir[WriteEntry(p)].name \in {call[p].name, NoName}
    BY <1>4, WriteCopies
  <2>2. c = WriteCall(p)
    OBVIOUS
  <2> HIDE DEF c
  <2>3. ASSUME WriteEntry(p) \in Entry,
               dir[WriteEntry(p)].name \in {call[p].name, NoName}
        PROVE  /\ c.pc \in {"writeData", "writeDir"} /\ c.buf = call[p].buf
               /\ c.held = call[p].held
    BY <2>1, <2>2, <2>3, WriteCallFacts
  <2> QED
    BY <1>2, <1>3, <2>1, <2>3
<1>5. CASE ReadMapToDelete(p)
  <2> DEFINE c == DeleteCall(p)
  <2>1. /\ call[p].pc = "readMap" /\ call[p].kind = "delete" /\ block' = block
        /\ call[p] \in Call
        /\ \/ call' = [call EXCEPT ![p] = Idle]
           \/ call' = [call EXCEPT ![p] = c]
    BY <1>5, DeleteCopies
  <2>2. c.pc = "writeDir" /\ c.buf = call[p].buf /\ c.held = call[p].held
    BY <2>1 DEF DeleteCall, Call
  <2> HIDE DEF c
  <2> QED
    BY <1>2, <1>3, <2>1, <2>2
<1> QED
  BY <1>4, <1>5

LEMMA WriteReaders ==
  ASSUME IInv, ReadersExact, NEW p \in Proc,
         WriteData(p) \/ WriteDirectory(p) \/ WriteMap(p)
  PROVE  ReadersExact'
<1>1. CASE WriteData(p)
  <2> DEFINE s == call[p].dirBuffer[call[p].entry].sectors[call[p].z]
             c == [call[p] EXCEPT !.z = call[p].z + 1,
                       !.pc = IF call[p].z = call[p].k THEN "writeDir" ELSE @]
  <2>1. /\ call[p].pc = "writeData"
        /\ block' = [block EXCEPT ![s] = <<call[p].value, call[p].z>>]
        /\ call' = [call EXCEPT ![p] = c]
    BY <1>1 DEF WriteData, At, IInv, TypeOK
  <2>2. call[p] \in Call /\ s \notin used /\ Taken = used /\ Taken' = Taken
    BY <1>1, <2>1, WriteDataFacts, WriteDataKeeps
  <2>3. call[p].buf = <<>> /\ call[p].held = <<>>
    BY <2>1 DEF ReadersExact, ReaderExact
  <2>4. c.pc \in {"writeData", "writeDir"} /\ c.buf = <<>> /\ c.held = <<>>
    BY <2>1, <2>2, <2>3 DEF Call
  <2>5. \A t \in Taken : block'[t] = block[t]
    BY <2>1, <2>2 DEF IInv, TypeOK
  <2> HIDE DEF c, s
  <2>6. \A r \in Proc : call'[r] = IF r = p THEN c ELSE call[r]
    BY <2>1, CallUpdate
  <2> QED
    BY <2>1, <2>2, <2>4, <2>5, <2>6, ReadersStep
<1>2. CASE WriteDirectory(p)
  <2> DEFINE c == [call[p] EXCEPT !.pc = "writeMap"]
  <2>1. /\ call[p].pc = "writeDir" /\ call' = [call EXCEPT ![p] = c]
        /\ used' = used /\ block' = block
        /\ call[p] \in Call /\ CallExact(call[p])
    BY <1>2 DEF WriteDirectory, At, IInv, TypeOK, CallsExact
  <2>2. call[p].buf = <<>> /\ call[p].held = <<>>
    BY <2>1 DEF ReadersExact, ReaderExact
  <2>3. c.pc = "writeMap" /\ c.buf = <<>> /\ c.held = <<>>
    BY <2>1, <2>2 DEF Call
  <2>4. Taken = used
    BY <2>1, TakenByOne DEF Rewriting, CallExact
  <2>5. Taken \subseteq Taken'
    BY <2>1, <2>4 DEF Taken
  <2>6. \A r \in Proc : call'[r] = IF r = p THEN c ELSE call[r]
    BY <2>1, CallUpdate
  <2> HIDE DEF c
  <2> QED
    BY <2>1, <2>3, <2>5, <2>6, ReadersStep
<1>3. CASE WriteMap(p)
  <2>1. /\ call[p].pc = "writeMap" /\ used' = call[p].diskMap /\ block' = block
        /\ call' = [call EXCEPT ![p] = Idle]
        /\ call[p].kind \in {"write", "delete"}
    BY <1>3 DEF WriteMap, At, IInv, CallsExact, CallExact
  <2>2. \A r \in Proc : call'[r] = IF r = p THEN Idle ELSE call[r]
    BY <2>1, CallUpdate
  <2>3. Idle.pc = "idle" /\ Idle.buf = Idle.held
    BY DEF Idle
  <2>4. CASE call[p].kind = "write"
    <3>1. Taken = call[p].diskMap
      BY <2>1, <2>4, TakenByOne DEF Rewriting
    <3>2. Taken \subseteq Taken'
      BY <2>1, <3>1 DEF Taken
    <3> QED
      BY <2>1, <2>2, <2>3, <3>2, ReadersStep
  <2>5. CASE call[p].kind = "delete"
    <3>1. \A r \in Proc \ {p} : call[r].pc = "idle"
      <4> SUFFICES ASSUME NEW r \in Proc \ {p}, call[r].pc # "idle" PROVE FALSE
        OBVIOUS
      <4>1. call[r].kind = "read"
        BY <2>1, OthersRead
      <4>2. {call[p].kind, call[r].kind} \in MayOverlap
        BY <2>1 DEF IInv, OverlapsAllowed
      <4> QED
        BY <2>5, <4>1, <4>2, ReadersAssumption
    <3>2. \A r \in Proc : call'[r].pc = "idle" /\ call'[r].buf = call'[r].held
      BY <2>2, <2>3, <3>1 DEF ReadersExact, ReaderExact
    <3> QED
      BY <3>2 DEF ReadersExact, ReaderExact
  <2> QED
    BY <2>1, <2>4, <2>5
<1> QED
  BY <1>1, <1>2, <1>3

LEMMA NextReaders == IInv /\ ReadersExact /\ [Next]_vars => ReadersExact'
<1> SUFFICES ASSUME IInv, ReadersExact, [Next]_vars PROVE ReadersExact'
  OBVIOUS
<1>1. ASSUME NEW p \in Proc,
             \/ \E n \in Name : BeginRead(p, n) \/ BeginDelete(p, n)
             \/ \E n \in Name, size \in Sizes, v \in Value : BeginWrite(p, n, size, v)
      PROVE  ReadersExact'
  <2>1. Taken' = Taken
    BY <1>1, BeginReadKeeps, BeginDeleteKeeps, BeginWriteKeeps
  <2> QED
    BY <1>1, <2>1, BeginReaders
<1>2. ASSUME NEW p \in Proc, ReadDirectory(p) PROVE ReadersExact'
  BY <1>2, ReadDirectoryKeeps, ReadDirectoryReaders
<1>3. ASSUME NEW p \in Proc, Fetch(p) PROVE ReadersExact'
  BY <1>3, FetchKeeps, FetchReaders
<1>4. ASSUME NEW p \in Proc, ReadMapToWrite(p) \/ ReadMapToDelete(p) PROVE ReadersExact'
  BY <1>4, ReadMapToWriteKeeps, ReadMapToDeleteKeeps, ReadMapReaders
<1>5. ASSUME NEW p \in Proc, WriteData(p) \/ WriteDirectory(p) \/ WriteMap(p)
      PROVE  ReadersExact'
  BY <1>5, WriteReaders
<1>6. ASSUME NEW n \in Name, NEW size \in LoadSizes, NEW v \in Value, Load(n, size, v)
      PROVE  ReadersExact'
  <2>1. \A p \in Proc : call[p].pc = "idle" /\ call' = call
    BY <1>6, LoadFacts
  <2> QED
    BY <2>1 DEF ReadersExact, ReaderExact
<1>7. CASE Crash
  <2>1. \A p \in Proc : call'[p] = Idle
    BY <1>7 DEF Crash
  <2> QED
    BY <2>1, SMTT(30) DEF ReadersExact, ReaderExact, Idle
<1>8. CASE UNCHANGED vars
  <2>1. UNCHANGED <<block, call>> /\ Taken' = Taken
    BY <1>8, StutterKeeps DEF vars
  <2> QED
    BY <2>1, ReaderFrame DEF ReadersExact
<1> QED
  BY <1>1, <1>2, <1>3, <1>4, <1>5, <1>6, <1>7, <1>8 DEF Next

\* A reader returns the file as it was when it read the directory, even if the
\* file is written again meanwhile (kernel.c:604-632).
THEOREM ReadersGetWhole == Spec => []ReadWhole
<1>1. Init => ReadersExact
  BY DEF Init, ReadersExact, ReaderExact, Idle
<1>2. ReadersExact => ReadWhole
  BY DEF ReadersExact, ReaderExact, ReadWhole
<1> QED
  BY <1>1, <1>2, InitIInv, NextIInv, NextReaders, PTL DEF Spec
-----------------------------------------------------------------------------
(* The file system is a store of files.  The copies of a call hold the     *)
(* file it was asked for, which is what FilesExact says.                   *)

BInv == IInv /\ NamesUnique /\ FilesExact

Files == [n \in Name |-> Stored(n)]

Requests == [p \in Proc |-> Asked(p)]

StoreStep == Store!Next \/ UNCHANGED Store!vars

\* What a directory d and the blocks b hold under the name n.
Listing(entry, b) == [k \in 1 .. Length(entry) |-> b[entry.sectors[k]]]

StoredIn(d, b, n) ==
  IF Matches(d, n) = {} THEN Absent ELSE Listing(d[Min(Matches(d, n))], b)

LEMMA StoredHere == \A n : Stored(n) = StoredIn(dir, block, n)
BY DEF Stored, StoredIn, Listing

LEMMA StoredThere == \A n : Stored(n)' = StoredIn(dir', block', n)
BY DEF Stored, StoredIn, Listing, Matches

LEMMA StoredFound ==
  ASSUME NEW d, NEW b, NEW n, NEW e \in Entry, d[e].name = n,
         \A f \in Entry : d[f].name = n => f = e
  PROVE  StoredIn(d, b, n) = Listing(d[e], b)
<1>1. Matches(d, n) # {}
  BY DEF Matches
<1>2. Min(Matches(d, n)) = e
  BY <1>1, MatchesFacts
<1> QED
  BY <1>1, <1>2 DEF StoredIn

LEMMA StoredNowhere ==
  ASSUME NEW d, NEW b, NEW n, \A f \in Entry : d[f].name # n
  PROVE  StoredIn(d, b, n) = Absent
BY DEF StoredIn, Matches

\* A file stays as it is with its entries and with its blocks.
LEMMA StoredSame ==
  ASSUME NEW d, NEW b, NEW dd, NEW bb, NEW n, NEW u, d \in Directory, Agree(d, u),
         \A f \in Entry : dd[f].name = n <=> d[f].name = n,
         \A f \in Entry : d[f].name = n => dd[f] = d[f],
         \A s \in u : bb[s] = b[s]
  PROVE  StoredIn(dd, bb, n) = StoredIn(d, b, n)
<1>1. Matches(dd, n) = Matches(d, n)
  BY DEF Matches
<1>2. CASE Matches(d, n) = {}
  BY <1>1, <1>2 DEF StoredIn
<1>3. CASE Matches(d, n) # {}
  <2> DEFINE e == Min(Matches(d, n))
             entry == d[e]
  <2>1. e \in Entry /\ dd[e] = d[e]
    BY <1>3, MatchesFacts
  <2>2. \A k \in 1 .. Length(entry) : entry.sectors[k] \in u
    BY <2>1, AgreeListed DEF Agree
  <2>3. Listing(entry, bb) = Listing(entry, b)
    BY <2>2 DEF Listing
  <2> QED
    BY <1>1, <1>3, <2>1, <2>3 DEF StoredIn
<1> QED
  BY <1>2, <1>3

LEMMA FilesSame ==
  ASSUME IInv, dir' = dir, \A s \in Taken : block'[s] = block[s]
  PROVE  Files' = Files
<1>1. \A n \in Name : Stored(n)' = Stored(n)
  <2>1. \A n \in Name : StoredIn(dir', block', n) = StoredIn(dir, block, n)
    BY StoredSame DEF IInv, TypeOK, DiskExact
  <2> QED
    BY <2>1, StoredHere, StoredThere
<1> QED
  BY <1>1 DEF Files

-----------------------------------------------------------------------------
(* The steps of a store, from what they change.                            *)

LEMMA RequestsChange ==
  ASSUME NEW p \in Proc, \A r \in Proc \ {p} : call'[r] = call[r]
  PROVE  Requests' = [Requests EXCEPT ![p] = Asked(p)']
<1>1. \A r \in Proc \ {p} : Asked(r)' = Asked(r)
  BY DEF Asked, Wanted
<1> QED
  BY <1>1 DEF Requests

\* A step of a call that changes no file.
LEMMA OwnStep ==
  ASSUME IInv, NEW p \in Proc, dir' = dir, \A s \in Taken : block'[s] = block[s],
         \A r \in Proc \ {p} : call'[r] = call[r],
         \/ Asked(p)' \in {Asked(p), NoName}
         \/ Asked(p) = NoName /\ Asked(p)' \in Store!Request
  PROVE  StoreStep
<1>1. Files' = Files
  BY FilesSame
<1>2. Requests' = [Requests EXCEPT ![p] = Asked(p)']
  BY RequestsChange
<1>3. Requests[p] = Asked(p) /\ Requests'[p] = Asked(p)'
  BY DEF Requests
<1>4. CASE Asked(p)' = Asked(p)
  <2>1. Requests' = Requests
    BY <1>2, <1>4 DEF Requests
  <2> QED
    BY <1>1, <2>1 DEF StoreStep, Store!vars, Files, Requests
<1>5. CASE Asked(p)' = NoName
  <2>1. Store!Refuse(p)
    BY <1>1, <1>2, <1>5 DEF Store!Refuse, Files, Requests
  <2> QED
    BY <2>1 DEF StoreStep, Store!Next, Store!Refuse
<1>6. CASE Asked(p) = NoName /\ Asked(p)' \in Store!Request
  <2>1. Store!Ask(p)
    BY <1>1, <1>2, <1>3, <1>6 DEF Store!Ask, Files, Requests
  <2> QED
    BY <2>1 DEF StoreStep, Store!Next, Store!Ask
<1> QED
  BY <1>4, <1>5, <1>6

\* FileExact of a call c on the directory d and the blocks b.
FileIn(c, d, b) ==
  LET new == c.dirBuffer[c.entry] IN
    /\ c.kind = "write" /\ c.pc \in {"readDir", "readMap"} =>
         \A e \in Matches(d, c.name) : Length(d[e]) <= c.size
    /\ c.kind = "write" /\ c.pc \in {"writeData", "writeDir"} =>
         /\ new.name = c.name
         /\ Length(new) = c.k
         /\ c.k = IF c.size < 0 THEN 0 ELSE c.size
         /\ \/ d[c.entry].name = c.name
            \/ d[c.entry].name = NoName /\ Matches(d, c.name) = {}
         /\ \A m \in 1 .. c.k : m < c.z \/ c.pc = "writeDir" =>
              b[new.sectors[m]] = <<c.value, m>>
    /\ c.kind = "delete" /\ c.pc = "writeDir" =>
         /\ d[c.entry].name = c.name
         /\ new.name = NoName

\* What a call knows of the files stays true with the call and the disk.
LEMMA FileStays ==
  ASSUME NEW p \in Proc, FileExact(call[p]), call'[p] = call[p],
         UNCHANGED <<dir, block>>
  PROVE  FileExact(call[p])'
<1>1. FileIn(call[p], dir, block)
  BY DEF FileExact, FileIn
<1>2. FileIn(call'[p], dir', block')
  BY <1>1
<1> QED
  BY <1>2 DEF FileExact, FileIn, Matches

\* A step of a call that leaves the directory: what the other calls know of
\* the files stays true.
LEMMA FilesFrame ==
  ASSUME IInv, NamesUnique, FilesExact, NEW p \in Proc, dir' = dir,
         \A r \in Proc \ {p} : call'[r] = call[r],
         \/ block' = block
         \/ call[p].pc # "idle" /\ call[p].kind \in {"write", "delete"},
         FileExact(call[p])'
  PROVE  NamesUnique' /\ FilesExact'
<1>1. NamesUnique'
  BY DEF NamesUnique
<1>2. ASSUME NEW r \in Proc \ {p}
      PROVE  FileExact(call[r])'
  <2>1. FileExact(call[r]) /\ call'[r] = call[r]
    BY DEF FilesExact
  <2>2. CASE block' = block
    BY <2>1, <2>2, FileStays
  <2>3. CASE call[p].pc # "idle" /\ call[p].kind \in {"write", "delete"}
    <3>1. call[r].pc = "idle" \/ (call[r].kind = "read" /\ call[r].pc \in {"readDir", "fetch"})
      BY <2>3, OthersRead
    <3> QED
      BY <2>1, <3>1 DEF FileExact
  <2> QED
    BY <2>2, <2>3
<1> QED
  BY <1>1, <1>2 DEF FilesExact

\* A call that neither writes nor deletes, or has written the directory.
LEMMA NoFile ==
  ASSUME NEW c, c.kind \notin {"write", "delete"} \/ c.pc \in {"idle", "writeMap"}
  PROVE  FileExact(c)
BY DEF FileExact

\* What a call asks for is a request of the store.
LEMMA WantedRequest ==
  ASSUME NEW c \in Call, c.name \in Name, c.kind \in {"write", "delete"},
         c.kind = "write" => c.value \in Value /\ c.size < MaxSectors
  PROVE  [name |-> c.name, content |-> Wanted(c)] \in Store!Request
<1>1. CASE c.kind = "delete"
  BY <1>1 DEF Store!Request, Wanted
<1>2. CASE c.kind = "write"
  <2> DEFINE m == IF c.size < 0 THEN 0 ELSE c.size
  <2>1. c.size \in Int /\ c.size < MaxSectors /\ MaxSectors \in Nat
    BY <1>2, ConstantFacts DEF Call
  <2>2. m \in Nat /\ m <= MaxSectors /\ 1 .. c.size = 1 .. m
    BY <2>1
  <2> HIDE DEF m
  <2>3. Wanted(c) = [k \in 1 .. m |-> <<c.value, k>>]
    BY <1>2, <2>2 DEF Wanted
  <2>4. \A k \in 1 .. m : <<c.value, k>> \in Block
    BY <1>2, <2>1, <2>2 DEF Block, Slot
  <2>5. Wanted(c) \in Seq(Block) /\ Len(Wanted(c)) = m
    BY <2>2, <2>3, <2>4
  <2> QED
    BY <2>2, <2>5 DEF Store!Request
<1> QED
  BY <1>1, <1>2

LEMMA BeginFiles ==
  ASSUME BInv, NEW p \in Proc, NEW kind \in Kinds, MayBegin(p, kind),
         NEW c \in Call, c.kind = kind, c.pc = "readDir", c.name \in Name,
         kind = "write" =>
           /\ c.value \in Value /\ c.size < MaxSectors
           /\ \A e \in Matches(dir, c.name) : Length(dir[e]) <= c.size,
         Begin(p, c)
  PROVE  NamesUnique' /\ FilesExact' /\ StoreStep
<1>1. /\ call[p].pc = "idle" /\ UNCHANGED <<used, dir, block>>
      /\ call' = [call EXCEPT ![p] = c]
      /\ IInv /\ NamesUnique /\ FilesExact
  BY DEF MayBegin, At, Begin, BInv
<1>2. /\ call'[p] = c
      /\ \A r \in Proc \ {p} : call'[r] = call[r]
  <2>1. \A r \in Proc : call'[r] = IF r = p THEN c ELSE call[r]
    BY <1>1, CallUpdate
  <2> QED
    BY <2>1
<1>3. FileExact(call[p])'
  BY <1>1, <1>2 DEF FileExact, Matches
<1>4. Asked(p) = NoName
  BY <1>1 DEF Asked
<1>5. Asked(p)' = NoName \/ Asked(p)' \in Store!Request
  <2>1. CASE kind = "read"
    BY <1>2, <2>1 DEF Asked
  <2>2. CASE kind # "read"
    <3>1. Asked(p)' = [name |-> c.name, content |-> Wanted(c)]
      BY <1>2, <2>2 DEF Asked, Wanted, Kinds
    <3> QED
      BY <2>2, <3>1, WantedRequest DEF Kinds
  <2> QED
    BY <2>1, <2>2
<1> QED
  BY <1>1, <1>2, <1>3, <1>4, <1>5, FilesFrame, OwnStep

LEMMA BeginReadFiles ==
  ASSUME BInv, NEW p \in Proc, NEW n \in Name, BeginRead(p, n)
  PROVE  NamesUnique' /\ FilesExact' /\ StoreStep
<1> DEFINE c == [Idle EXCEPT !.kind = "read", !.pc = "readDir", !.name = n]
<1>1. /\ c \in Call /\ c.kind = "read" /\ c.pc = "readDir" /\ c.name = n
  BY IdleCall DEF Idle, Call, Kinds, Steps
<1>2. MayBegin(p, "read") /\ Begin(p, c)
  BY DEF BeginRead
<1> HIDE DEF c
<1> QED
  BY <1>1, <1>2, BeginFiles DEF Kinds

LEMMA BeginDeleteFiles ==
  ASSUME BInv, NEW p \in Proc, NEW n \in Name, BeginDelete(p, n)
  PROVE  NamesUnique' /\ FilesExact' /\ StoreStep
<1> DEFINE c == [Idle EXCEPT !.kind = "delete", !.pc = "readDir", !.name = n]
<1>1. /\ c \in Call /\ c.kind = "delete" /\ c.pc = "readDir" /\ c.name = n
  BY IdleCall DEF Idle, Call, Kinds, Steps
<1>2. MayBegin(p, "delete") /\ Begin(p, c)
  BY DEF BeginDelete
<1> HIDE DEF c
<1> QED
  BY <1>1, <1>2, BeginFiles DEF Kinds

LEMMA BeginWriteFiles ==
  ASSUME BInv, NEW p \in Proc, NEW n \in Name, NEW size \in Sizes,
         NEW v \in Value, BeginWrite(p, n, size, v)
  PROVE  NamesUnique' /\ FilesExact' /\ StoreStep
<1> DEFINE c == [Idle EXCEPT !.kind = "write", !.pc = "readDir", !.name = n,
                             !.size = Capped(size), !.value = v]
<1>1. size \in Int /\ size < MaxSectors /\ Capped(size) = size
  BY SizesAssumption, ConstantFacts DEF Capped
<1>2. /\ c \in Call /\ c.kind = "write" /\ c.pc = "readDir" /\ c.name = n
      /\ c.size = size /\ c.value = v
  BY <1>1, IdleCall DEF Idle, Call, Kinds, Steps
<1>3. /\ MayBegin(p, "write") /\ Begin(p, c)
      /\ \A e \in Matches(dir, n) : Length(dir[e]) <= size
  BY RewriteAssumption DEF BeginWrite
<1> HIDE DEF c
<1> QED
  BY <1>1, <1>2, <1>3, BeginFiles DEF Kinds

LEMMA ReadDirectoryFiles ==
  ASSUME BInv, NEW p \in Proc, ReadDirectory(p)
  PROVE  NamesUnique' /\ FilesExact' /\ StoreStep
<1> DEFINE c == DirectoryCall(p)
<1>1. /\ call[p].pc = "readDir" /\ UNCHANGED <<dir, block>>
      /\ call' = [call EXCEPT ![p] = c]
      /\ call[p].kind # "read" =>
           /\ call[p].kind \in {"write", "delete"}
           /\ c.pc = "readMap" /\ c.kind = call[p].kind /\ c.name = call[p].name
           /\ c.size = call[p].size /\ c.value = call[p].value
      /\ call[p].kind = "read" => c.kind = "read"
      /\ IInv /\ NamesUnique /\ FilesExact
  BY DirectoryCopies DEF BInv
<1> HIDE DEF c
<1>2. \A r \in Proc : call'[r] = IF r = p THEN c ELSE call[r]
  BY <1>1, CallUpdate
<1>3. FileExact(call[p])'
  <2>1. FileExact(call[p])
    BY <1>1 DEF FilesExact
  <2> QED
    BY <1>1, <1>2, <2>1 DEF FileExact, Matches
<1>4. Asked(p)' = Asked(p)
  BY <1>1, <1>2 DEF Asked, Wanted
<1> QED
  BY <1>1, <1>2, <1>3, <1>4, FilesFrame, OwnStep

LEMMA FetchFiles ==
  ASSUME BInv, NEW p \in Proc, Fetch(p)
  PROVE  NamesUnique' /\ FilesExact' /\ StoreStep
<1> DEFINE c == FetchCall(p)
<1>1. /\ UNCHANGED <<dir, block>> /\ call' = [call EXCEPT ![p] = c]
      /\ call[p].kind = "read" /\ c.kind = "read"
      /\ IInv /\ NamesUnique /\ FilesExact
  BY FetchCopies DEF BInv
<1> HIDE DEF c
<1>2. \A r \in Proc : call'[r] = IF r = p THEN c ELSE call[r]
  BY <1>1, CallUpdate
<1>3. FileExact(call[p])'
  BY <1>1, <1>2 DEF FileExact
<1>4. Asked(p)' = Asked(p)
  BY <1>1, <1>2 DEF Asked
<1> QED
  BY <1>1, <1>2, <1>3, <1>4, FilesFrame, OwnStep

\* A call that ends without a change.
LEMMA IdleFiles ==
  ASSUME BInv, NEW p \in Proc, UNCHANGED <<dir, block>>,
         call' = [call EXCEPT ![p] = Idle]
  PROVE  NamesUnique' /\ FilesExact' /\ StoreStep
<1>1. IInv /\ NamesUnique /\ FilesExact
  BY DEF BInv
<1>2. \A r \in Proc : call'[r] = IF r = p THEN Idle ELSE call[r]
  BY <1>1, CallUpdate
<1>3. FileExact(call[p])' /\ Asked(p)' = NoName
  BY <1>2 DEF FileExact, Asked, Idle
<1> QED
  BY <1>1, <1>2, <1>3, FilesFrame, OwnStep

\* The new list is as long as the file: the old one is not longer.
LEMMA NewLength ==
  ASSUME BInv, NEW p \in Proc, call[p].pc = "readMap", call[p].kind = "write",
         WriteEntry(p) \in Entry,
         \/ dir[WriteEntry(p)].name = call[p].name
         \/ dir[WriteEntry(p)].name = NoName
  PROVE  Length(WriteNew(p)) = WriteCount(p)
<1> DEFINE old == dir[WriteEntry(p)]
           new == WriteNew(p)
           k   == WriteCount(p)
           c   == WriteCall(p)
<1>1. /\ k \in Nat /\ k < MaxSectors /\ MaxSectors \in Nat
      /\ Agree(dir, used) /\ dir \in Directory /\ call[p] \in Call
  BY WriteFits, ConstantFacts DEF BInv
<1>2. /\ \A m \in 1 .. k : new.sectors[m] \notin used
      /\ \A m \in Slot : m > k => new.sectors[m] = old.sectors[m]
      /\ new \in DirEntry
  <2>1. /\ c.k = k /\ c.entry = WriteEntry(p) /\ c.dirBuffer \in Directory
        /\ c.dirBuffer[c.entry] = new
        /\ \A m \in 1 .. c.k : new.sectors[m] \notin used
        /\ \A m \in Slot : m > c.k => new.sectors[m] = old.sectors[m]
    BY WriteCallFacts DEF BInv
  <2> HIDE DEF c, new, k, old
  <2>2. new \in DirEntry
    BY <2>1 DEF Directory
  <2> QED
    BY <2>1, <2>2
<1>3. \A m \in 1 .. k : new.sectors[m] # 0
  BY <1>1, <1>2, ConstantFacts DEF Agree
<1>4. k + 1 \in Slot
  BY <1>1 DEF Slot
<1>5. old \in DirEntry /\ Tidy(old)
  BY <1>1 DEF Directory, Agree
<1>6. old.sectors[k + 1] = 0
  <2>1. CASE old.name = call[p].name
    <3>1. WriteEntry(p) \in Matches(dir, call[p].name)
      BY <2>1 DEF Matches
    <3>2. Length(old) <= call[p].size
      BY <3>1 DEF BInv, FilesExact, FileExact
    <3>3. Length(old) \in Nat /\ call[p].size \in Int
      BY <1>1, <1>5, LengthFacts DEF Call
    <3>4. ~(k + 1 <= Length(old))
      BY <1>1, <3>2, <3>3 DEF WriteCount
    <3> QED
      BY <1>4, <1>5, <3>4, TidyLength
  <2>2. CASE old.name = NoName
    BY <1>1, <1>4, <2>2 DEF Agree
  <2> QED
    BY <2>1, <2>2
<1>7. new.sectors[k + 1] = 0
  BY <1>1, <1>2, <1>4, <1>6
<1> HIDE DEF new, k
<1> QED
  BY <1>1, <1>2, <1>3, <1>7, LengthIs DEF new, k

LEMMA ReadMapToWriteFiles ==
  ASSUME BInv, NEW p \in Proc, ReadMapToWrite(p)
  PROVE  NamesUnique' /\ FilesExact' /\ StoreStep
<1> DEFINE c   == WriteCall(p)
           new == WriteNew(p)
           e   == WriteEntry(p)
<1>1. /\ call[p].pc = "readMap" /\ call[p].kind = "write"
      /\ UNCHANGED <<used, dir, block>>
      /\ \/ call' = [call EXCEPT ![p] = Idle]
         \/ /\ call' = [call EXCEPT ![p] = c]
            /\ e \in Entry
            /\ \/ dir[e].name = call[p].name
               \/ dir[e].name = NoName /\ Matches(dir, call[p].name) = {}
      /\ IInv /\ NamesUnique /\ FilesExact
  BY WriteCopies DEF BInv
<1>2. CASE call' = [call EXCEPT ![p] = Idle]
  BY <1>1, <1>2, IdleFiles
<1>3. CASE /\ call' = [call EXCEPT ![p] = c]
           /\ e \in Entry
           /\ \/ dir[e].name = call[p].name
              \/ dir[e].name = NoName /\ Matches(dir, call[p].name) = {}
  <2>1. /\ c.kind = "write" /\ c.pc \in {"writeData", "writeDir"}
        /\ c.pc = "writeDir" => c.k = 0
        /\ c.name = call[p].name /\ c.size = call[p].size /\ c.value = call[p].value
        /\ c.entry = e /\ c.z = 1 /\ c.k = WriteCount(p)
        /\ c.dirBuffer[c.entry] = new /\ new.name = call[p].name
    BY <1>1, <1>3, WriteCallFacts
  <2>2. Length(new) = c.k
    BY <1>1, <1>3, <2>1, NewLength
  <2>3. c.k = (IF c.size < 0 THEN 0 ELSE c.size) /\ c.k \in Nat
    BY <1>1, <2>1, WriteFits DEF WriteCount
  <2> HIDE DEF c, new, e
  <2>4. \A r \in Proc : call'[r] = IF r = p THEN c ELSE call[r]
    BY <1>3, CallUpdate DEF BInv
  <2>5. FileExact(call[p])'
    <3>1. call'[p] = c /\ dir' = dir /\ block' = block
      BY <1>1, <2>4
    <3>2. \A m \in 1 .. c.k : ~(m < c.z \/ c.pc = "writeDir")
      BY <2>1, <2>3
    <3>3. dir[e].name = c.name \/ (dir[e].name = NoName /\ Matches(dir, c.name) = {})
      BY <1>3, <2>1
    <3>4. Matches(dir', c.name) = Matches(dir, c.name)
      BY <3>1
    <3> QED
      BY <2>1, <2>2, <2>3, <3>1, <3>2, <3>3, <3>4 DEF FileExact, Matches
  <2>6. Asked(p)' = Asked(p)
    BY <1>1, <2>1, <2>4 DEF Asked, Wanted
  <2> QED
    BY <1>1, <2>4, <2>5, <2>6, FilesFrame, OwnStep
<1> QED
  BY <1>1, <1>2, <1>3

LEMMA ReadMapToDeleteFiles ==
  ASSUME BInv, NEW p \in Proc, ReadMapToDelete(p)
  PROVE  NamesUnique' /\ FilesExact' /\ StoreStep
<1> DEFINE c == DeleteCall(p)
           e == DeleteEntry(p)
<1>1. /\ call[p].pc = "readMap" /\ call[p].kind = "delete" /\ call[p].name \in Name
      /\ UNCHANGED <<used, dir, block>> /\ Agree(dir, used)
      /\ \/ call' = [call EXCEPT ![p] = Idle]
         \/ /\ call' = [call EXCEPT ![p] = c]
            /\ e \in Entry /\ dir[e].name = call[p].name
      /\ IInv /\ NamesUnique /\ FilesExact
  BY DeleteCopies DEF BInv
<1>2. CASE call' = [call EXCEPT ![p] = Idle]
  BY <1>1, <1>2, IdleFiles
<1>3. CASE /\ call' = [call EXCEPT ![p] = c]
           /\ e \in Entry /\ dir[e].name = call[p].name
  <2>1. /\ c.kind = "delete" /\ c.pc = "writeDir" /\ c.name = call[p].name
        /\ c.entry = e /\ c.dirBuffer[c.entry].name = NoName
    BY <1>1, <1>3, DeleteCallFacts
  <2> HIDE DEF c, e
  <2>2. \A r \in Proc : call'[r] = IF r = p THEN c ELSE call[r]
    BY <1>3, CallUpdate DEF BInv
  <2>3. FileExact(call[p])'
    BY <1>1, <1>3, <2>1, <2>2 DEF FileExact
  <2>4. Asked(p)' = Asked(p)
    BY <1>1, <2>1, <2>2 DEF Asked, Wanted
  <2> QED
    BY <1>1, <2>2, <2>3, <2>4, FilesFrame, OwnStep
<1> QED
  BY <1>1, <1>2, <1>3
LEMMA WriteDataFiles ==
  ASSUME BInv, NEW p \in Proc, WriteData(p)
  PROVE  NamesUnique' /\ FilesExact' /\ StoreStep
<1> DEFINE new == call[p].dirBuffer[call[p].entry]
           s   == new.sectors[call[p].z]
           c   == [call[p] EXCEPT !.z = call[p].z + 1,
                       !.pc = IF call[p].z = call[p].k THEN "writeDir" ELSE @]
<1>1. /\ call[p].pc = "writeData" /\ dir' = dir
      /\ block' = [block EXCEPT ![s] = <<call[p].value, call[p].z>>]
      /\ call' = [call EXCEPT ![p] = c]
      /\ IInv /\ NamesUnique /\ FilesExact
  BY DEF WriteData, At, BInv, IInv, TypeOK
<1>2. /\ call[p] \in Call /\ call[p].kind = "write" /\ call[p].entry \in Entry
      /\ call[p].dirBuffer \in Directory
      /\ call[p].k < MaxSectors
      /\ call[p].z \in 1 .. call[p].k /\ call[p].z \in Slot
      /\ s \in Sector /\ s \notin used /\ Taken = used
  BY <1>1, WriteDataFacts
<1>3. /\ new.name = call[p].name /\ Length(new) = call[p].k
      /\ call[p].k = IF call[p].size < 0 THEN 0 ELSE call[p].size
      /\ \/ dir[call[p].entry].name = call[p].name
         \/ dir[call[p].entry].name = NoName /\ Matches(dir, call[p].name) = {}
      /\ \A m \in 1 .. call[p].k : m < call[p].z =>
           block[new.sectors[m]] = <<call[p].value, m>>
  BY <1>1, <1>2 DEF FilesExact, FileExact
<1>4. /\ c.kind = "write" /\ c.pc \in {"writeData", "writeDir"}
      /\ c.pc = "writeDir" => call[p].z = call[p].k
      /\ c.name = call[p].name /\ c.size = call[p].size /\ c.value = call[p].value
      /\ c.entry = call[p].entry /\ c.z = call[p].z + 1 /\ c.k = call[p].k
      /\ c.dirBuffer = call[p].dirBuffer
  BY <1>1, <1>2 DEF Call
<1>5. call[p].k \in Int /\ call[p].z \in Int
  BY <1>2 DEF Call
<1>6. \A m \in 1 .. call[p].k : m \in Slot /\ new.sectors[m] \in Sector
  <2>1. \A m \in 1 .. call[p].k : m \in Slot
    BY <1>2, <1>5, ConstantFacts DEF Slot
  <2> QED
    BY <1>2, <2>1 DEF Directory, DirEntry
\* No other block of the file is the one just written.
<1>7. \A m \in 1 .. call[p].k : m < call[p].z => new.sectors[m] # s
  <2>1. Distinct(call[p].dirBuffer)
    BY <1>1 DEF IInv, CopiesExact, CopyExact, Agree
  <2>2. s # 0
    <3>1. Agree(dir, used)
      BY <1>1, <1>2 DEF IInv, DiskExact
    <3>2. 0 \in used
      BY <3>1, ConstantFacts DEF Agree
    <3>3. s \notin used
      BY <1>2
    <3> HIDE DEF s
    <3> QED
      BY <3>2, <3>3
  <2>3. \A m \in Slot : s = new.sectors[m] => call[p].z = m
    BY <1>2, <2>1, <2>2 DEF Distinct
  <2> HIDE DEF new, s
  <2> QED
    BY <1>2, <1>5, <1>6, <2>3
<1>8. /\ block'[s] = <<call[p].value, call[p].z>>
      /\ \A t \in Sector : t # s => block'[t] = block[t]
  BY <1>1, <1>2 DEF IInv, TypeOK
<1>9. \A m \in 1 .. call[p].k : m < c.z => block'[new.sectors[m]] = <<call[p].value, m>>
  <2> SUFFICES ASSUME NEW m \in 1 .. call[p].k, m < c.z
               PROVE  block'[new.sectors[m]] = <<call[p].value, m>>
    OBVIOUS
  <2>1. m < call[p].z \/ m = call[p].z
    BY <1>4, <1>5
  <2>2. CASE m = call[p].z
    BY <1>8, <2>2
  <2>3. CASE m < call[p].z
    <3>1. new.sectors[m] # s /\ block[new.sectors[m]] = <<call[p].value, m>>
      BY <1>3, <1>7, <2>3
    <3>2. new.sectors[m] \in Sector
      BY <1>6
    <3> HIDE DEF new, s
    <3> QED
      BY <1>8, <3>1, <3>2
  <2> QED
    BY <2>1, <2>2, <2>3
<1>10. \A m \in 1 .. call[p].k : m < c.z \/ c.pc = "writeDir" =>
         block'[new.sectors[m]] = <<call[p].value, m>>
  <2>1. c.pc = "writeDir" => \A m \in 1 .. call[p].k : m < c.z
    BY <1>4, <1>5
  <2> QED
    BY <1>9, <2>1
<1> HIDE DEF c
<1>11. \A r \in Proc : call'[r] = IF r = p THEN c ELSE call[r]
  BY <1>1, CallUpdate
<1>12. FileExact(call[p])'
  <2>1. call'[p] = c /\ c.dirBuffer[c.entry] = new
    BY <1>4, <1>11
  <2> HIDE DEF new, s
  <2>2. /\ new.name = c.name /\ Length(new) = c.k
        /\ c.k = IF c.size < 0 THEN 0 ELSE c.size
        /\ \/ dir'[c.entry].name = c.name
           \/ dir'[c.entry].name = NoName /\ Matches(dir', c.name) = {}
    BY <1>1, <1>3, <1>4
  <2>3. \A m \in 1 .. c.k : m < c.z \/ c.pc = "writeDir" =>
          block'[new.sectors[m]] = <<c.value, m>>
    BY <1>4, <1>10
  <2> QED
    BY <1>4, <2>1, <2>2, <2>3 DEF FileExact, Matches
<1>13. Asked(p)' = Asked(p)
  BY <1>1, <1>2, <1>4, <1>11 DEF Asked, Wanted
<1>14. \A t \in Taken : block'[t] = block[t]
  BY <1>1, <1>2, <1>8 DEF IInv, TypeOK
<1> QED
  BY <1>1, <1>2, <1>11, <1>12, <1>13, <1>14, FilesFrame, OwnStep

LEMMA WriteMapFiles ==
  ASSUME BInv, NEW p \in Proc, WriteMap(p)
  PROVE  NamesUnique' /\ FilesExact' /\ StoreStep
<1>1. UNCHANGED <<dir, block>> /\ call' = [call EXCEPT ![p] = Idle]
  BY DEF WriteMap
<1> QED
  BY <1>1, IdleFiles

\* What the entry of the call and the others hold before and after the
\* directory is written.
LEMMA DirectoryWritten ==
  ASSUME BInv, NEW p \in Proc, WriteDirectory(p)
  PROVE  LET c   == call[p]
             new == c.dirBuffer[c.entry]
         IN
         /\ c.pc = "writeDir" /\ c.kind \in {"write", "delete"}
         /\ c \in Call /\ c.name \in Name /\ c.entry \in Entry
         /\ dir' = c.dirBuffer /\ block' = block /\ used' = used
         /\ call' = [call EXCEPT ![p].pc = "writeMap"]
         /\ dir' \in Directory /\ dir'[c.entry] = new
         /\ \A f \in Entry \ {c.entry} : dir'[f] = dir[f]
         /\ Taken = used
         /\ c.kind = "write" =>
              /\ new.name = c.name /\ Length(new) = c.k
              /\ c.k = IF c.size < 0 THEN 0 ELSE c.size
              /\ \/ dir[c.entry].name = c.name
                 \/ dir[c.entry].name = NoName /\ Matches(dir, c.name) = {}
              /\ \A m \in 1 .. c.k : block[new.sectors[m]] = <<c.value, m>>
         /\ c.kind = "delete" => dir[c.entry].name = c.name /\ new.name = NoName
<1>1. /\ call[p].pc = "writeDir" /\ dir' = call[p].dirBuffer
      /\ block' = block /\ used' = used
      /\ call' = [call EXCEPT ![p].pc = "writeMap"] /\ IInv
  BY DEF WriteDirectory, At, BInv
<1>2. CallExact(call[p]) /\ CopyExact(call[p]) /\ FileExact(call[p]) /\ call[p] \in Call
  BY DEF BInv, IInv, TypeOK, CallsExact, CopiesExact, FilesExact
<1>3. /\ call[p].kind \in {"write", "delete"} /\ call[p].name \in Name
      /\ call[p].entry \in Entry /\ call[p].dirBuffer \in Directory
      /\ \A f \in Entry \ {call[p].entry} : call[p].dirBuffer[f] = dir[f]
  BY <1>1, <1>2 DEF CallExact, CopyExact
<1>4. Taken = used
  BY <1>1, <1>3, TakenByOne DEF Rewriting
<1> DEFINE new == call[p].dirBuffer[call[p].entry]
<1>5. call[p].kind = "write" =>
        /\ new.name = call[p].name /\ Length(new) = call[p].k
        /\ call[p].k = IF call[p].size < 0 THEN 0 ELSE call[p].size
        /\ \/ dir[call[p].entry].name = call[p].name
           \/ dir[call[p].entry].name = NoName /\ Matches(dir, call[p].name) = {}
        /\ \A m \in 1 .. call[p].k : block[new.sectors[m]] = <<call[p].value, m>>
  BY <1>1, <1>2 DEF FileExact
<1>6. call[p].kind = "delete" => dir[call[p].entry].name = call[p].name /\ new.name = NoName
  BY <1>1, <1>2 DEF FileExact
<1> QED
  BY <1>1, <1>2, <1>3, <1>4, <1>5, <1>6

\* The one step that changes a file.
LEMMA WriteDirectoryFiles ==
  ASSUME BInv, NEW p \in Proc, WriteDirectory(p)
  PROVE  NamesUnique' /\ FilesExact' /\ StoreStep
<1> DEFINE c   == call[p]
           new == c.dirBuffer[c.entry]
<1>1. /\ c.pc = "writeDir" /\ c.kind \in {"write", "delete"}
      /\ c \in Call /\ c.name \in Name /\ c.entry \in Entry
      /\ block' = block /\ used' = used
      /\ call' = [call EXCEPT ![p].pc = "writeMap"]
      /\ dir' \in Directory /\ dir'[c.entry] = new
      /\ \A f \in Entry \ {c.entry} : dir'[f] = dir[f]
      /\ Taken = used
      /\ c.kind = "write" =>
           /\ new.name = c.name /\ Length(new) = c.k
           /\ c.k = IF c.size < 0 THEN 0 ELSE c.size
           /\ \/ dir[c.entry].name = c.name
              \/ dir[c.entry].name = NoName /\ Matches(dir, c.name) = {}
           /\ \A m \in 1 .. c.k : block[new.sectors[m]] = <<c.value, m>>
      /\ c.kind = "delete" => dir[c.entry].name = c.name /\ new.name = NoName
  BY DirectoryWritten
<1>2. IInv /\ NamesUnique /\ FilesExact
  BY DEF BInv
<1>3. \A r \in Proc : call'[r] = IF r = p THEN [call[p] EXCEPT !.pc = "writeMap"]
                                 ELSE call[r]
  BY <1>1, <1>2 DEF IInv, TypeOK
<1>4. NoName \notin Name
  BY NameAssumption
\* Nobody else holds the name.
<1>5. \A f \in Entry \ {c.entry} : dir'[f].name # c.name /\ dir[f].name # c.name
  <2> SUFFICES ASSUME NEW f \in Entry, f # c.entry
               PROVE  dir'[f].name # c.name /\ dir[f].name # c.name
    OBVIOUS
  <2>1. dir'[f] = dir[f] /\ c.entry \in Entry /\ c.name \in Name
    BY <1>1
  <2>2. dir[c.entry].name = c.name \/ Matches(dir, c.name) = {}
    BY <1>1
  <2> HIDE DEF c, new
  <2>3. CASE dir[c.entry].name = c.name
    BY <1>2, <1>4, <2>1, <2>3 DEF NamesUnique
  <2>4. CASE Matches(dir, c.name) = {}
    BY <2>1, <2>4 DEF Matches
  <2> QED
    BY <2>2, <2>3, <2>4
<1> HIDE DEF new
<1>6. NamesUnique'
  BY <1>1, <1>2, <1>4, <1>5 DEF NamesUnique
<1>7. FilesExact'
  <2>1. call'[p].pc = "writeMap"
    BY <1>1, <1>3 DEF Call
  <2>2. \A r \in Proc \ {p} : \/ call'[r].pc = "idle"
                              \/ call'[r].kind = "read"
    BY <1>1, <1>2, <1>3, OthersRead
  <2> QED
    BY <2>1, <2>2 DEF FilesExact, FileExact
<1>8. ASSUME NEW n \in Name, n # c.name
      PROVE  Stored(n)' = Stored(n)
  <2>1. \A f \in Entry : dir'[f].name = n <=> dir[f].name = n
    BY <1>1, <1>4, <1>8
  <2>2. \A f \in Entry : dir[f].name = n => dir'[f] = dir[f]
    BY <1>1, <1>4, <1>8
  <2>3. dir \in Directory /\ Agree(dir, used)
    BY <1>1, <1>2 DEF IInv, TypeOK, DiskExact
  <2>4. StoredIn(dir', block', n) = StoredIn(dir, block, n)
    BY <1>1, <2>1, <2>2, <2>3, StoredSame
  <2> QED
    BY <2>4, StoredHere, StoredThere
<1>9. ASSUME NEW n, n = c.name
      PROVE  Stored(n)' = Wanted(c)
  <2>1. Stored(n)' = StoredIn(dir', block', n)
    BY StoredThere
  <2>2. CASE c.kind = "write"
    <3>1. dir'[c.entry].name = n /\ \A f \in Entry : dir'[f].name = n => f = c.entry
      BY <1>1, <1>5, <1>9, <2>2
    <3> DEFINE e == c.entry
    <3>2. StoredIn(dir', block', n) = Listing(dir'[e], block')
      <4>1. e \in Entry /\ dir'[e].name = n /\ \A f \in Entry : dir'[f].name = n => f = e
        BY <1>1, <3>1
      <4> HIDE DEF e
      <4> QED
        BY <4>1, StoredFound
    <3>3. c.k \in Int /\ c.size \in Int
      BY <1>1 DEF Call
    <3>4. 1 .. c.k = 1 .. c.size
      BY <1>1, <2>2, <3>3
    <3>5. StoredIn(dir', block', n) = [k \in 1 .. c.size |-> <<c.value, k>>]
      BY <1>1, <2>2, <3>2, <3>4 DEF Listing
    <3> QED
      BY <2>1, <2>2, <3>5 DEF Wanted
  <2>3. CASE c.kind = "delete"
    <3>1. \A f \in Entry : dir'[f].name # n
      BY <1>1, <1>4, <1>5, <1>9, <2>3
    <3>2. StoredIn(dir', block', n) = Absent
      BY <3>1, StoredNowhere
    <3> QED
      BY <2>1, <2>3, <3>2 DEF Wanted
  <2> QED
    BY <1>1, <2>2, <2>3
<1>10. Files' = [Files EXCEPT ![c.name] = Wanted(c)]
  BY <1>8, <1>9 DEF Files
<1>11. Asked(p) = [name |-> c.name, content |-> Wanted(c)]
  BY <1>1 DEF Asked
<1>12. Asked(p) # NoName
  <2>1. c.kind = "write" => c.value \in Value /\ c.size < MaxSectors
    BY <1>1, <1>2 DEF IInv, CallsExact, CallExact
  <2>2. Asked(p) \in Store!Request
    BY <1>1, <1>11, <2>1, WantedRequest
  <2> QED
    BY <2>2, RequestAssumption
<1>13. Asked(p)' = NoName
  BY <1>1, <1>3 DEF Asked, Call
<1>14. Requests' = [Requests EXCEPT ![p] = NoName]
  BY <1>3, <1>13, RequestsChange
<1>15. Requests[p] = Asked(p)
  BY DEF Requests
<1>16. Store!Commit(p)
  <2> DEFINE n == c.name
             x == Wanted(c)
  <2>1. /\ Requests[p] # NoName /\ Requests[p].name = n /\ Requests[p].content = x
        /\ Files' = [Files EXCEPT ![n] = x]
    BY <1>10, <1>11, <1>12, <1>15
  <2> HIDE DEF n, x
  <2> QED
    BY <1>14, <2>1 DEF Store!Commit, Files, Requests
<1>17. StoreStep
  BY <1>16 DEF StoreStep, Store!Next, Store!Commit
<1> QED
  BY <1>6, <1>7, <1>17

\* A new file is on the disk, or there was no room for it.
LEMMA LoadFiles ==
  ASSUME BInv, NEW n \in Name, NEW size \in LoadSizes, NEW v \in Value,
         Load(n, size, v)
  PROVE  NamesUnique' /\ FilesExact' /\ StoreStep
<1> DEFINE e   == LoadEntry
           new == LoadNew(n, size)
<1>1. IInv /\ NamesUnique /\ FilesExact
  BY DEF BInv
<1>2. /\ \A p \in Proc : call[p].pc = "idle" /\ call' = call
      /\ Matches(dir, n) = {}
      /\ dir \in Directory /\ Taken = used /\ Agree(dir, used)
      /\ e \in Entry /\ dir[e].name = NoName
      /\ size \in Nat /\ size < MaxSectors
      /\ \/ LoadCount(size) < size /\ UNCHANGED <<used, dir>>
         \/ LoadCount(size) = size /\ dir' = [dir EXCEPT ![e] = new]
  BY <1>1, LoadFacts, RewriteAssumption
<1>3. /\ \A s \in used : block'[s] = block[s]
      /\ \A m \in 1 .. LoadCount(size) : block'[Unused(used, m)] = <<v, m>>
  BY <1>1, LoadBlocks
<1>4. FilesExact'
  BY <1>2 DEF FilesExact, FileExact
<1>5. \A p \in Proc : Asked(p) = NoName /\ Asked(p)' = NoName
  BY <1>2 DEF Asked
<1>6. Requests' = Requests /\ \A p \in Proc : Requests[p] = NoName
  BY <1>5 DEF Requests
<1>7. CASE dir' = dir
  <2>1. Files' = Files
    BY <1>1, <1>2, <1>3, <1>7, FilesSame
  <2>2. NamesUnique'
    BY <1>1, <1>7 DEF NamesUnique
  <2>3. StoreStep
    BY <1>6, <2>1 DEF StoreStep, Store!vars, Files, Requests
  <2> QED
    BY <1>4, <2>2, <2>3
<1>8. CASE LoadCount(size) = size /\ dir' = [dir EXCEPT ![e] = new]
  <2>1. /\ new \in DirEntry /\ new.name = n
        /\ \A k \in Slot : new.sectors[k] = IF k <= size THEN Unused(used, k) ELSE 0
    BY <1>1, <1>8, LoadedFacts
  <2>2. \A m \in 1 .. size : Unused(used, m) # 0 /\ m \in Slot
    <3>1. \A m \in 1 .. size : Unused(used, m) \in Sector \ used
      <4>1. size <= Cardinality(Sector \ used)
        BY <1>1, <1>8, LoadFacts
      <4> QED
        BY <1>2, <4>1, UnusedFacts
    <3> QED
      BY <1>2, <3>1, ConstantFacts DEF Agree, Slot
  <2>3. Length(new) = size
    <3>1. \A m \in 1 .. size : new.sectors[m] # 0
      BY <1>2, <2>1, <2>2, ConstantFacts DEF Slot
    <3>2. size + 1 \in Slot /\ size <= MaxSectors
      BY <1>2, ConstantFacts DEF Slot
    <3>3. new.sectors[size + 1] = 0
      BY <1>2, <2>1, <3>2
    <3> HIDE DEF new
    <3> QED
      BY <1>2, <2>1, <3>1, <3>2, <3>3, LengthIs
  <2> HIDE DEF new, e
  <2>4. dir'[e] = new /\ \A f \in Entry \ {e} : dir'[f] = dir[f]
    BY <1>2, <1>8 DEF Directory
  <2>5. NoName \notin Name /\ \A f \in Entry : dir[f].name # n
    BY <1>2, NameAssumption DEF Matches
  <2>6. NamesUnique'
    BY <1>1, <2>1, <2>4, <2>5 DEF NamesUnique
  <2>7. ASSUME NEW m \in Name, m # n
        PROVE  Stored(m)' = Stored(m)
    <3>1. /\ \A f \in Entry : dir'[f].name = m <=> dir[f].name = m
          /\ \A f \in Entry : dir[f].name = m => dir'[f] = dir[f]
      BY <1>2, <2>1, <2>4, <2>5, <2>7
    <3>2. StoredIn(dir', block', m) = StoredIn(dir, block, m)
      BY <1>2, <1>3, <3>1, StoredSame
    <3> QED
      BY <3>2, StoredHere, StoredThere
  <2>8. Stored(n) = Absent
    BY <1>2 DEF Stored
  <2>9. Stored(n)' = [k \in 1 .. size |-> <<v, k>>]
    <3>1. dir'[e].name = n /\ \A f \in Entry : dir'[f].name = n => f = e
      BY <2>1, <2>4, <2>5
    <3>2. StoredIn(dir', block', n) = Listing(dir'[e], block')
      BY <1>2, <3>1, StoredFound
    <3>3. \A k \in 1 .. size : block'[new.sectors[k]] = <<v, k>>
      <4> SUFFICES ASSUME NEW k \in 1 .. size
                   PROVE  block'[new.sectors[k]] = <<v, k>>
        OBVIOUS
      <4>1. k \in Slot /\ k <= size
        BY <1>2, <2>2
      <4>2. new.sectors[k] = Unused(used, k)
        BY <2>1, <4>1
      <4> QED
        BY <1>3, <1>8, <4>2
    <3>4. StoredIn(dir', block', n) = [k \in 1 .. size |-> <<v, k>>]
      BY <2>3, <2>4, <3>2, <3>3 DEF Listing
    <3> QED
      BY <3>4, StoredThere
  <2> DEFINE new2 == [k \in 1 .. size |-> <<v, k>>]
  <2>10. new2 \in {c \in Seq(Block) : Len(c) <= MaxSectors}
    <3>1. \A k \in 1 .. size : <<v, k>> \in Block
      BY <2>2 DEF Block
    <3>2. new2 \in Seq(Block) /\ Len(new2) = size
      BY <1>2, <3>1
    <3> HIDE DEF new2
    <3> QED
      BY <1>2, <3>2, ConstantFacts
  <2> HIDE DEF new2
  <2>11. /\ Files[n] = Absent /\ Files'[n] = new2
         /\ Files' = [Files EXCEPT ![n] = Files'[n]]
    BY <2>7, <2>8, <2>9 DEF Files, new2
  <2>12. Store!Install
    BY <1>6, <2>10, <2>11 DEF Store!Install, Files, Requests
  <2>13. StoreStep
    BY <2>12 DEF StoreStep, Store!Next
  <2> QED
    BY <1>4, <2>6, <2>13
<1> QED
  BY <1>2, <1>7, <1>8

LEMMA CrashFiles ==
  ASSUME BInv, Crash
  PROVE  NamesUnique' /\ FilesExact' /\ StoreStep
<1>1. /\ UNCHANGED <<dir, block>> /\ \A p \in Proc : call'[p] = Idle
      /\ IInv /\ NamesUnique
  BY DEF Crash, BInv
<1>2. NamesUnique' /\ FilesExact'
  <2>1. NamesUnique'
    BY <1>1 DEF NamesUnique
  <2>2. \A p \in Proc : call'[p].pc = "idle"
    BY <1>1 DEF Idle
  <2>3. FilesExact'
    BY <2>2 DEF FilesExact, FileExact
  <2> QED
    BY <2>1, <2>3
<1>3. Files' = Files
  BY <1>1, FilesSame
<1>4. Requests' = [p \in Proc |-> NoName]
  BY <1>1 DEF Requests, Asked, Idle
<1>5. Store!PowerFailure
  BY <1>3, <1>4 DEF Store!PowerFailure, Files, Requests
<1> QED
  BY <1>2, <1>5 DEF StoreStep, Store!Next

LEMMA NextFiles == BInv /\ [Next]_vars => NamesUnique' /\ FilesExact' /\ StoreStep
<1> SUFFICES ASSUME BInv, [Next]_vars PROVE NamesUnique' /\ FilesExact' /\ StoreStep
  OBVIOUS
<1>1. ASSUME NEW p \in Proc,
             \/ \E n \in Name : BeginRead(p, n) \/ BeginDelete(p, n)
             \/ \E n \in Name, size \in Sizes, v \in Value : BeginWrite(p, n, size, v)
      PROVE  NamesUnique' /\ FilesExact' /\ StoreStep
  BY <1>1, BeginReadFiles, BeginDeleteFiles, BeginWriteFiles
<1>2. ASSUME NEW p \in Proc,
             ReadDirectory(p) \/ Fetch(p) \/ ReadMapToWrite(p) \/ ReadMapToDelete(p)
      PROVE  NamesUnique' /\ FilesExact' /\ StoreStep
  BY <1>2, ReadDirectoryFiles, FetchFiles, ReadMapToWriteFiles, ReadMapToDeleteFiles
<1>3. ASSUME NEW p \in Proc, WriteData(p) \/ WriteDirectory(p) \/ WriteMap(p)
      PROVE  NamesUnique' /\ FilesExact' /\ StoreStep
  BY <1>3, WriteDataFiles, WriteDirectoryFiles, WriteMapFiles
<1>4. ASSUME NEW n \in Name, NEW size \in LoadSizes, NEW v \in Value, Load(n, size, v)
      PROVE  NamesUnique' /\ FilesExact' /\ StoreStep
  BY <1>4, LoadFiles
<1>5. CASE Crash
  BY <1>5, CrashFiles
<1>6. CASE UNCHANGED vars
  <2>1. UNCHANGED <<dir, block, call>> /\ IInv /\ NamesUnique /\ FilesExact
    BY <1>6 DEF vars, BInv
  <2>2. NamesUnique' /\ FilesExact'
    <3>1. NamesUnique'
      BY <2>1 DEF NamesUnique
    <3>2. FilesExact'
      BY <2>1, FileStays DEF FilesExact
    <3> QED
      BY <3>1, <3>2
  <2>3. Files' = Files
    BY <2>1, FilesSame
  <2>4. Requests' = Requests
    BY <2>1 DEF Requests, Asked, Wanted
  <2> QED
    BY <2>2, <2>3, <2>4 DEF StoreStep, Store!vars, Files, Requests
<1> QED
  BY <1>1, <1>2, <1>3, <1>4, <1>5, <1>6 DEF Next

\* The disk image the project is built with holds no file of a program.
LEMMA InitFiles == Init => NamesUnique /\ FilesExact /\ Store!Init
<1> SUFFICES ASSUME Init PROVE NamesUnique /\ FilesExact /\ Store!Init
  OBVIOUS
<1>1. \A e \in Entry : dir[e].name \notin Name
  BY NameAssumption DEF Init
<1>2. \A p \in Proc : call[p] = Idle
  BY DEF Init
<1>3. NamesUnique
  BY <1>1 DEF NamesUnique
<1>4. FilesExact
  <2>1. \A p \in Proc : call[p].pc = "idle"
    BY <1>2 DEF Idle
  <2> QED
    BY <2>1, NoFile DEF FilesExact
<1>5. Files = [n \in Name |-> Absent]
  BY <1>1 DEF Files, Stored, Matches
<1>6. Requests = [p \in Proc |-> NoName]
  BY <1>2 DEF Requests, Asked, Idle
<1> QED
  BY <1>3, <1>4, <1>5, <1>6 DEF Store!Init, Files, Requests

\* A file changes at once, when the directory is written, and to what the call
\* asked for; no call changes another file (kernel.c:412-550).
THEOREM FileSystemImplementsStore == Spec => ImplementsFileStore
<1>1. Init => BInv
  BY InitIInv, InitFiles DEF BInv
<1>2. BInv /\ [Next]_vars => BInv'
  BY NextIInv, NextFiles DEF BInv
<1>3. BInv /\ [Next]_vars => [Store!Next]_(Store!vars)
  BY NextFiles DEF StoreStep
<1>4. Init => Store!Init
  BY InitFiles
<1> QED
  BY <1>1, <1>2, <1>3, <1>4, PTL DEF Spec, ImplementsFileStore, Store!Spec

-----------------------------------------------------------------------------
(* readSector and writeSector.                                             *)

\* What the loop of mod keeps: as much as modulo has grown temp has shrunk,
\* and the remainder is that of the number.
Loops(d) ==
  /\ div = d
  /\ temp + modulo = number + d
  /\ temp % d = number % d

\* The sector asked for is split up as it should be.
SplitUp ==
  /\ pc = "relSector" => Loops(18) /\ number = absSector
  /\ pc = "head" => /\ Loops(2) /\ number = absSector \div 18
                    /\ relSector = (absSector % 18) + 1

DiskInv == DiskTypeOK /\ SplitUp /\ RightPlace

-----------------------------------------------------------------------------
(* The numbers: only these lemmas look at how large they are.              *)

LEMMA DiskSizeNat == DiskSize \in Nat /\ DiskSize > 0
  BY DiskSizeAssumption

LEMMA MaxIntNat == MaxInt \in Nat /\ DiskSize + 18 <= MaxInt
  BY DiskSizeAssumption DEF MaxInt

\* The sums of mod are 16-bit integers.
LEMMA Int16Small == ASSUME NEW x \in Int, 0 <= x, x <= MaxInt PROVE Int16(x) = x
<1>1. x + 32768 >= 0 /\ x + 32768 < 65536
  BY DEF MaxInt
<1>2. (x + 32768) % 65536 = x + 32768
  BY <1>1
<1>3. QED
  BY <1>2 DEF Int16

LEMMA CharSmall == ASSUME NEW x \in Byte PROVE Char(x) = x
  BY DEF Char, Byte

LEMMA ByteSmall == ASSUME NEW x \in 0 .. 18 PROVE x \in Byte
  BY DEF Byte

LEMMA ByteNat == Byte \subseteq Nat
  BY DEF Byte

LEMMA TrackIsByte == ASSUME NEW s \in AbsSector PROVE s \div 36 \in Byte
  BY DiskSizeAssumption DEF AbsSector, Byte

\* A number is split up by 18 and the quotient by 2.
LEMMA CountedByTracks ==
  ASSUME NEW s \in Nat
  PROVE  s = ((s \div 36) * 2 + ((s \div 18) % 2)) * 18 + (s % 18)
<1>1. PICK q \in Int : q = s \div 18
  OBVIOUS
<1>2. PICK t \in Int : t = s \div 36
  OBVIOUS
<1>3. PICK h \in Int : h = (s \div 18) % 2
  OBVIOUS
<1>4. PICK r \in Int : r = s % 18
  OBVIOUS
<1>5. r = s - 18 * q
  BY <1>1, <1>4
<1>6. t = q \div 2
  BY <1>1, <1>2
<1>7. h = q - 2 * t
  BY <1>1, <1>3, <1>6
<1>8. t * 2 + h = q
  BY <1>7
<1>9. q * 18 + r = s
  BY <1>5
<1>10. s = (t * 2 + h) * 18 + r
  BY <1>8, <1>9
<1>11. QED
  BY <1>2, <1>3, <1>4, <1>10

-----------------------------------------------------------------------------
LEMMA DiskInitInv == DiskInit => DiskInv
  BY DiskSizeNat, MaxIntNat, ByteSmall
  DEF DiskInit, DiskInv, DiskTypeOK, SplitUp, RightPlace, AbsSector

\* A turn of the loop takes div from temp, which holds at least as much.
LEMMA LoopStep ==
  ASSUME DiskTypeOK, SplitUp, Loop
  PROVE  /\ div \in {2, 18}
         /\ modulo <= number
         /\ modulo' = modulo + div
         /\ temp' = temp - div
         /\ temp' >= 0
<1>1. number \in AbsSector /\ modulo \in 1 .. MaxInt /\ temp \in AbsSector
  BY DEF DiskTypeOK
<1>2. /\ number \in Nat /\ modulo \in Nat /\ temp \in Nat /\ modulo > 0
      /\ number < DiskSize /\ temp < DiskSize
  BY <1>1, DiskSizeNat, MaxIntNat DEF AbsSector
<1>3. /\ div \in {2, 18} /\ modulo <= number /\ temp + modulo = number + div
  BY DEF SplitUp, Loops, Loop, InLoop
<1>4. Int16(modulo + div) = modulo + div
  BY <1>2, <1>3, MaxIntNat, DiskSizeNat, Int16Small
<1>5. temp >= div
  BY <1>2, <1>3
<1>6. Int16(temp - div) = temp - div
  BY <1>2, <1>3, <1>5, MaxIntNat, DiskSizeNat, Int16Small
<1>7. QED
  BY <1>2, <1>3, <1>4, <1>5, <1>6 DEF Loop, Grown

LEMMA LoopInv == DiskTypeOK /\ SplitUp /\ RightPlace /\ Loop => DiskInv'
<1> SUFFICES ASSUME DiskTypeOK, SplitUp, RightPlace, Loop PROVE DiskInv'
  OBVIOUS
<1>1. /\ div \in {2, 18} /\ modulo <= number /\ modulo' = modulo + div
      /\ temp' = temp - div /\ temp' >= 0
  BY LoopStep
<1>2. /\ number \in Nat /\ modulo \in Nat /\ temp \in Nat /\ modulo > 0
      /\ number < DiskSize /\ temp < DiskSize
  BY DiskSizeNat, MaxIntNat DEF DiskTypeOK, AbsSector
<1>3. modulo' \in 1 .. MaxInt /\ temp' \in AbsSector
  BY <1>1, <1>2, DiskSizeNat, MaxIntNat DEF AbsSector
<1>4. DiskTypeOK'
  BY <1>3 DEF DiskTypeOK, Loop
<1>5. SplitUp'
  <2>1. CASE pc = "relSector"
    <3>1. div = 18 /\ temp + modulo = number + 18 /\ temp % 18 = number % 18
      BY <2>1 DEF SplitUp, Loops
    <3>2. temp' % 18 = temp % 18
      BY <1>1, <1>2, <3>1
    <3>3. temp' + modulo' = number + 18
      BY <1>1, <1>2, <3>1
    <3>4. QED
      BY <2>1, <3>1, <3>2, <3>3 DEF SplitUp, Loops, Loop
  <2>2. CASE pc = "head"
    <3>1. div = 2 /\ temp + modulo = number + 2 /\ temp % 2 = number % 2
      BY <2>2 DEF SplitUp, Loops
    <3>2. temp' % 2 = temp % 2
      BY <1>1, <1>2, <3>1
    <3>3. temp' + modulo' = number + 2
      BY <1>1, <1>2, <3>1
    <3>4. QED
      BY <2>2, <3>1, <3>2, <3>3 DEF SplitUp, Loops, Loop
  <2>3. QED
    BY <2>1, <2>2 DEF Loop
<1>6. RightPlace'
  BY DEF RightPlace, Loop
<1>7. QED
  BY <1>4, <1>5, <1>6 DEF DiskInv

LEMMA RelSectorInv == DiskTypeOK /\ SplitUp /\ RightPlace /\ RelSector => DiskInv'
<1> SUFFICES ASSUME DiskTypeOK, SplitUp, RightPlace, RelSector PROVE DiskInv'
  OBVIOUS
<1>1. /\ absSector \in AbsSector /\ absSector \in Nat /\ modulo \in Nat /\ temp \in Nat
  BY DiskSizeNat, MaxIntNat DEF DiskTypeOK, AbsSector
<1>2. /\ number = absSector /\ temp + modulo = number + 18
      /\ temp % 18 = number % 18 /\ number < modulo
  BY <1>1 DEF SplitUp, Loops, RelSector, InLoop
<1>3. temp = absSector % 18 /\ temp + 1 \in 0 .. 18 
  BY <1>1, <1>2
<1>4. relSector' = (absSector % 18) + 1 /\ relSector' \in Byte
  BY <1>3, ByteSmall, CharSmall DEF RelSector
<1>5. absSector \div 18 \in AbsSector
  BY <1>1, DiskSizeNat DEF AbsSector
<1>6. DiskTypeOK'
  BY <1>4, <1>5, MaxIntNat, DiskSizeNat DEF DiskTypeOK, RelSector, CallMod
<1>7. SplitUp'
  BY <1>4, <1>5, DiskSizeNat DEF SplitUp, Loops, RelSector, CallMod, AbsSector
<1>8. RightPlace'
  BY DEF RightPlace, RelSector
<1>9. QED
  BY <1>6, <1>7, <1>8 DEF DiskInv

LEMMA AccessInv == DiskTypeOK /\ SplitUp /\ RightPlace /\ Access => DiskInv'
<1> SUFFICES ASSUME DiskTypeOK, SplitUp, RightPlace, Access PROVE DiskInv'
  OBVIOUS
<1>1. /\ absSector \in AbsSector /\ absSector \in Nat /\ modulo \in Nat /\ temp \in Nat
      /\ number \in Nat /\ relSector \in Byte
  BY DiskSizeNat, MaxIntNat DEF DiskTypeOK, AbsSector
<1>2. /\ number = absSector \div 18 /\ temp + modulo = number + 2
      /\ temp % 2 = number % 2 /\ number < modulo
      /\ relSector = (absSector % 18) + 1
  BY <1>1 DEF SplitUp, Loops, Access, InLoop
<1>3. temp = (absSector \div 18) % 2 /\ temp \in 0 .. 1
  BY <1>1, <1>2
<1>4. absSector \div 36 \in Byte /\ temp \in Byte
  BY <1>1, <1>3, TrackIsByte, ByteSmall
<1>5. spot' = [sector |-> absSector, track |-> absSector \div 36, head |-> temp,
               relSector |-> relSector]
  BY <1>4, CharSmall DEF Access
<1>6. RightPlace'
  <2>1. absSector = ((absSector \div 36) * 2 + ((absSector \div 18) % 2)) * 18
                    + (absSector % 18)
    BY <1>1, CountedByTracks
  <2>2. relSector \in 1 .. 18
    BY <1>1, <1>2
  <2>3. absSector = ((absSector \div 36) * 2 + temp) * 18 + relSector - 1
    BY <1>1, <1>2, <1>3, <2>1
  <2>4. QED
    BY <1>3, <1>5, <2>2, <2>3 DEF RightPlace
<1>7. DiskTypeOK'
  BY <1>1, <1>4, <1>5 DEF DiskTypeOK, Access
<1>8. SplitUp'
  BY DEF SplitUp, Access
<1>9. QED
  BY <1>6, <1>7, <1>8 DEF DiskInv

LEMMA BeginInv ==
  ASSUME DiskTypeOK, SplitUp, RightPlace, NEW s \in AbsSector, BeginAccess(s) PROVE DiskInv'
<1>1. s \in Nat /\ 18 \in 1 .. MaxInt
  BY DiskSizeNat, MaxIntNat DEF AbsSector
<1>2. DiskTypeOK'
  BY <1>1 DEF DiskTypeOK, BeginAccess, CallMod
<1>3. SplitUp'
  BY <1>1 DEF SplitUp, Loops, BeginAccess, CallMod
<1>4. RightPlace'
  BY DEF RightPlace, BeginAccess
<1>5. QED
  BY <1>2, <1>3, <1>4 DEF DiskInv

LEMMA DiskNextInv == DiskInv /\ [DiskNext]_diskVars => DiskInv'
<1> SUFFICES ASSUME DiskInv, [DiskNext]_diskVars PROVE DiskInv'
  OBVIOUS
<1>1. ASSUME NEW s \in AbsSector, BeginAccess(s) PROVE DiskInv'
  BY <1>1, BeginInv DEF DiskInv
<1>2. CASE Loop
  BY <1>2, LoopInv DEF DiskInv
<1>3. CASE RelSector
  BY <1>3, RelSectorInv DEF DiskInv
<1>4. CASE Access
  BY <1>4, AccessInv DEF DiskInv
<1>5. CASE UNCHANGED diskVars
  BY <1>5 DEF diskVars, DiskInv, DiskTypeOK, SplitUp, Loops, RightPlace
<1>6. QED
  BY <1>1, <1>2, <1>3, <1>4, <1>5 DEF DiskNext

-----------------------------------------------------------------------------
\* The invariant that the theorems below are read off.
THEOREM DiskInvariance == DiskSpec => []DiskInv
  BY DiskInitInv, DiskNextInv, PTL DEF DiskSpec

\* mod never overflows an int nor leaves a negative number (kernel.c:738-746),
\* whatever the size of the disk.
THEOREM DiskTypeCorrect == DiskSpec => []DiskTypeOK
<1>1. DiskInv => DiskTypeOK
  BY DEF DiskInv
<1>2. QED
  BY <1>1, DiskInvariance, PTL

\* Every sector of every disk is looked for at the track, head and sector of
\* its own (kernel.c:752-764).
THEOREM EverySectorInItsPlace == DiskSpec => []RightPlace
<1>1. DiskInv => RightPlace
  BY DEF DiskInv
<1>2. QED
  BY <1>1, DiskInvariance, PTL

\* Every turn of the loop of mod brings its end nearer (kernel.c:741-744).
THEOREM ModReturns == DiskSpec => LoopEnds
<1>1. ASSUME DiskInv, [DiskNext]_diskVars, pc' = pc, pc # "idle", ~UNCHANGED diskVars
      PROVE  number' = number /\ modulo <= number /\ modulo' > modulo
  <2>1. Loop
    BY <1>1 DEF DiskNext, BeginAccess, RelSector, Access
  <2>2. /\ div \in {2, 18} /\ modulo <= number /\ modulo' = modulo + div
    BY <1>1, <2>1, LoopStep DEF DiskInv
  <2>3. modulo \in Int
    BY <1>1, MaxIntNat DEF DiskInv, DiskTypeOK
  <2>4. QED
    BY <2>1, <2>2, <2>3 DEF Loop
<1>2. DiskInv /\ [DiskNext]_diskVars =>
        [pc' = pc /\ pc # "idle" =>
           number' = number /\ modulo <= number /\ modulo' > modulo]_diskVars
  BY <1>1
<1>3. QED
  BY <1>2, DiskInvariance, PTL DEF DiskSpec, LoopEnds
=============================================================================
