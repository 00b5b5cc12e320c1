--------------------------- MODULE ProcQueueProofs ---------------------------
(***************************************************************************)
(* Proofs about the list functions of ProcQueue, for every pool of PCBs.   *)
(* The lemmas speak of any list in memory and are cited by whatever uses   *)
(* it.                                                                     *)
(***************************************************************************)
EXTENDS ProcQueue, SequenceTheorems, FiniteSetTheorems, TLAPS

-----------------------------------------------------------------------------
(* Natural numbers.                                                        *)

\* Every nonempty set of natural numbers has a least element.
LEMMA LeastNatural ==
  ASSUME NEW T \in SUBSET Nat, T # {}
  PROVE  \E m \in T : \A k \in T : m <= k
<1> DEFINE R == {pair \in Nat \X Nat : pair[1] < pair[2]}
<1>1. IsWellFoundedOn(R, Nat)
  BY NatLessThanWellFounded, Zenon DEF OpToRel
<1>2. \A m, k \in T : <<k, m>> \notin R => m <= k
  OBVIOUS
<1> HIDE DEF R
<1>3. PICK m \in T : \A k \in T : <<k, m>> \notin R
  BY <1>1, WFMin
<1> QED
  BY <1>2, <1>3

\* The numbers from 1 to n are n numbers.
LEMMA CountToN ==
  ASSUME NEW n \in Nat
  PROVE  IsFiniteSet(1 .. n) /\ Cardinality(1 .. n) = n
<1>1. /\ IsFiniteSet(1 .. n)
      /\ Cardinality(1 .. n) = IF 1 > n THEN 0 ELSE n - 1 + 1
  BY FS_Interval
<1> QED
  BY <1>1

-----------------------------------------------------------------------------
(* Sequences.                                                              *)

\* What RemoveAt leaves: the elements before i in place, the later ones one
\* position down.
LEMMA RemoveAtElements ==
  ASSUME NEW S, NEW s \in Seq(S), NEW i \in 1 .. Len(s)
  PROVE  /\ RemoveAt(s, i) \in Seq(S)
         /\ Len(RemoveAt(s, i)) = Len(s) - 1
         /\ \A j \in 1 .. Len(s) - 1 :
              RemoveAt(s, i)[j] = IF j < i THEN s[j] ELSE s[j + 1]
<1> DEFINE a == SubSeq(s, 1, i - 1)
           b == SubSeq(s, i + 1, Len(s))
           c == RemoveAt(s, i)
<1>1. /\ a \in Seq(S) /\ Len(a) = i - 1
      /\ \A j \in 1 .. i - 1 : a[j] = s[j]
  OBVIOUS
<1>2. /\ b \in Seq(S) /\ Len(b) = Len(s) - i
      /\ \A j \in 1 .. Len(s) - i : b[j] = s[i + j]
  OBVIOUS
<1>3. c = a \o b
  BY DEF RemoveAt
<1> HIDE DEF a, b, c
<1>4. /\ c \in Seq(S) /\ Len(c) = Len(a) + Len(b)
      /\ \A j \in 1 .. Len(a) + Len(b) :
           c[j] = IF j <= Len(a) THEN a[j] ELSE b[j - Len(a)]
  BY <1>1, <1>2, <1>3, ConcatProperties
<1>5. Len(c) = Len(s) - 1
  BY <1>1, <1>2, <1>4
<1>6. ASSUME NEW j \in 1 .. Len(s) - 1
      PROVE  c[j] = IF j < i THEN s[j] ELSE s[j + 1]
  <2>1. CASE j < i
    <3>1. j \in 1 .. Len(a) + Len(b) /\ j <= Len(a) /\ j \in 1 .. i - 1
      BY <2>1, <1>1, <1>2
    <3>2. c[j] = a[j] /\ a[j] = s[j]
      BY <3>1, <1>1, <1>4
    <3> QED
      BY <2>1, <3>2
  <2>2. CASE j >= i
    <3>1. /\ j - Len(a) \in 1 .. Len(s) - i /\ ~(j <= Len(a))
          /\ j \in 1 .. Len(a) + Len(b)
      BY <2>2, <1>1, <1>2
    <3>2. c[j] = b[j - Len(a)]
      BY <3>1, <1>4
    <3>4. b[j - Len(a)] = s[i + (j - Len(a))]
      BY <3>1, <1>2
    <3>3. i + (j - Len(a)) = j + 1
      BY <1>1
    <3> QED
      BY <2>2, <3>2, <3>3, <3>4
  <2> QED
    BY <2>1, <2>2
<1> QED
  BY <1>4, <1>5, <1>6 DEF c

\* What Append and Tail do, element by element.
LEMMA AppendElements ==
  ASSUME NEW S, NEW s \in Seq(S), NEW x \in S
  PROVE  /\ Append(s, x) \in Seq(S)
         /\ Len(Append(s, x)) = Len(s) + 1
         /\ \A j \in 1 .. Len(s) : Append(s, x)[j] = s[j]
         /\ Append(s, x)[Len(s) + 1] = x
         /\ Append(s, x) # <<>>
OBVIOUS

LEMMA TailElements ==
  ASSUME NEW S, NEW s \in Seq(S), s # <<>>
  PROVE  /\ Tail(s) \in Seq(S)
         /\ Len(Tail(s)) = Len(s) - 1
         /\ \A j \in 1 .. Len(s) - 1 : Tail(s)[j] = s[j + 1]
         /\ Head(s) = s[1] /\ Head(s) \in S
         /\ Len(s) > 0
         /\ Tail(s) = <<>> <=> Len(s) = 1
<1>1. /\ Tail(s) \in Seq(S) /\ Len(Tail(s)) = Len(s) - 1
      /\ \A j \in 1 .. Len(s) - 1 : Tail(s)[j] = s[j + 1]
      /\ Head(s) = s[1] /\ Head(s) \in S
      /\ Len(s) > 0
  OBVIOUS
<1>2. ASSUME NEW t \in Seq(S)
      PROVE  t = <<>> <=> Len(t) = 0
  OBVIOUS
<1> QED
  <2>1. Tail(s) = <<>> <=> Len(Tail(s)) = 0
    BY <1>1, <1>2
  <2> QED
    BY <1>1, <2>1

-----------------------------------------------------------------------------
(* The three functions of proc.c on a list that represents a sequence.     *)

\* The fields of the list after addToReady, in each of its three branches.
LEMMA AddToReadyFields ==
  ASSUME NEW r \in Queue, NEW p \in Pcb, ~AddFaults(r)
  PROVE  LET u == AddToReady(r, p)
         IN  /\ u \in Queue
             /\ r.head = NULL =>
                  /\ u.head = p /\ u.tail = p
                  /\ u.next = r.next /\ u.prev = r.prev
             /\ r.head # NULL =>
                  /\ u.head = r.head /\ u.tail = p
                  /\ u.next = [r.next EXCEPT ![r.tail] = p]
                  /\ u.prev = [r.prev EXCEPT ![p] = r.tail]
<1>1. CASE r.head = NULL
  <2>1. AddToReady(r, p) = [r EXCEPT !.head = p, !.tail = p]
    BY <1>1 DEF AddToReady
  <2> QED
    BY <1>1, <2>1 DEF Queue, PcbPtr
<1>2. CASE r.head # NULL /\ r.head = r.tail
  <2> DEFINE v == [r EXCEPT !.next[r.head] = p, !.tail = p, !.prev[p] = r.head]
  <2>1. AddToReady(r, p) = v
    BY <1>2 DEF AddToReady
  <2>2. r.head \in Pcb
    BY <1>2 DEF Queue, PcbPtr
  <2>3. /\ v \in Queue /\ v.head = r.head /\ v.tail = p
        /\ v.next = [r.next EXCEPT ![r.head] = p]
        /\ v.prev = [r.prev EXCEPT ![p] = r.head]
    BY <2>2 DEF Queue, PcbPtr
  <2> HIDE DEF v
  <2> QED
    BY <1>2, <2>1, <2>3
<1>3. CASE r.head # NULL /\ r.head # r.tail
  <2> DEFINE v == [r EXCEPT !.prev[p] = r.tail, !.next[r.tail] = p, !.tail = p]
  <2>1. AddToReady(r, p) = v
    BY <1>3 DEF AddToReady
  <2>2. r.tail \in Pcb
    BY <1>3 DEF Queue, PcbPtr, AddFaults
  <2>3. /\ v \in Queue /\ v.head = r.head /\ v.tail = p
        /\ v.next = [r.next EXCEPT ![r.tail] = p]
        /\ v.prev = [r.prev EXCEPT ![p] = r.tail]
    BY <2>2 DEF Queue, PcbPtr
  <2> HIDE DEF v
  <2> QED
    BY <1>3, <2>1, <2>3
<1> QED
  BY <1>1, <1>2, <1>3

\* addToReady appends: the list of s becomes the list of Append(s, p).
LEMMA AddToReadyAppends ==
  ASSUME NEW r \in Queue, NEW s \in Seq(Pcb), NEW p \in Pcb,
         Represents(r, s), NoDuplicates(s),
         \A i \in 1 .. Len(s) : s[i] # p
  PROVE  /\ AddToReady(r, p) \in Queue
         /\ Represents(AddToReady(r, p), Append(s, p))
         /\ NoDuplicates(Append(s, p))
         /\ ~AddFaults(r)
<1> DEFINE t == Append(s, p)
           u == AddToReady(r, p)
<1>1. /\ t \in Seq(Pcb) /\ Len(t) = Len(s) + 1 /\ t # <<>>
      /\ \A j \in 1 .. Len(s) : t[j] = s[j]
      /\ t[Len(s) + 1] = p
  BY AppendElements
<1>2. /\ Len(s) \in Nat
      /\ \A j \in 1 .. Len(s) : s[j] \in Pcb /\ s[j] # NULL /\ s[j] # p
      /\ s = <<>> <=> Len(s) = 0
  BY NullAssumption
<1> HIDE DEF t
<1>3. NoDuplicates(t)
  BY <1>1, <1>2 DEF NoDuplicates
<1>4. ~AddFaults(r)
  BY <1>2 DEF Represents, AddFaults
<1>5. u \in Queue
  BY <1>4, AddToReadyFields
<1>6. CASE s = <<>>
  <2>1. /\ u.head = p /\ u.tail = p
        /\ u.next = r.next /\ u.prev = r.prev
    BY <1>4, <1>6, AddToReadyFields DEF Represents
  <2>2. \A x \in Pcb : r.prev[x] = NULL
    BY <1>2, <1>6 DEF Represents
  <2> QED
    BY <2>1, <2>2, <1>1, <1>2, <1>3, <1>4, <1>5, <1>6 DEF Represents, t
<1>7. CASE s # <<>>
  <2>1. r.head = s[1] /\ r.tail = s[Len(s)] /\ r.head # NULL
    BY <1>2, <1>7 DEF Represents
  <2>2. /\ u.head = r.head /\ u.tail = p
        /\ u.next = [r.next EXCEPT ![r.tail] = p]
        /\ u.prev = [r.prev EXCEPT ![p] = r.tail]
    BY <1>4, <2>1, AddToReadyFields
  <2> HIDE DEF u
  <2>3. u.head = t[1] /\ u.tail = t[Len(t)] /\ u.prev[t[1]] = NULL
    BY <2>1, <2>2, <1>1, <1>2, <1>7 DEF Represents, Queue
  <2>4. \A i \in 1 .. Len(t) - 1 : u.next[t[i]] = t[i + 1]
    BY <2>1, <2>2, <1>1, <1>2, <1>7 DEF Represents, NoDuplicates, Queue
  <2>5. ASSUME NEW i \in 2 .. Len(t)
        PROVE  u.prev[t[i]] = t[i - 1]
    <3>1. CASE i = Len(t)
      BY <3>1, <2>1, <2>2, <1>1, <1>2, <1>7 DEF Queue
    <3>2. CASE i # Len(t)
      <4>1. i \in 2 .. Len(s) /\ t[i] = s[i] /\ t[i - 1] = s[i - 1]
        BY <3>2, <1>1, <1>2
      <4>2. r.prev[s[i]] = s[i - 1]
        BY <4>1 DEF Represents
      <4> QED
        BY <4>1, <4>2, <2>2, <1>2 DEF Queue
    <3> QED
      BY <3>1, <3>2
  <2>6. ASSUME NEW x \in Pcb, \A i \in 1 .. Len(t) : t[i] # x
        PROVE  u.prev[x] = NULL
    <3>1. x # p /\ \A i \in 1 .. Len(s) : s[i] # x
      BY <2>6, <1>1, <1>2
    <3> QED
      BY <3>1, <2>2 DEF Represents, Queue
  <2>7. Represents(u, t)
    BY <2>3, <2>4, <2>5, <2>6, <1>1 DEF Represents
  <2> QED
    BY <2>7, <1>3, <1>4, <1>5 DEF t, u
<1> QED
  BY <1>6, <1>7

\* removeFromReady takes the head: what it returns is the first PCB of s, and
\* the list of s becomes the list of Tail(s).  When others stay queued, the
\* stale next link of the PCB taken leads to the new head.
LEMMA RemoveFromReadyTakesHead ==
  ASSUME NEW r \in Queue, NEW s \in Seq(Pcb), s # <<>>,
         Represents(r, s), NoDuplicates(s)
  PROVE  /\ RemovedFromReady(r) = s[1]
         /\ RemoveFromReady(r) \in Queue
         /\ Represents(RemoveFromReady(r), Tail(s))
         /\ NoDuplicates(Tail(s))
         /\ \A i \in 1 .. Len(Tail(s)) : Tail(s)[i] # s[1]
         /\ Len(s) > 1 => RemoveFromReady(r).next[s[1]] = Tail(s)[1]
         /\ ~RemoveFaults(r)
<1> DEFINE t == Tail(s)
           u == RemoveFromReady(r)
<1>1. /\ t \in Seq(Pcb) /\ Len(t) = Len(s) - 1
      /\ \A j \in 1 .. Len(s) - 1 : t[j] = s[j + 1]
      /\ Len(s) > 0
      /\ t = <<>> <=> Len(s) = 1
  BY TailElements
<1>2. /\ Len(s) \in Nat
      /\ \A j \in 1 .. Len(s) : s[j] \in Pcb /\ s[j] # NULL
  BY NullAssumption
<1> HIDE DEF t
<1>3. NoDuplicates(t) /\ \A i \in 1 .. Len(t) : t[i] # s[1]
  <2>1. \A i, j \in 1 .. Len(s) : s[i] = s[j] => i = j
    BY DEF NoDuplicates
  <2>2. ASSUME NEW i \in 1 .. Len(t), NEW j \in 1 .. Len(t), t[i] = t[j]
        PROVE  i = j
    <3>1. i + 1 \in 1 .. Len(s) /\ j + 1 \in 1 .. Len(s)
      BY <1>1, <1>2
    <3>2. s[i + 1] = s[j + 1]
      BY <2>2, <1>1, <1>2
    <3>3. i + 1 = j + 1
      BY <3>1, <3>2, <2>1
    <3> QED
      BY <3>3, <1>1, <1>2
  <2>3. ASSUME NEW i \in 1 .. Len(t)
        PROVE  t[i] # s[1]
    <3>1. i + 1 \in 1 .. Len(s) /\ 1 \in 1 .. Len(s) /\ t[i] = s[i + 1]
      BY <1>1, <1>2
    <3> QED
      BY <3>1, <2>1, <1>1, <1>2
  <2> QED
    BY <2>2, <2>3 DEF NoDuplicates
<1>4. RemovedFromReady(r) = s[1]
  BY DEF Represents, RemovedFromReady
<1>5. CASE Len(s) = 1
  <2>1. r.head = s[1] /\ r.tail = s[1] /\ r.head # NULL
    BY <1>2, <1>5 DEF Represents
  <2>2. u = [r EXCEPT !.head = NULL, !.tail = NULL]
    BY <2>1 DEF RemoveFromReady
  <2>3. /\ u \in Queue /\ u.head = NULL /\ u.tail = NULL
        /\ u.next = r.next /\ u.prev = r.prev
    BY <2>2 DEF Queue, PcbPtr
  <2>4. \A x \in Pcb : r.prev[x] = NULL
    BY <1>2, <1>5 DEF Represents
  <2>5. Represents(u, t)
    BY <2>3, <2>4, <1>1, <1>2, <1>5 DEF Represents
  <2>6. ~RemoveFaults(r)
    BY <2>1 DEF RemoveFaults
  <2> QED
    BY <2>3, <2>5, <2>6, <1>3, <1>4, <1>5 DEF t
<1>6. CASE Len(s) > 1
  <2> DEFINE n == r.next[r.head]
  <2>1. /\ r.head = s[1] /\ r.tail = s[Len(s)]
        /\ r.head # r.tail /\ r.head # NULL
    BY <1>2, <1>6 DEF Represents, NoDuplicates
  <2>2. n = s[2] /\ n \in Pcb /\ n # s[1] /\ n # NULL
    BY <2>1, <1>2, <1>6 DEF Represents, NoDuplicates
  <2>3. u = [r EXCEPT !.head = n, !.prev[n] = NULL,
                      !.next[n] = IF n = r.tail THEN NULL ELSE @]
    BY <2>1 DEF RemoveFromReady
  <2> HIDE DEF n, u
  <2>4. /\ u \in Queue /\ u.head = n /\ u.tail = r.tail
        /\ u.next = [r.next EXCEPT ![n] = IF n = r.tail THEN NULL ELSE @]
        /\ u.prev = [r.prev EXCEPT ![n] = NULL]
    BY <2>2, <2>3 DEF Queue, PcbPtr
  <2>5. u.head = t[1] /\ u.tail = t[Len(t)] /\ u.prev[t[1]] = NULL
    BY <2>1, <2>2, <2>4, <1>1, <1>2, <1>6 DEF Queue
  <2>6. n = r.tail <=> Len(s) = 2
    <3>1. 2 \in 1 .. Len(s) /\ Len(s) \in 1 .. Len(s)
      BY <1>2, <1>6
    <3>2. s[2] = s[Len(s)] <=> Len(s) = 2
      BY <3>1 DEF NoDuplicates
    <3> QED
      BY <2>1, <2>2, <3>2
  <2>7. ASSUME NEW i \in 1 .. Len(t) - 1
        PROVE  u.next[t[i]] = t[i + 1]
    <3>1. n # r.tail
      BY <2>6, <1>1, <1>2, <1>6
    <3>2. u.next = r.next
      BY <3>1, <2>2, <2>4 DEF Queue
    <3>3. /\ i + 1 \in 1 .. Len(s) - 1
          /\ t[i] = s[i + 1] /\ t[i + 1] = s[(i + 1) + 1]
      BY <1>1, <1>2, <1>6
    <3>4. r.next[s[i + 1]] = s[(i + 1) + 1]
      BY <3>3 DEF Represents
    <3> QED
      BY <3>2, <3>3, <3>4
  <2>8. ASSUME NEW i \in 2 .. Len(t)
        PROVE  u.prev[t[i]] = t[i - 1]
    <3>1. /\ t[i] = s[i + 1] /\ t[i - 1] = s[i]
          /\ s[i + 1] # s[2] /\ s[i + 1] \in Pcb
      BY <1>1, <1>2, <1>6 DEF NoDuplicates
    <3>2. r.prev[s[i + 1]] = s[i]
      BY <1>1, <1>2, <1>6 DEF Represents
    <3> QED
      BY <3>1, <3>2, <2>2, <2>4 DEF Queue
  <2>9. ASSUME NEW x \in Pcb, \A i \in 1 .. Len(t) : t[i] # x
        PROVE  u.prev[x] = NULL
    <3>1. CASE x = s[1]
      <4>1. r.prev[x] = NULL
        BY <3>1, <1>6 DEF Represents
      <4> QED
        BY <4>1, <2>2, <2>4 DEF Queue
    <3>2. CASE x # s[1]
      <4>1. ASSUME NEW i \in 1 .. Len(s) PROVE s[i] # x
        <5>1. CASE i = 1
          BY <5>1, <3>2
        <5>2. CASE i # 1
          <6>1. i - 1 \in 1 .. Len(t) /\ t[i - 1] = s[i]
            BY <5>2, <1>1, <1>2
          <6> QED
            BY <6>1, <2>9
        <5> QED
          BY <5>1, <5>2
      <4>2. r.prev[x] = NULL
        BY <4>1 DEF Represents
      <4> QED
        BY <4>2, <2>2, <2>4 DEF Queue
    <3> QED
      BY <3>1, <3>2
  <2>10. Represents(u, t)
    BY <2>5, <2>7, <2>8, <2>9, <1>1, <1>6 DEF Represents
  <2>11. u.next[s[1]] = t[1]
    <3>1. t[1] = s[2] /\ s[1] \in Pcb
      BY <1>1, <1>2, <1>6
    <3>2. u.next[s[1]] = r.next[s[1]]
      BY <3>1, <2>2, <2>4 DEF Queue
    <3> QED
      BY <3>1, <3>2, <2>1, <2>2 DEF n
  <2>12. ~RemoveFaults(r)
    BY <2>2 DEF n, RemoveFaults
  <2> QED
    BY <2>4, <2>10, <2>11, <2>12, <1>3, <1>4 DEF t, u
<1> QED
  BY <1>1, <1>2, <1>5, <1>6

\* releasePCB of a queued PCB that another follows takes it out and leaves
\* the others in their order.
LEMMA ReleaseLinksRemoves ==
  ASSUME NEW r \in Queue, NEW s \in Seq(Pcb), NEW i \in 1 .. Len(s),
         i < Len(s), Represents(r, s), NoDuplicates(s)
  PROVE  /\ ReleaseLinks(r, s[i]) \in Queue
         /\ Represents(ReleaseLinks(r, s[i]), RemoveAt(s, i))
         /\ NoDuplicates(RemoveAt(s, i))
         /\ \A j \in 1 .. Len(RemoveAt(s, i)) : RemoveAt(s, i)[j] # s[i]
         /\ \A x \in Pcb : (\A j \in 1 .. Len(s) : s[j] # x) =>
              ReleaseLinks(r, s[i]).next[x] = r.next[x]
<1> DEFINE p == s[i]
           n == r.next[p]
           b == r.prev[p]
           t == RemoveAt(s, i)
           u == ReleaseLinks(r, p)
<1>1. /\ t \in Seq(Pcb) /\ Len(t) = Len(s) - 1
      /\ \A j \in 1 .. Len(s) - 1 : t[j] = IF j < i THEN s[j] ELSE s[j + 1]
  BY RemoveAtElements
<1>2. /\ Len(s) \in Nat /\ i \in Nat /\ i > 0
      /\ \A j \in 1 .. Len(s) : s[j] \in Pcb /\ s[j] # NULL
      /\ \A j, k \in 1 .. Len(s) : s[j] = s[k] => j = k
  BY NullAssumption DEF NoDuplicates
<1>3. /\ p \in Pcb
      /\ n = s[i + 1] /\ n \in Pcb /\ n # NULL /\ n # p
  <2>1. i + 1 \in 1 .. Len(s) /\ i + 1 # i
    BY <1>2
  <2>2. n = s[i + 1]
    BY <1>2 DEF Represents
  <2> HIDE DEF n
  <2> QED
    BY <1>2, <2>1, <2>2
<1>4. /\ i = 1 => b = NULL
      /\ i > 1 => b = s[i - 1] /\ b \in Pcb /\ b # NULL /\ b # p /\ b # n
  BY <1>2, <1>3 DEF Represents
<1> HIDE DEF p, n, b, t, u
<1>5. NoDuplicates(t) /\ \A j \in 1 .. Len(t) : t[j] # p
  <2>1. ASSUME NEW j \in 1 .. Len(t), NEW k \in 1 .. Len(t), t[j] = t[k]
        PROVE  j = k
    BY <2>1, <1>1, <1>2
  <2>2. ASSUME NEW j \in 1 .. Len(t)
        PROVE  t[j] # p
    BY <1>1, <1>2 DEF p
  <2> QED
    BY <2>1, <2>2 DEF NoDuplicates
\* The fields of the list afterwards, for a head and for a middle element.
<1>6. /\ u \in Queue
      /\ u.head = (IF i = 1 THEN n ELSE r.head) /\ u.tail = r.tail
      /\ u.prev[n] = b /\ u.prev[p] = NULL
      /\ \A x \in Pcb : x # n /\ x # p => u.prev[x] = r.prev[x]
      /\ i > 1 => u.next[b] = n
      /\ \A x \in Pcb : x # b /\ x # p => u.next[x] = r.next[x]
  <2>1. CASE i = 1
    <3> DEFINE v == [r EXCEPT !.head = n, !.prev[n] = NULL]
    <3>1. u = [v EXCEPT !.next[p] = NULL, !.prev[p] = NULL]
      BY <2>1, <1>3, <1>4 DEF u, n, b, ReleaseLinks
    <3>2. /\ v \in Queue /\ v.head = n /\ v.tail = r.tail
          /\ v.next = r.next /\ v.prev = [r.prev EXCEPT ![n] = NULL]
      BY <1>3 DEF Queue, PcbPtr
    <3> HIDE DEF v
    <3>3. /\ u \in Queue /\ u.head = v.head /\ u.tail = v.tail
          /\ u.next = [v.next EXCEPT ![p] = NULL]
          /\ u.prev = [v.prev EXCEPT ![p] = NULL]
      BY <3>1, <3>2, <1>3 DEF Queue, PcbPtr
    <3> QED
      BY <3>2, <3>3, <2>1, <1>3, <1>4 DEF Queue
  <2>2. CASE i > 1
    <3> DEFINE v == [r EXCEPT !.prev[n] = b, !.next[b] = n]
    <3>1. u = [v EXCEPT !.next[p] = NULL, !.prev[p] = NULL]
      BY <2>2, <1>3, <1>4 DEF u, n, b, ReleaseLinks
    <3>2. /\ v \in Queue /\ v.head = r.head /\ v.tail = r.tail
          /\ v.next = [r.next EXCEPT ![b] = n]
          /\ v.prev = [r.prev EXCEPT ![n] = b]
      BY <2>2, <1>3, <1>4 DEF Queue, PcbPtr
    <3> HIDE DEF v
    <3>3. /\ u \in Queue /\ u.head = v.head /\ u.tail = v.tail
          /\ u.next = [v.next EXCEPT ![p] = NULL]
          /\ u.prev = [v.prev EXCEPT ![p] = NULL]
      BY <3>1, <3>2, <1>3 DEF Queue, PcbPtr
    <3> QED
      BY <3>2, <3>3, <2>2, <1>2, <1>3, <1>4 DEF Queue
  <2> QED
    BY <2>1, <2>2, <1>2
<1>7. r.head = s[1] /\ r.tail = s[Len(s)]
  BY <1>2 DEF Represents
<1>8. u.head = t[1] /\ u.tail = t[Len(t)] /\ u.prev[t[1]] = NULL
  <2>1. t[Len(t)] = s[Len(s)]
    BY <1>1, <1>2
  <2>2. CASE i = 1
    <3>1. t[1] = s[2] /\ n = s[2]
      BY <2>2, <1>1, <1>2, <1>3
    <3> QED
      BY <2>1, <2>2, <3>1, <1>4, <1>6, <1>7
  <2>3. CASE i > 1
    <3>1. t[1] = s[1] /\ s[1] # n /\ s[1] # p /\ s[1] \in Pcb
      BY <2>3, <1>1, <1>2, <1>3 DEF p
    <3>2. r.prev[s[1]] = NULL
      BY <1>2 DEF Represents
    <3> QED
      BY <2>1, <2>3, <3>1, <3>2, <1>6, <1>7
  <2> QED
    BY <2>2, <2>3, <1>2
<1>9. ASSUME NEW j \in 1 .. Len(t) - 1
      PROVE  u.next[t[j]] = t[j + 1]
  <2>1. CASE j < i - 1
    <3>1. /\ t[j] = s[j] /\ t[j + 1] = s[j + 1]
          /\ s[j] # p /\ s[j] \in Pcb /\ s[j] # b
      BY <2>1, <1>1, <1>2, <1>4 DEF p
    <3>2. r.next[s[j]] = s[j + 1]
      BY <2>1, <1>2 DEF Represents
    <3> QED
      BY <3>1, <3>2, <1>6
  <2>2. CASE j = i - 1
    BY <2>2, <1>1, <1>2, <1>3, <1>4, <1>6
  <2>3. CASE j > i - 1
    <3>1. /\ t[j] = s[j + 1] /\ t[j + 1] = s[(j + 1) + 1]
          /\ s[j + 1] # p /\ s[j + 1] \in Pcb /\ s[j + 1] # b
      BY <2>3, <1>1, <1>2, <1>4, NullAssumption, SMTT(30) DEF p
    <3>2. r.next[s[j + 1]] = s[(j + 1) + 1]
      BY <2>3, <1>1, <1>2 DEF Represents
    <3> QED
      BY <3>1, <3>2, <1>6
  <2> QED
    BY <2>1, <2>2, <2>3, <1>1, <1>2
<1>10. ASSUME NEW j \in 2 .. Len(t)
       PROVE  u.prev[t[j]] = t[j - 1]
  <2>1. CASE j < i
    <3>1. /\ t[j] = s[j] /\ t[j - 1] = s[j - 1]
          /\ s[j] # p /\ s[j] \in Pcb /\ s[j] # n
      BY <2>1, <1>1, <1>2, <1>3 DEF p
    <3>2. r.prev[s[j]] = s[j - 1]
      BY <2>1, <1>2 DEF Represents
    <3> QED
      BY <3>1, <3>2, <1>6
  <2>2. CASE j = i
    BY <2>2, <1>1, <1>2, <1>3, <1>4, <1>6
  <2>3. CASE j > i
    <3>1. /\ t[j] = s[j + 1] /\ t[j - 1] = s[j]
          /\ s[j + 1] # p /\ s[j + 1] \in Pcb /\ s[j + 1] # n
      BY <2>3, <1>1, <1>2, <1>3 DEF p
    <3>2. r.prev[s[j + 1]] = s[j]
      BY <2>3, <1>1, <1>2 DEF Represents
    <3> QED
      BY <3>1, <3>2, <1>6
  <2> QED
    BY <2>1, <2>2, <2>3, <1>1, <1>2
<1>11. ASSUME NEW x \in Pcb, \A j \in 1 .. Len(t) : t[j] # x
       PROVE  u.prev[x] = NULL
  <2>1. CASE x = p
    BY <2>1, <1>6
  <2>2. CASE x # p
    <3>1. ASSUME NEW j \in 1 .. Len(s)
          PROVE  s[j] # x
      <4>1. CASE j < i
        BY <4>1, <1>1, <1>2, <1>11
      <4>2. CASE j = i
        BY <4>2, <2>2 DEF p
      <4>3. CASE j > i
        <5>1. j - 1 \in 1 .. Len(t) /\ t[j - 1] = s[j]
          BY <4>3, <1>1, <1>2
        <5> QED
          BY <5>1, <1>11
      <4> QED
        BY <4>1, <4>2, <4>3, <1>2
    <3>2. x # n /\ r.prev[x] = NULL
      BY <3>1, <1>2, <1>3 DEF Represents
    <3> QED
      BY <3>2, <2>2, <1>6
  <2> QED
    BY <2>1, <2>2
<1>12. Represents(u, t)
  <2>1. t # <<>>
    BY <1>1, <1>2
  <2> QED
    BY <2>1, <1>8, <1>9, <1>10, <1>11 DEF Represents
<1>13. ASSUME NEW x \in Pcb, \A j \in 1 .. Len(s) : s[j] # x
       PROVE  u.next[x] = r.next[x]
  <2>1. x # p /\ x # b
    BY <1>13, <1>2, <1>4, NullAssumption DEF p
  <2> QED
    BY <2>1, <1>6
<1> QED
  BY <1>5, <1>6, <1>12, <1>13 DEF p, t, u

\* releasePCB of the last PCB of a list, which leads to nobody, takes it out.
LEMMA ReleaseLinksRemovesLast ==
  ASSUME NEW r \in Queue, NEW s \in Seq(Pcb), Len(s) > 1,
         Represents(r, s), NoDuplicates(s), r.next[s[Len(s)]] = NULL
  PROVE  LET t == RemoveAt(s, Len(s))
             u == ReleaseLinks(r, s[Len(s)])
         IN  /\ u \in Queue /\ Represents(u, t) /\ NoDuplicates(t)
             /\ \A x \in Pcb : (\A j \in 1 .. Len(s) : s[j] # x) =>
                  u.next[x] = r.next[x]
<1> DEFINE m == Len(s)
           p == s[m]
           b == s[m - 1]
           t == RemoveAt(s, m)
           u == ReleaseLinks(r, p)
<1>1. /\ m \in Nat /\ m > 1 /\ m \in 1 .. Len(s)
      /\ \A j \in 1 .. m : s[j] \in Pcb /\ s[j] # NULL
      /\ \A j, k \in 1 .. m : s[j] = s[k] => j = k
  BY NullAssumption DEF NoDuplicates
<1>2. t \in Seq(Pcb) /\ Len(t) = m - 1
  <2> HIDE DEF m, t
  <2>1. Len(RemoveAt(s, m)) = Len(s) - 1 /\ RemoveAt(s, m) \in Seq(Pcb)
    BY <1>1, RemoveAtElements
  <2> QED
    BY <2>1 DEF m, t
<1>3. \A j \in 1 .. m - 1 : t[j] = s[j]
  <2> HIDE DEF m, t
  <2>1. \A j \in 1 .. Len(s) - 1 :
          RemoveAt(s, m)[j] = IF j < m THEN s[j] ELSE s[j + 1]
    BY <1>1, RemoveAtElements
  <2>2. \A j \in 1 .. m - 1 : j < m
    BY <1>1
  <2> QED
    BY <2>1, <2>2 DEF m, t
<1>4. /\ r.prev[p] = b /\ r.next[p] = NULL /\ r.tail = p /\ r.head = s[1]
      /\ p \in Pcb /\ b \in Pcb /\ b # NULL /\ b # p
  <2>1. m \in 2 .. Len(s) /\ m - 1 \in 1 .. m /\ m - 1 # m /\ s # <<>>
    BY <1>1
  <2> QED
    BY <1>1, <2>1 DEF Represents
<1> HIDE DEF m, p, b, t, u
<1>5. /\ u \in Queue /\ u.head = r.head /\ u.tail = b
      /\ u.next = [[r.next EXCEPT ![b] = NULL] EXCEPT ![p] = NULL]
      /\ u.prev = [r.prev EXCEPT ![p] = NULL]
  <2> DEFINE v == [r EXCEPT !.tail = b, !.next[b] = NULL]
  <2>1. u = [v EXCEPT !.next[p] = NULL, !.prev[p] = NULL]
    BY <1>4 DEF u, ReleaseLinks
  <2>2. /\ v \in Queue /\ v.head = r.head /\ v.tail = b
        /\ v.next = [r.next EXCEPT ![b] = NULL] /\ v.prev = r.prev
    BY <1>4 DEF Queue, PcbPtr
  <2> HIDE DEF v
  <2>3. /\ u \in Queue /\ u.head = v.head /\ u.tail = v.tail
        /\ u.next = [v.next EXCEPT ![p] = NULL]
        /\ u.prev = [v.prev EXCEPT ![p] = NULL]
    BY <2>1, <2>2, <1>4 DEF Queue, PcbPtr
  <2> QED
    BY <2>2, <2>3
<1>6. NoDuplicates(t)
  BY <1>1, <1>2, <1>3 DEF NoDuplicates
<1>7. ASSUME NEW i \in 1 .. Len(t) - 1 PROVE u.next[t[i]] = t[i + 1]
  <2>1. /\ i \in 1 .. Len(s) - 1 /\ i + 1 \in 1 .. m - 1 /\ i \in 1 .. m - 1
        /\ i # m - 1 /\ i # m /\ i \in 1 .. m /\ m - 1 \in 1 .. m
    BY <1>1, <1>2 DEF m
  <2>2. s[i] # b /\ s[i] # p /\ r.next[s[i]] = s[i + 1] /\ s[i] \in Pcb
    BY <1>1, <2>1 DEF b, p, Represents
  <2> QED
    BY <1>3, <1>5, <2>1, <2>2 DEF Queue
<1>8. ASSUME NEW i \in 2 .. Len(t) PROVE u.prev[t[i]] = t[i - 1]
  <2>1. /\ i \in 2 .. Len(s) /\ i \in 1 .. m - 1 /\ i - 1 \in 1 .. m - 1
        /\ i # m /\ i \in 1 .. m
    BY <1>1, <1>2 DEF m
  <2>2. s[i] # p /\ r.prev[s[i]] = s[i - 1] /\ s[i] \in Pcb
    BY <1>1, <2>1 DEF p, Represents
  <2> QED
    BY <1>3, <1>5, <2>1, <2>2 DEF Queue
<1>9. /\ t # <<>> /\ u.head = t[1] /\ u.tail = t[Len(t)] /\ u.prev[t[1]] = NULL
  <2>1. /\ 1 \in 1 .. m - 1 /\ m - 1 \in 1 .. m - 1 /\ 1 \in 1 .. m /\ 1 # m
        /\ Len(t) # 0
    BY <1>1, <1>2
  <2>2. t # <<>>
    BY <2>1, <1>2
  <2>3. s # <<>> /\ r.prev[s[1]] = NULL /\ s[1] # p /\ s[1] \in Pcb
    BY <1>1, <2>1 DEF Represents, p, m
  <2> QED
    BY <1>2, <1>3, <1>4, <1>5, <2>1, <2>2, <2>3 DEF b, Queue
<1>10. ASSUME NEW x \in Pcb, \A i \in 1 .. Len(t) : t[i] # x
       PROVE  u.prev[x] = NULL
  <2>1. CASE x = p
    BY <1>4, <1>5, <2>1 DEF Queue
  <2>2. CASE x # p
    <3>1. ASSUME NEW i \in 1 .. Len(s) PROVE s[i] # x
      <4>1. i = m \/ i \in 1 .. m - 1
        BY <1>1 DEF m
      <4> QED
        BY <1>2, <1>3, <1>10, <2>2, <4>1 DEF p
    <3>2. r.prev[x] = NULL
      BY <3>1 DEF Represents
    <3> QED
      BY <1>5, <2>2, <3>2 DEF Queue
  <2> QED
    BY <2>1, <2>2
<1>11. Represents(u, t)
  BY <1>7, <1>8, <1>9, <1>10 DEF Represents
<1>12. ASSUME NEW x \in Pcb, \A j \in 1 .. Len(s) : s[j] # x
       PROVE  u.next[x] = r.next[x]
  <2>1. m - 1 \in 1 .. m /\ x # p /\ x # b
    BY <1>1, <1>12 DEF p, b, m
  <2> QED
    BY <1>5, <2>1 DEF Queue
<1> QED
  BY <1>5, <1>6, <1>11, <1>12 DEF t, u, p, m

\* releasePCB of a PCB outside the list changes nothing of the list when the
\* stale next link of that PCB leads to the head.
LEMMA ReleaseLinksKeepsList ==
  ASSUME NEW r \in Queue, NEW s \in Seq(Pcb), s # <<>>, NEW p \in Pcb,
         Represents(r, s), \A j \in 1 .. Len(s) : s[j] # p,
         r.next[p] = s[1]
  PROVE  /\ ReleaseLinks(r, p) \in Queue
         /\ Represents(ReleaseLinks(r, p), s)
<1> DEFINE n == r.next[p]
           v == [r EXCEPT !.head = n, !.prev[n] = NULL]
           u == ReleaseLinks(r, p)
<1>1. /\ Len(s) \in Nat /\ Len(s) > 0
      /\ \A j \in 1 .. Len(s) : s[j] \in Pcb /\ s[j] # NULL
  BY NullAssumption
<1>2. /\ n = s[1] /\ n \in Pcb /\ n # NULL
      /\ r.prev[p] = NULL /\ r.head = s[1] /\ r.prev[n] = NULL
  BY <1>1 DEF Represents
<1> HIDE DEF n
<1>3. u = [v EXCEPT !.next[p] = NULL, !.prev[p] = NULL]
  BY <1>2 DEF ReleaseLinks, n
<1>4. /\ v \in Queue /\ v.head = r.head /\ v.tail = r.tail
      /\ v.next = r.next /\ v.prev = [r.prev EXCEPT ![n] = NULL]
  BY <1>2 DEF Queue, PcbPtr
<1> HIDE DEF v, u
<1>5. /\ u \in Queue /\ u.head = r.head /\ u.tail = r.tail
      /\ u.next = [r.next EXCEPT ![p] = NULL]
      /\ \A x \in Pcb : u.prev[x] = r.prev[x]
  <2>1. /\ u \in Queue /\ u.head = v.head /\ u.tail = v.tail
        /\ u.next = [v.next EXCEPT ![p] = NULL]
        /\ u.prev = [v.prev EXCEPT ![p] = NULL]
    BY <1>3, <1>4 DEF Queue, PcbPtr
  <2> QED
    BY <2>1, <1>2, <1>4 DEF Queue
<1>6. \A j \in 1 .. Len(s) - 1 : u.next[s[j]] = s[j + 1]
  BY <1>1, <1>5 DEF Represents, Queue
<1>7. \A j \in 1 .. Len(s) : u.prev[s[j]] = r.prev[s[j]]
  BY <1>1, <1>5
<1>8. Represents(u, s)
  BY <1>1, <1>5, <1>6, <1>7 DEF Represents
<1> QED
  BY <1>5, <1>8 DEF u

-----------------------------------------------------------------------------
(* The contents of a list.                                                 *)

\* A list without repetition is no longer than the pool.
LEMMA LengthBound ==
  ASSUME IsFiniteSet(Pcb), NEW s \in Seq(Pcb), NoDuplicates(s)
  PROVE  Len(s) <= Cardinality(Pcb)
<1>1. /\ Len(s) \in Nat /\ IsFiniteSet(1 .. Len(s))
      /\ Cardinality(1 .. Len(s)) = Len(s)
  BY CountToN
<1>2. s \in Injection(1 .. Len(s), Pcb)
  BY DEF NoDuplicates, Injection, IsInjective
<1> QED
  BY <1>1, <1>2, FS_Injection

\* Following the links from readyHead finds the sequence the list represents:
\* the chain agrees with it everywhere, because there is no least position
\* where it does not.
LEMMA ContentsOfList ==
  ASSUME IsFiniteSet(Pcb), NEW r \in Queue, NEW s \in Seq(Pcb),
         Represents(r, s), NoDuplicates(s)
  PROVE  Contents(r) = s
<1> DEFINE N == Cardinality(Pcb)
           F(f) == [k \in 1 .. N |->
                     IF k = 1 THEN r.head
                     ELSE IF f[k - 1] \in {NULL, r.tail} THEN NULL
                     ELSE r.next[f[k - 1]]]
           g == [k \in 1 .. N |-> IF k <= Len(s) THEN s[k] ELSE NULL]
           chain == CHOOSE f : f = F(f)
<1>1. /\ N \in Nat /\ Len(s) \in Nat /\ Len(s) <= N
      /\ \A i \in 1 .. Len(s) : s[i] \in Pcb /\ s[i] # NULL
      /\ s = <<>> <=> Len(s) = 0
  BY LengthBound, FS_CardinalityType, NullAssumption, EmptySeq
<1> HIDE DEF N
<1>2. g = F(g)
  <2>1. ASSUME NEW k \in 1 .. N
        PROVE  g[k] = F(g)[k]
    <3>1. CASE k = 1
      BY <3>1, <1>1 DEF Represents
    <3>2. CASE k # 1 /\ k - 1 > Len(s)
      <4>1. k - 1 \in 1 .. N /\ g[k - 1] = NULL /\ g[k] = NULL
        BY <3>2, <1>1
      <4> QED
        BY <3>2, <4>1
    <3>3. CASE k # 1 /\ k - 1 = Len(s)
      <4>1. k - 1 \in 1 .. N /\ g[k - 1] = r.tail /\ g[k] = NULL
        BY <3>3, <1>1 DEF Represents
      <4> QED
        BY <3>3, <4>1
    <3>4. CASE k # 1 /\ k - 1 < Len(s)
      <4>1. /\ k - 1 \in 1 .. N /\ k - 1 \in 1 .. Len(s) - 1
            /\ g[k - 1] = s[k - 1] /\ g[k] = s[k]
        BY <3>4, <1>1
      <4>2. s[k - 1] # s[Len(s)] /\ r.tail = s[Len(s)] /\ s[k - 1] # NULL
        BY <3>4, <4>1, <1>1 DEF Represents, NoDuplicates
      <4>3. r.next[s[k - 1]] = s[k]
        BY <4>1, <1>1 DEF Represents
      <4> QED
        BY <3>4, <4>1, <4>2, <4>3
    <3> QED
      BY <3>1, <3>2, <3>3, <3>4, <1>1
  <2> QED
    BY <2>1
<1>3. chain = F(chain)
  <2> HIDE DEF F, g
  <2> QED
    BY <1>2
<1>4. chain = g
  <2> DEFINE D == {k \in 1 .. N : chain[k] # g[k]}
  <2>1. ASSUME D # {}
        PROVE  FALSE
    <3>1. PICK m \in D : \A k \in D : m <= k
      <4>1. D \in SUBSET Nat
        BY <1>1
      <4> HIDE DEF D
      <4> QED
        BY <2>1, <4>1, LeastNatural
    <3>2. m \in 1 .. N /\ chain[m] = F(chain)[m] /\ g[m] = F(g)[m]
      BY <1>2, <1>3
    <3>3. m = 1 \/ (m - 1 \in 1 .. N /\ chain[m - 1] = g[m - 1])
      BY <3>1, <1>1
    <3>4. F(chain)[m] = F(g)[m]
      <4> HIDE DEF chain, g
      <4> QED
        BY <3>2, <3>3
    <3> QED
      BY <3>1, <3>2, <3>4
  <2>2. chain = [k \in 1 .. N |-> chain[k]] /\ g = [k \in 1 .. N |-> g[k]]
    <3>1. chain = [k \in 1 .. N |-> chain[k]]
      <4> HIDE DEF chain
      <4> QED
        BY <1>3
    <3> QED
      BY <3>1
  <2>3. \A k \in 1 .. N : chain[k] = g[k]
    BY <2>1
  <2> HIDE DEF chain, g
  <2> QED
    BY <2>2, <2>3
<1>5. {k \in 1 .. N : g[k] # NULL} = 1 .. Len(s)
  BY <1>1
<1>6. Cardinality(1 .. Len(s)) = Len(s)
  BY <1>1, CountToN
<1>7. Contents(r) = [k \in 1 .. Cardinality({k \in 1 .. N : chain[k] # NULL}) |-> chain[k]]
  BY DEF Contents, N, chain, F
<1>8. Contents(r) = [k \in 1 .. Len(s) |-> g[k]]
  <2> HIDE DEF chain, g
  <2> QED
    BY <1>4, <1>5, <1>6, <1>7
<1> QED
  BY <1>1, <1>8
=============================================================================
