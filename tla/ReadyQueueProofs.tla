-------------------------- MODULE ReadyQueueProofs --------------------------
(***************************************************************************)
(* Proofs about ReadyQueue, for every pool of PCBs.  The invariant is      *)
(* inductive because the three parts of IInv need each other: the list     *)
(* stays a list only if what is released is followed by someone, ends the  *)
(* list or leads to the head.                                              *)
(***************************************************************************)
EXTENDS ReadyQueue, ProcQueueProofs

-----------------------------------------------------------------------------
(* The invariant.                                                          *)

\* The empty list represents the empty sequence.
LEMMA InitIInv == Init => IInv
<1> SUFFICES ASSUME Init PROVE IInv
  OBVIOUS
<1>1. TypeOK
  BY DEF Init, TypeOK, EmptyQueue, Queue, PcbPtr
<1>2. ListIntact
  <2>1. Len(fifo) = 0 /\ fifo = <<>>
    BY DEF Init
  <2> QED
    BY <2>1 DEF Init, ListIntact, Represents, NoDuplicates, EmptyQueue
<1>3. LastLeadsToHead
  BY DEF Init, LastLeadsToHead
<1> QED
  BY <1>1, <1>2, <1>3 DEF IInv

\* Every call of addToReady, removeFromReady and releasePCB keeps it.
LEMMA NextIInv == IInv /\ [Next]_vars => IInv'
<1> SUFFICES ASSUME IInv, [Next]_vars PROVE IInv'
  OBVIOUS
<1> USE DEF IInv
<1>0. /\ q \in Queue /\ out \in PcbPtr /\ fifo \in Seq(Pcb) /\ last \in PcbPtr
      /\ Represents(q, fifo) /\ NoDuplicates(fifo)
      /\ Len(fifo) \in Nat
      /\ \A i \in 1 .. Len(fifo) : fifo[i] \in Pcb
  BY DEF TypeOK, ListIntact
<1>1. ASSUME NEW p \in Pcb, Enqueue(p)
      PROVE  IInv'
  <2>1. \A i \in 1 .. Len(fifo) : fifo[i] # p
    BY <1>1 DEF Enqueue, Queued
  <2>2. /\ q' \in Queue /\ Represents(q', fifo') /\ NoDuplicates(fifo')
        /\ fifo' \in Seq(Pcb)
    BY <1>0, <1>1, <2>1, AddToReadyAppends, AppendElements DEF Enqueue
  <2>3. TypeOK' /\ ListIntact'
    BY <1>0, <1>1, <2>2 DEF Enqueue, TypeOK, ListIntact, PcbPtr
  <2>4. ASSUME last' # NULL
        PROVE  fifo' # <<>> /\ ~Queued(last)' /\ q'.next[last'] = fifo'[1]
    <3>1. /\ last' = last /\ last # p /\ last \in Pcb /\ fifo # <<>>
          /\ ~Queued(last) /\ q.next[last] = fifo[1]
      BY <2>4, <1>0, <1>1 DEF Enqueue, LastLeadsToHead, PcbPtr
    <3>2. /\ fifo' # <<>> /\ fifo'[1] = fifo[1] /\ Len(fifo') = Len(fifo) + 1
          /\ \A j \in 1 .. Len(fifo) : fifo'[j] = fifo[j]
          /\ fifo'[Len(fifo) + 1] = p
      BY <1>0, <1>1, <3>1, AppendElements, EmptySeq DEF Enqueue
    <3>3. ~Queued(last)'
      BY <1>0, <3>1, <3>2 DEF Queued
    <3>4. q.head # NULL /\ q.tail # last /\ ~AddFaults(q)
      BY <1>0, <3>1, NullAssumption, EmptySeq DEF Represents, Queued, AddFaults
    <3>5. q'.next = [q.next EXCEPT ![q.tail] = p]
      BY <1>0, <1>1, <3>4, AddToReadyFields DEF Enqueue
    <3>6. q'.next[last] = q.next[last]
      BY <1>0, <3>1, <3>4, <3>5 DEF Queue
    <3> QED
      BY <3>1, <3>2, <3>3, <3>6
  <2> QED
    BY <2>3, <2>4 DEF LastLeadsToHead
<1>2. CASE Dequeue
  <2>1. fifo # <<>> /\ Len(fifo) > 0 /\ fifo[1] \in Pcb /\ Head(fifo) = fifo[1]
    BY <1>0, <1>2, TailElements DEF Dequeue
  <2>2. /\ out' = fifo[1] /\ q' \in Queue
        /\ Represents(q', fifo') /\ NoDuplicates(fifo')
        /\ \A i \in 1 .. Len(fifo') : fifo'[i] # fifo[1]
        /\ Len(fifo) > 1 => q'.next[fifo[1]] = fifo'[1]
    BY <1>0, <1>2, RemoveFromReadyTakesHead DEF Dequeue
  <2>3. /\ fifo' \in Seq(Pcb)
        /\ Len(fifo') = Len(fifo) - 1
    BY <1>0, <1>2, <2>1, TailElements DEF Dequeue
  <2>4. TypeOK' /\ ListIntact'
    BY <1>0, <1>2, <2>1, <2>2, <2>3 DEF Dequeue, TypeOK, ListIntact, PcbPtr
  <2>5. LastLeadsToHead'
    <3>1. CASE Len(fifo) > 1
      <4>1. last' = fifo[1]
        BY <3>1, <1>2, <2>1 DEF Dequeue
      <4>2. fifo' # <<>>
        BY <3>1, <1>0, <2>3, EmptySeq
      <4> QED
        BY <3>1, <4>1, <4>2, <2>2 DEF LastLeadsToHead, Queued
    <3>2. CASE ~(Len(fifo) > 1)
      BY <3>2, <1>2 DEF Dequeue, LastLeadsToHead
    <3> QED
      BY <3>1, <3>2
  <2> QED
    BY <2>4, <2>5
<1>3. CASE DequeueEmpty
  <2>1. q.head = NULL
    BY <1>0, <1>3 DEF DequeueEmpty, Represents
  <2>2. q' = q /\ out' = NULL /\ fifo' = fifo /\ last' = NULL
    BY <1>3, <2>1 DEF DequeueEmpty, RemoveFromReady, RemovedFromReady
  <2> QED
    BY <1>0, <2>2 DEF TypeOK, ListIntact, LastLeadsToHead, PcbPtr
<1>4. ASSUME NEW i \in 1 .. Len(fifo), ReleaseQueued(i)
      PROVE  IInv'
  <2> DEFINE p == fifo[i]
  <2>1. /\ q' \in Queue /\ Represents(q', fifo') /\ NoDuplicates(fifo')
        /\ \A x \in Pcb : (\A j \in 1 .. Len(fifo) : fifo[j] # x) =>
             q'.next[x] = q.next[x]
    <3>1. q' = ReleaseLinks(q, p) /\ fifo' = RemoveAt(fifo, i)
      BY <1>4 DEF ReleaseQueued
    <3>2. CASE i < Len(fifo)
      BY <1>0, <3>1, <3>2, ReleaseLinksRemoves
    <3>3. CASE ~(i < Len(fifo))
      <4>1. i = Len(fifo) /\ Len(fifo) > 1 /\ q.next[fifo[Len(fifo)]] = NULL
        BY <1>0, <1>4, <3>3 DEF ReleaseQueued
      <4> QED
        BY <1>0, <3>1, <4>1, ReleaseLinksRemovesLast
    <3> QED
      BY <3>2, <3>3
  <2>2. /\ fifo' \in Seq(Pcb) /\ Len(fifo') = Len(fifo) - 1 /\ Len(fifo) > 1
        /\ \A j \in 1 .. Len(fifo) - 1 :
             fifo'[j] = IF j < i THEN fifo[j] ELSE fifo[j + 1]
    BY <1>0, <1>4, RemoveAtElements DEF ReleaseQueued
  <2>3. TypeOK' /\ ListIntact'
    BY <1>0, <1>4, <2>1, <2>2 DEF ReleaseQueued, TypeOK, ListIntact, PcbPtr
  <2>4. ASSUME last' # NULL
        PROVE  fifo' # <<>> /\ ~Queued(last)' /\ q'.next[last'] = fifo'[1]
    <3>1. /\ last' = last /\ last \in Pcb /\ i > 1
          /\ ~Queued(last) /\ q.next[last] = fifo[1]
      BY <2>4, <1>0, <1>4 DEF ReleaseQueued, LastLeadsToHead, PcbPtr
    <3>2. fifo' # <<>> /\ fifo'[1] = fifo[1]
      BY <1>0, <2>2, <3>1, EmptySeq
    <3>3. ~Queued(last)'
      BY <1>0, <2>2, <3>1 DEF Queued
    <3>4. q'.next[last] = q.next[last]
      BY <2>1, <3>1 DEF Queued
    <3> QED
      BY <3>1, <3>2, <3>3, <3>4
  <2> QED
    BY <2>3, <2>4 DEF LastLeadsToHead
<1>5. CASE ReleaseDispatched
  <2>1. /\ last \in Pcb /\ fifo # <<>> /\ q.next[last] = fifo[1]
        /\ \A j \in 1 .. Len(fifo) : fifo[j] # last
    BY <1>0, <1>5 DEF ReleaseDispatched, LastLeadsToHead, Queued, PcbPtr
  <2>2. q' \in Queue /\ Represents(q', fifo)
    BY <1>0, <1>5, <2>1, ReleaseLinksKeepsList DEF ReleaseDispatched
  <2> QED
    BY <1>0, <1>5, <2>2
    DEF ReleaseDispatched, TypeOK, ListIntact, LastLeadsToHead, PcbPtr
<1>6. CASE UNCHANGED vars
  BY <1>6 DEF vars, TypeOK, ListIntact, LastLeadsToHead, Queued
<1> QED
  BY <1>1, <1>2, <1>3, <1>4, <1>5, <1>6 DEF Next

\* The inductive invariant holds in every reachable state.
THEOREM Invariance == Spec => []IInv
BY InitIInv, NextIInv, PTL DEF Spec

\* TypeOK: the links always point to PCBs of the pool or are NULL.
THEOREM TypeCorrect == Spec => []TypeOK
<1>1. IInv => TypeOK
  BY DEF IInv
<1> QED
  BY <1>1, Invariance, PTL

\* ListIntact: however many PCBs the pool has, no sequence of the calls
\* modelled loses, duplicates or reorders a queued process.
THEOREM ListStaysIntact == Spec => []ListIntact
<1>1. IInv => ListIntact
  BY DEF IInv
<1> QED
  BY <1>1, Invariance, PTL

\* LastLeadsToHead: releasing the PCB dequeued last is harmless.
THEOREM LastAlwaysLeadsToHead == Spec => []LastLeadsToHead
<1>1. IInv => LastLeadsToHead
  BY DEF IInv
<1> QED
  BY <1>1, Invariance, PTL

\* NoNullDereference: the functions of proc.c never follow a NULL pointer.
THEOREM NeverFaults == Spec => []NoNullDereference
<1>1. IInv => NoNullDereference
  <2> SUFFICES ASSUME IInv PROVE NoNullDereference
    OBVIOUS
  <2>0. /\ q \in Queue /\ fifo \in Seq(Pcb)
        /\ Represents(q, fifo) /\ NoDuplicates(fifo)
        /\ Len(fifo) \in Nat
        /\ \A i \in 1 .. Len(fifo) : fifo[i] \in Pcb
    BY DEF IInv, TypeOK, ListIntact
  <2>1. CASE fifo = <<>>
    BY <2>0, <2>1 DEF Represents, NoNullDereference, AddFaults, RemoveFaults
  <2>2. CASE fifo # <<>>
    <3>1. ~RemoveFaults(q)
      BY <2>0, <2>2, RemoveFromReadyTakesHead
    <3>2. ~AddFaults(q)
      BY <2>0, <2>2, NullAssumption, EmptySeq DEF Represents, AddFaults
    <3> QED
      BY <3>1, <3>2 DEF NoNullDereference
  <2> QED
    BY <2>1, <2>2
<1> QED
  BY <1>1, Invariance, PTL

-----------------------------------------------------------------------------
(* The refinement.                                                         *)

\* ImplementsFifo: what removeFromReady returns is what a first-in first-out
\* queue would return, call for call.
THEOREM Refinement == Spec => ImplementsFifo
<1>1. Init => F!Init
  BY DEF Init, F!Init
<1>2. IInv /\ [Next]_vars => [F!Next]_(F!vars)
  <2> SUFFICES ASSUME IInv, [Next]_vars PROVE [F!Next]_(F!vars)
    OBVIOUS
  <2>0. /\ q \in Queue /\ fifo \in Seq(Pcb)
        /\ Represents(q, fifo) /\ NoDuplicates(fifo)
    BY DEF IInv, TypeOK, ListIntact
  <2>1. ASSUME NEW p \in Pcb, Enqueue(p)
        PROVE  F!Enqueue(p)
    BY <2>1 DEF Enqueue, F!Enqueue, Queued, F!Queued
  <2>2. ASSUME Dequeue
        PROVE  F!Dequeue
    <3>1. RemovedFromReady(q) = Head(fifo)
      BY <2>0, <2>2, RemoveFromReadyTakesHead, TailElements DEF Dequeue
    <3> QED
      BY <2>2, <3>1 DEF Dequeue, F!Dequeue
  <2>3. ASSUME DequeueEmpty
        PROVE  F!DequeueEmpty
    <3>1. RemovedFromReady(q) = NULL
      BY <2>0, <2>3 DEF DequeueEmpty, Represents, RemovedFromReady
    <3> QED
      BY <2>3, <3>1 DEF DequeueEmpty, F!DequeueEmpty
  <2>4. ASSUME NEW i \in 1 .. Len(fifo), ReleaseQueued(i)
        PROVE  F!Delete(i)
    BY <2>4 DEF ReleaseQueued, F!Delete, RemoveAt, F!RemoveAt
  <2>5. ASSUME ReleaseDispatched
        PROVE  UNCHANGED F!vars
    BY <2>5 DEF ReleaseDispatched, F!vars
  <2>6. ASSUME UNCHANGED vars
        PROVE  UNCHANGED F!vars
    BY <2>6 DEF vars, F!vars
  <2> QED
    BY <2>1, <2>2, <2>3, <2>4, <2>5, <2>6 DEF Next, F!Next
<1> QED
  BY <1>1, <1>2, Invariance, PTL DEF Spec, ImplementsFifo, F!Spec
=============================================================================
