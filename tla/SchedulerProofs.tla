-------------------------- MODULE SchedulerProofs --------------------------
(***************************************************************************)
(* Proofs about Scheduler, for every pool of PCBs and every set of         *)
(* segments.  TypeOK, ReadyExact, OneRunning and SegmentExclusive are      *)
(* inductive only together: a process may be queued because it is not in   *)
(* the queue yet, which ReadyExact gives from its state, and its state is  *)
(* known because it is the running one, which OneRunning gives.            *)
(***************************************************************************)
EXTENDS Scheduler, TLAPS

-----------------------------------------------------------------------------
(* Sequences without repetition.                                           *)

Distinct(s) == \A i, j \in 1 .. Len(s) : s[i] = s[j] => i = j

Member(s, x) == \E i \in 1 .. Len(s) : s[i] = x

\* Appending an element that is not there adds it and keeps the others apart.
LEMMA AppendDistinct ==
  ASSUME NEW T, NEW s \in Seq(T), NEW x \in T, Distinct(s), ~Member(s, x)
  PROVE  /\ Append(s, x) \in Seq(T)
         /\ Append(s, x) # <<>>
         /\ Distinct(Append(s, x))
         /\ \A y : Member(Append(s, x), y) <=> Member(s, y) \/ y = x
<1> DEFINE t == Append(s, x)
<1>1. /\ t \in Seq(T) /\ Len(t) = Len(s) + 1 /\ Len(s) \in Nat /\ t # <<>>
      /\ \A j \in 1 .. Len(s) : t[j] = s[j]
      /\ t[Len(s) + 1] = x
  OBVIOUS
<1> HIDE DEF t
<1>2. Distinct(t)
  BY <1>1 DEF Distinct, Member
<1>3. ASSUME NEW y
      PROVE  Member(t, y) <=> Member(s, y) \/ y = x
  BY <1>1 DEF Member
<1> QED
  BY <1>1, <1>2, <1>3 DEF t

\* Taking the head off removes it and nothing else.
LEMMA TailDistinct ==
  ASSUME NEW T, NEW s \in Seq(T), s # <<>>, Distinct(s)
  PROVE  /\ Tail(s) \in Seq(T)
         /\ Head(s) \in T
         /\ Member(s, Head(s))
         /\ Distinct(Tail(s))
         /\ \A y : Member(Tail(s), y) <=> Member(s, y) /\ y # Head(s)
<1> DEFINE t == Tail(s)
<1>1. /\ t \in Seq(T) /\ Len(t) = Len(s) - 1 /\ Len(s) \in Nat /\ Len(s) > 0
      /\ \A j \in 1 .. Len(s) - 1 : t[j] = s[j + 1]
      /\ Head(s) = s[1] /\ Head(s) \in T
  OBVIOUS
<1> HIDE DEF t
<1>2. ASSUME NEW i \in 1 .. Len(t), NEW j \in 1 .. Len(t), t[i] = t[j]
      PROVE  i = j
  <2>1. i + 1 \in 1 .. Len(s) /\ j + 1 \in 1 .. Len(s) /\ s[i + 1] = s[j + 1]
    BY <1>1, <1>2
  <2>2. i + 1 = j + 1
    BY <2>1 DEF Distinct
  <2> QED
    BY <2>2
<1>3. ASSUME NEW y
      PROVE  Member(t, y) <=> Member(s, y) /\ y # Head(s)
  <2>1. ASSUME NEW i \in 1 .. Len(t), t[i] = y
        PROVE  Member(s, y) /\ y # Head(s)
    <3>1. i + 1 \in 1 .. Len(s) /\ s[i + 1] = y /\ 1 \in 1 .. Len(s) /\ i + 1 # 1
      BY <1>1, <2>1
    <3> QED
      BY <3>1, <1>1 DEF Member, Distinct
  <2>2. ASSUME NEW i \in 1 .. Len(s), s[i] = y, y # Head(s)
        PROVE  Member(t, y)
    <3>1. i # 1
      BY <1>1, <2>2
    <3>2. i - 1 \in 1 .. Len(t) /\ t[i - 1] = s[i]
      BY <1>1, <3>1
    <3> QED
      BY <2>2, <3>2 DEF Member
  <2> QED
    BY <2>1, <2>2 DEF Member
<1> QED
  BY <1>1, <1>2, <1>3 DEF t, Distinct, Member

-----------------------------------------------------------------------------
(* The invariant.                                                          *)

\* The queue in the words of this module.
LEMMA ReadyExactMeans ==
  ReadyExact <=> /\ Distinct(ready)
                 /\ \A p \in Pcb : Member(ready, p)
                                   <=> state[p] \in {"STARTING", "READY"}
BY DEF ReadyExact, Distinct, Member, Queued

\* What a switch adds to the queue before it takes the head.
LEMMA RequeuedDistinct ==
  ASSUME IInv
  PROVE  /\ Requeued \in Seq(Pcb)
         /\ Distinct(Requeued)
         /\ \A p \in Pcb : Member(Requeued, p) <=>
              \/ state[p] \in {"STARTING", "READY"}
              \/ p = running /\ state[p] = "RUNNING"
<1>1. /\ ready \in Seq(Pcb) /\ Distinct(ready)
      /\ \A p \in Pcb : Member(ready, p) <=> state[p] \in {"STARTING", "READY"}
  BY ReadyExactMeans DEF IInv, TypeOK
<1>2. CASE running \in Pcb /\ state[running] = "RUNNING"
  <2>1. ~Member(ready, running)
    BY <1>1, <1>2
  <2>2. Requeued = Append(ready, running)
    BY <1>2 DEF Requeued
  <2> QED
    BY <1>1, <1>2, <2>1, <2>2, AppendDistinct
<1>3. CASE ~(running \in Pcb /\ state[running] = "RUNNING")
  <2>1. Requeued = ready
    BY <1>3 DEF Requeued
  <2> QED
    BY <1>1, <1>3, <2>1
<1> QED
  BY <1>2, <1>3

LEMMA InitIInv == Init => IInv
<1> SUFFICES ASSUME Init PROVE IInv
  OBVIOUS
<1>1. TypeOK
  BY DEF Init, TypeOK, State
<1>2. ReadyExact
  <2>1. Len(ready) = 0
    BY DEF Init
  <2> QED
    BY <2>1 DEF Init, ReadyExact, Queued
<1>3. OneRunning /\ SegmentExclusive
  BY IdleAssumption DEF Init, OneRunning, SegmentExclusive, Live
<1> QED
  BY <1>1, <1>2, <1>3 DEF IInv

LEMMA NextIInv == IInv /\ [Next]_vars => IInv'
<1> SUFFICES ASSUME IInv, [Next]_vars PROVE IInv'
  OBVIOUS
<1>0. /\ state \in [Pcb -> State] /\ home \in [Pcb -> Seg \cup {NoSeg}]
      /\ ready \in Seq(Pcb) /\ running \in Pcb \cup {Idle}
      /\ Distinct(ready)
      /\ \A p \in Pcb : Member(ready, p) <=> state[p] \in {"STARTING", "READY"}
      /\ OneRunning /\ SegmentExclusive
  BY ReadyExactMeans DEF IInv, TypeOK
<1>1. ASSUME NEW p \in Pcb, NEW s \in Seg, Launch(p, s)
      PROVE  IInv'
  <2>1. ~Member(ready, p)
    BY <1>0, <1>1 DEF Launch, Live
  <2>2. /\ ready' \in Seq(Pcb) /\ Distinct(ready')
        /\ \A y : Member(ready', y) <=> Member(ready, y) \/ y = p
    BY <1>0, <1>1, <2>1, AppendDistinct DEF Launch
  <2>3. TypeOK'
    BY <1>0, <1>1, <2>2 DEF Launch, TypeOK, State
  <2>4. ReadyExact'
    BY <1>0, <1>1, <2>2 DEF Launch, ReadyExact, Distinct, Member, Queued
  <2>5. OneRunning'
    BY <1>0, <1>1 DEF Launch, OneRunning
  <2>6. SegmentExclusive'
    BY <1>0, <1>1, NoSegAssumption DEF Launch, SegmentExclusive, Live
  <2> QED
    BY <2>3, <2>4, <2>5, <2>6 DEF IInv
<1>2. CASE Terminate
  <2>1. TypeOK'
    BY <1>0, <1>2 DEF Terminate, TypeOK, State
  <2>2. ReadyExact'
    BY <1>0, <1>2 DEF Terminate, ReadyExact, Distinct, Member, Queued
  <2>3. OneRunning'
    BY <1>0, <1>2 DEF Terminate, OneRunning
  <2>4. SegmentExclusive'
    BY <1>0, <1>2 DEF Terminate, SegmentExclusive, Live
  <2> QED
    BY <2>1, <2>2, <2>3, <2>4 DEF IInv
<1>3. CASE Sleep
  <2>1. TypeOK'
    BY <1>0, <1>3 DEF Sleep, TypeOK, State
  <2>2. ReadyExact'
    BY <1>0, <1>3 DEF Sleep, ReadyExact, Distinct, Member, Queued
  <2>3. OneRunning'
    BY <1>0, <1>3 DEF Sleep, OneRunning
  <2>4. SegmentExclusive'
    BY <1>0, <1>3 DEF Sleep, SegmentExclusive, Live
  <2> QED
    BY <2>1, <2>2, <2>3, <2>4 DEF IInv
<1>4. ASSUME NEW p \in Pcb, Wake(p)
      PROVE  IInv'
  <2>1. ~Member(ready, p)
    BY <1>0, <1>4 DEF Wake
  <2>2. /\ ready' \in Seq(Pcb) /\ Distinct(ready')
        /\ \A y : Member(ready', y) <=> Member(ready, y) \/ y = p
    BY <1>0, <1>4, <2>1, AppendDistinct DEF Wake
  <2>3. TypeOK'
    BY <1>0, <1>4, <2>2 DEF Wake, TypeOK, State
  <2>4. ReadyExact'
    BY <1>0, <1>4, <2>2 DEF Wake, ReadyExact, Distinct, Member, Queued
  <2>5. OneRunning'
    BY <1>0, <1>4 DEF Wake, OneRunning
  <2>6. SegmentExclusive'
    BY <1>0, <1>4 DEF Wake, SegmentExclusive, Live
  <2> QED
    BY <2>3, <2>4, <2>5, <2>6 DEF IInv
<1>5. CASE Switch
  <2> DEFINE h == Head(Requeued)
  <2>1. /\ Requeued \in Seq(Pcb) /\ Requeued # <<>> /\ Distinct(Requeued)
        /\ \A p \in Pcb : Member(Requeued, p) <=>
             \/ state[p] \in {"STARTING", "READY"}
             \/ p = running /\ state[p] = "RUNNING"
    BY <1>5, RequeuedDistinct DEF Switch
  <2>2. /\ running' = h /\ h \in Pcb /\ Member(Requeued, h)
        /\ ready' \in Seq(Pcb) /\ Distinct(ready')
        /\ \A y : Member(ready', y) <=> Member(Requeued, y) /\ y # h
    BY <1>5, <2>1, TailDistinct DEF Switch
  <2>3. state' = [p \in Pcb |->
                    IF p = h THEN "RUNNING"
                    ELSE IF p = running /\ state[p] = "RUNNING" THEN "READY"
                    ELSE state[p]]
        /\ home' = home
    BY <1>5 DEF Switch
  <2> HIDE DEF h
  <2>4. TypeOK'
    BY <1>0, <2>2, <2>3 DEF TypeOK, State
  <2>5. ASSUME NEW p \in Pcb
        PROVE  Member(ready', p) <=> state'[p] \in {"STARTING", "READY"}
    <3>1. CASE p = h
      BY <3>1, <2>2, <2>3
    <3>2. CASE p # h /\ p = running /\ state[p] = "RUNNING"
      BY <3>2, <2>1, <2>2, <2>3
    <3>3. CASE p # h /\ ~(p = running /\ state[p] = "RUNNING")
      BY <3>3, <2>1, <2>2, <2>3
    <3> QED
      BY <3>1, <3>2, <3>3
  <2>6. ReadyExact'
    BY <2>2, <2>5 DEF ReadyExact, Distinct, Member, Queued
  <2>7. OneRunning'
    BY <1>0, <2>2, <2>3 DEF OneRunning
  <2>8. \A p \in Pcb : state'[p] = "DEFUNCT" <=> state[p] = "DEFUNCT"
    BY <2>1, <2>2, <2>3
  <2>9. SegmentExclusive'
    BY <1>0, <2>3, <2>8 DEF SegmentExclusive, Live
  <2> QED
    BY <2>4, <2>6, <2>7, <2>9 DEF IInv
<1>6. CASE SwitchToIdle
  <2>1. \A p \in Pcb : state[p] # "RUNNING"
    <3>1. Requeued = <<>>
      BY <1>6 DEF SwitchToIdle
    <3>2. \A p \in Pcb : ~Member(Requeued, p)
      BY <3>1 DEF Member
    <3> QED
      BY <3>2, <1>0, RequeuedDistinct DEF OneRunning
  <2> QED
    BY <1>0, <1>6, <2>1, IdleAssumption
    DEF SwitchToIdle, IInv, TypeOK, ReadyExact, OneRunning, SegmentExclusive,
        Live, Queued, Distinct, Member
<1>7. CASE UNCHANGED vars
  BY <1>7 DEF vars, IInv, TypeOK, ReadyExact, OneRunning, SegmentExclusive,
              Live, Queued
<1> QED
  BY <1>1, <1>2, <1>3, <1>4, <1>5, <1>6, <1>7 DEF Next

\* The inductive invariant holds in every reachable state.
THEOREM Invariance == Spec => []IInv
BY InitIInv, NextIInv, PTL DEF Spec

\* TypeOK: type correctness.
THEOREM TypeCorrect == Spec => []TypeOK
<1>1. IInv => TypeOK
  BY DEF IInv
<1> QED
  BY <1>1, Invariance, PTL

\* ReadyExact: for any number of processes, the ready queue holds exactly the
\* processes that wait, each once.
THEOREM QueueHoldsTheWaiting == Spec => []ReadyExact
<1>1. IInv => ReadyExact
  BY DEF IInv
<1> QED
  BY <1>1, Invariance, PTL

\* OneRunning: only the process on the processor is RUNNING.
THEOREM RunningIsUnique == Spec => []OneRunning
<1>1. IInv => OneRunning
  BY DEF IInv
<1> QED
  BY <1>1, Invariance, PTL

\* SegmentExclusive: no two live processes ever share a memory segment.
THEOREM SegmentsAreExclusive == Spec => []SegmentExclusive
<1>1. IInv => SegmentExclusive
  BY DEF IInv
<1> QED
  BY <1>1, Invariance, PTL
=============================================================================
