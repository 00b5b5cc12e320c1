-------------------------- MODULE QueueRaceProofs --------------------------
(***************************************************************************)
(* Proofs about SafeQueueRace, for any number of processes: what the       *)
(* statements of a call amount to, the invariant, and that the list holds  *)
(* every waiting process once and no NULL pointer is followed.             *)
(***************************************************************************)
EXTENDS SafeQueueRace, ProcQueueProofs

-----------------------------------------------------------------------------
(* Statements.                                                             *)

\* The first statement is done, the rest follows.
LEMMA AfterFirst ==
  ASSUME NEW S, NEW todo \in Seq(S), Len(todo) \in 1 .. 4, NEW r, NEW p,
         NEW k \in 1 .. Len(todo)
  PROVE  After(todo, r, p, k)
           = After(Tail(todo), Assigned(Head(todo), r, p), p, k - 1)
<1>1. /\ Head(todo) = todo[1]
      /\ \A i \in 1 .. Len(todo) - 1 : Tail(todo)[i] = todo[i + 1]
  OBVIOUS
<1>2. CASE k = 1
  BY <1>1, <1>2 DEF After
<1>3. CASE k = 2
  <2>1. Tail(todo)[1] = todo[2]
    BY <1>1, <1>3
  <2> QED
    BY <1>1, <1>3, <2>1 DEF After
<1>4. CASE k = 3
  <2>1. Tail(todo)[1] = todo[2] /\ Tail(todo)[2] = todo[3]
    BY <1>1, <1>4
  <2> QED
    BY <1>1, <1>4, <2>1 DEF After
<1>5. CASE k = 4
  <2>1. /\ Tail(todo)[1] = todo[2] /\ Tail(todo)[2] = todo[3]
        /\ Tail(todo)[3] = todo[4]
    BY <1>1, <1>5
  <2> QED
    BY <1>1, <1>5, <2>1 DEF After
<1>6. k \in {1, 2, 3, 4}
  <2> DEFINE n == Len(todo)
  <2>1. n \in 1 .. 4 /\ k \in 1 .. n
    OBVIOUS
  <2> HIDE DEF n
  <2> QED
    BY <2>1
<1> QED
  BY <1>2, <1>3, <1>4, <1>5, <1>6

\* So the rest amounts to the same, and follows no NULL pointer either.
LEMMA RestAfterFirst ==
  ASSUME NEW S, NEW todo \in Seq(S), Len(todo) \in 1 .. 4, NEW r, NEW p
  PROVE  /\ Rest(todo, r, p) = Rest(Tail(todo), Assigned(Head(todo), r, p), p)
         /\ Steady(todo, r, p) =>
              /\ Pointer(Head(todo), r, p) # NULL
              /\ Steady(Tail(todo), Assigned(Head(todo), r, p), p)
         /\ Len(todo) = 1 => Rest(todo, r, p) = Assigned(Head(todo), r, p)
<1>1. /\ Head(todo) = todo[1] /\ Len(Tail(todo)) = Len(todo) - 1
      /\ \A i \in 1 .. Len(todo) - 1 : Tail(todo)[i] = todo[i + 1]
  <2>1. todo # <<>>
    OBVIOUS
  <2> QED
    BY <2>1, TailElements
<1> DEFINE u == Assigned(Head(todo), r, p)
           rest == Tail(todo)
<1>2. Rest(todo, r, p) = Rest(rest, u, p)
  BY <1>1, AfterFirst DEF Rest
<1>3. ASSUME Steady(todo, r, p)
      PROVE  Pointer(Head(todo), r, p) # NULL
  <2>1. After(todo, r, p, 0) = r
    BY DEF After
  <2>2. Pointer(todo[1], After(todo, r, p, 1 - 1), p) # NULL
    BY <1>3 DEF Steady
  <2> QED
    BY <1>1, <2>1, <2>2
<1>4. ASSUME Steady(todo, r, p), NEW k \in 1 .. Len(rest)
      PROVE  Pointer(rest[k], After(rest, u, p, k - 1), p) # NULL
  <2>1. k + 1 \in 1 .. Len(todo) /\ (k + 1) - 1 = k /\ k \in 1 .. Len(todo)
    BY <1>1
  <2>2. Pointer(todo[k + 1], After(todo, r, p, k), p) # NULL
    BY <1>4, <2>1 DEF Steady
  <2>3. After(todo, r, p, k) = After(rest, u, p, k - 1)
    BY <2>1, AfterFirst
  <2>4. rest[k] = todo[k + 1]
    BY <1>1
  <2> QED
    BY <2>2, <2>3, <2>4
<1>5. Len(todo) = 1 => Rest(todo, r, p) = u
  BY <1>1 DEF Rest, After
<1> QED
  BY <1>2, <1>3, <1>4, <1>5 DEF Steady

\* What each statement assigns.
LEMMA AddStatements ==
  ASSUME NEW r, NEW p
  PROVE  /\ Assigned("firstTail", r, p) = [r EXCEPT !.tail = p]
         /\ Assigned("firstHead", r, p) = [r EXCEPT !.head = p]
         /\ Assigned("secondNext", r, p) = [r EXCEPT !.next[r.head] = p]
         /\ Assigned("secondTail", r, p) = [r EXCEPT !.tail = p]
         /\ Assigned("secondPrev", r, p) = [r EXCEPT !.prev[r.tail] = r.head]
         /\ Assigned("lastPrev", r, p) = [r EXCEPT !.prev[p] = r.tail]
         /\ Assigned("lastNext", r, p) = [r EXCEPT !.next[r.prev[p]] = p]
         /\ Assigned("lastTail", r, p) = [r EXCEPT !.tail = p]
<1>1. \A l \in AddSteps : Assigned(l, r, p) = AddAssigned(l, r, p)
  BY DEF Assigned
<1>2. Assigned("firstTail", r, p) = [r EXCEPT !.tail = p]
  BY <1>1 DEF AddAssigned, AddSteps
<1>3. Assigned("firstHead", r, p) = [r EXCEPT !.head = p]
  BY <1>1 DEF AddAssigned, AddSteps
<1>4. Assigned("secondNext", r, p) = [r EXCEPT !.next[r.head] = p]
  BY <1>1 DEF AddAssigned, AddSteps
<1>5. Assigned("secondTail", r, p) = [r EXCEPT !.tail = p]
  BY <1>1 DEF AddAssigned, AddSteps
<1>6. Assigned("secondPrev", r, p) = [r EXCEPT !.prev[r.tail] = r.head]
  BY <1>1 DEF AddAssigned, AddSteps
<1>7. Assigned("lastPrev", r, p) = [r EXCEPT !.prev[p] = r.tail]
  BY <1>1 DEF AddAssigned, AddSteps
<1>8. Assigned("lastNext", r, p) = [r EXCEPT !.next[r.prev[p]] = p]
  BY <1>1 DEF AddAssigned, AddSteps
<1>9. Assigned("lastTail", r, p) = [r EXCEPT !.tail = p]
  BY <1>1 DEF AddAssigned, AddSteps
<1> QED
  BY <1>2, <1>3, <1>4, <1>5, <1>6, <1>7, <1>8, <1>9

LEMMA ReleaseStatements ==
  ASSUME NEW r, NEW p
  PROVE  /\ Assigned("headNext", r, p) = [r EXCEPT !.head = r.next[p]]
         /\ Assigned("headPrev", r, p) = [r EXCEPT !.prev[r.head] = NULL]
         /\ Assigned("middleNext", r, p) = [r EXCEPT !.prev[r.next[p]] = r.prev[p]]
         /\ Assigned("middlePrev", r, p) = [r EXCEPT !.next[r.prev[p]] = r.next[p]]
         /\ Assigned("tailPrev", r, p) = [r EXCEPT !.tail = r.prev[p]]
         /\ Assigned("tailNext", r, p) = [r EXCEPT !.next[r.tail] = NULL]
         /\ Assigned("clearNext", r, p) = [r EXCEPT !.next[p] = NULL]
         /\ Assigned("clearPrev", r, p) = [r EXCEPT !.prev[p] = NULL]
<1>1. \A l \in ReleaseSteps : Assigned(l, r, p) = ReleaseAssigned(l, r, p)
  <2>1. \A l \in ReleaseSteps : l \notin AddSteps
    BY DEF AddSteps, ReleaseSteps
  <2> QED
    BY <2>1 DEF Assigned
<1>2. Assigned("headNext", r, p) = [r EXCEPT !.head = r.next[p]]
  <2>1. "headNext" \in ReleaseSteps
    BY DEF ReleaseSteps
  <2> QED
    BY <1>1, <2>1, Zenon DEF ReleaseAssigned
<1>3. Assigned("headPrev", r, p) = [r EXCEPT !.prev[r.head] = NULL]
  <2>1. "headPrev" \in ReleaseSteps
    BY DEF ReleaseSteps
  <2> QED
    BY <1>1, <2>1, Zenon DEF ReleaseAssigned
<1>4. Assigned("middleNext", r, p) = [r EXCEPT !.prev[r.next[p]] = r.prev[p]]
  <2>1. "middleNext" \in ReleaseSteps
    BY DEF ReleaseSteps
  <2> QED
    BY <1>1, <2>1, Zenon DEF ReleaseAssigned
<1>5. Assigned("middlePrev", r, p) = [r EXCEPT !.next[r.prev[p]] = r.next[p]]
  <2>1. "middlePrev" \in ReleaseSteps
    BY DEF ReleaseSteps
  <2> QED
    BY <1>1, <2>1, Zenon DEF ReleaseAssigned
<1>6. Assigned("tailPrev", r, p) = [r EXCEPT !.tail = r.prev[p]]
  <2>1. "tailPrev" \in ReleaseSteps
    BY DEF ReleaseSteps
  <2> QED
    BY <1>1, <2>1, Zenon DEF ReleaseAssigned
<1>7. Assigned("tailNext", r, p) = [r EXCEPT !.next[r.tail] = NULL]
  <2>1. "tailNext" \in ReleaseSteps
    BY DEF ReleaseSteps
  <2> QED
    BY <1>1, <2>1, Zenon DEF ReleaseAssigned
<1>8. Assigned("clearNext", r, p) = [r EXCEPT !.next[p] = NULL]
  <2>1. "clearNext" \in ReleaseSteps
    BY DEF ReleaseSteps
  <2> QED
    BY <1>1, <2>1, Zenon DEF ReleaseAssigned
<1>9. Assigned("clearPrev", r, p) = [r EXCEPT !.prev[p] = NULL]
  <2>1. "clearPrev" \in ReleaseSteps
    BY DEF ReleaseSteps
  <2> QED
    BY <1>1, <2>1, Zenon DEF ReleaseAssigned
<1> QED
  BY <1>2, <1>3, <1>4, <1>5, <1>6, <1>7, <1>8, <1>9

\* Two of them that are cited by themselves.
LEMMA HeadNextDoes ==
  ASSUME NEW r, NEW p
  PROVE  Assigned("headNext", r, p) = [r EXCEPT !.head = r.next[p]]
BY ReleaseStatements

LEMMA MiddleNextDoes ==
  ASSUME NEW r, NEW p
  PROVE  Assigned("middleNext", r, p) = [r EXCEPT !.prev[r.next[p]] = r.prev[p]]
BY ReleaseStatements

\* The pointers they go through.
LEMMA Pointers ==
  ASSUME NEW r, NEW p
  PROVE  /\ Pointer("firstTail", r, p) = p
         /\ Pointer("firstHead", r, p) = p
         /\ Pointer("secondNext", r, p) = r.head
         /\ Pointer("secondTail", r, p) = p
         /\ Pointer("secondPrev", r, p) = r.tail
         /\ Pointer("lastPrev", r, p) = p
         /\ Pointer("lastNext", r, p) = r.prev[p]
         /\ Pointer("lastTail", r, p) = p
         /\ Pointer("headNext", r, p) = p
         /\ Pointer("headPrev", r, p) = r.head
         /\ Pointer("middleNext", r, p) = r.next[p]
         /\ Pointer("middlePrev", r, p) = r.prev[p]
         /\ Pointer("tailPrev", r, p) = p
         /\ Pointer("tailNext", r, p) = r.tail
         /\ Pointer("clearNext", r, p) = p
         /\ Pointer("clearPrev", r, p) = p
  BY DEF Pointer

\* A statement assigns pointers.
LEMMA AssignedInQueue ==
  ASSUME NEW r \in Queue, NEW p \in Pcb, NEW l \in AddSteps \cup ReleaseSteps
  PROVE  Assigned(l, r, p) \in Queue
<1>1. CASE l = "firstTail"
  <2>1. [r EXCEPT !.tail = p] \in Queue
    BY DEF Queue, PcbPtr
  <2>2. Assigned("firstTail", r, p) = [r EXCEPT !.tail = p]
    BY AddStatements
  <2> QED
    BY <1>1, <2>1, <2>2
<1>2. CASE l = "firstHead"
  <2>1. [r EXCEPT !.head = p] \in Queue
    BY DEF Queue, PcbPtr
  <2>2. Assigned("firstHead", r, p) = [r EXCEPT !.head = p]
    BY AddStatements
  <2> QED
    BY <1>2, <2>1, <2>2
<1>3. CASE l = "secondNext"
  <2>1. [r EXCEPT !.next[r.head] = p] \in Queue
    BY DEF Queue, PcbPtr
  <2>2. Assigned("secondNext", r, p) = [r EXCEPT !.next[r.head] = p]
    BY AddStatements
  <2> QED
    BY <1>3, <2>1, <2>2
<1>4. CASE l = "secondTail"
  <2>1. [r EXCEPT !.tail = p] \in Queue
    BY DEF Queue, PcbPtr
  <2>2. Assigned("secondTail", r, p) = [r EXCEPT !.tail = p]
    BY AddStatements
  <2> QED
    BY <1>4, <2>1, <2>2
<1>5. CASE l = "secondPrev"
  <2>1. [r EXCEPT !.prev[r.tail] = r.head] \in Queue
    BY DEF Queue, PcbPtr
  <2>2. Assigned("secondPrev", r, p) = [r EXCEPT !.prev[r.tail] = r.head]
    BY AddStatements
  <2> QED
    BY <1>5, <2>1, <2>2
<1>6. CASE l = "lastPrev"
  <2>1. [r EXCEPT !.prev[p] = r.tail] \in Queue
    BY DEF Queue, PcbPtr
  <2>2. Assigned("lastPrev", r, p) = [r EXCEPT !.prev[p] = r.tail]
    BY AddStatements
  <2> QED
    BY <1>6, <2>1, <2>2
<1>7. CASE l = "lastNext"
  <2>1. [r EXCEPT !.next[r.prev[p]] = p] \in Queue
    BY DEF Queue, PcbPtr
  <2>2. Assigned("lastNext", r, p) = [r EXCEPT !.next[r.prev[p]] = p]
    BY AddStatements
  <2> QED
    BY <1>7, <2>1, <2>2
<1>8. CASE l = "lastTail"
  <2>1. [r EXCEPT !.tail = p] \in Queue
    BY DEF Queue, PcbPtr
  <2>2. Assigned("lastTail", r, p) = [r EXCEPT !.tail = p]
    BY AddStatements
  <2> QED
    BY <1>8, <2>1, <2>2
<1>9. CASE l = "headNext"
  <2>1. [r EXCEPT !.head = r.next[p]] \in Queue
    BY DEF Queue, PcbPtr
  <2>2. Assigned("headNext", r, p) = [r EXCEPT !.head = r.next[p]]
    BY ReleaseStatements
  <2> QED
    BY <1>9, <2>1, <2>2
<1>10. CASE l = "headPrev"
  <2>1. [r EXCEPT !.prev[r.head] = NULL] \in Queue
    BY DEF Queue, PcbPtr
  <2>2. Assigned("headPrev", r, p) = [r EXCEPT !.prev[r.head] = NULL]
    BY ReleaseStatements
  <2> QED
    BY <1>10, <2>1, <2>2
<1>11. CASE l = "middleNext"
  <2>1. [r EXCEPT !.prev[r.next[p]] = r.prev[p]] \in Queue
    BY DEF Queue, PcbPtr
  <2>2. Assigned("middleNext", r, p) = [r EXCEPT !.prev[r.next[p]] = r.prev[p]]
    BY ReleaseStatements
  <2> QED
    BY <1>11, <2>1, <2>2
<1>12. CASE l = "middlePrev"
  <2>1. [r EXCEPT !.next[r.prev[p]] = r.next[p]] \in Queue
    BY DEF Queue, PcbPtr
  <2>2. Assigned("middlePrev", r, p) = [r EXCEPT !.next[r.prev[p]] = r.next[p]]
    BY ReleaseStatements
  <2> QED
    BY <1>12, <2>1, <2>2
<1>13. CASE l = "tailPrev"
  <2>1. [r EXCEPT !.tail = r.prev[p]] \in Queue
    BY DEF Queue, PcbPtr
  <2>2. Assigned("tailPrev", r, p) = [r EXCEPT !.tail = r.prev[p]]
    BY ReleaseStatements
  <2> QED
    BY <1>13, <2>1, <2>2
<1>14. CASE l = "tailNext"
  <2>1. [r EXCEPT !.next[r.tail] = NULL] \in Queue
    BY DEF Queue, PcbPtr
  <2>2. Assigned("tailNext", r, p) = [r EXCEPT !.next[r.tail] = NULL]
    BY ReleaseStatements
  <2> QED
    BY <1>14, <2>1, <2>2
<1>15. CASE l = "clearNext"
  <2>1. [r EXCEPT !.next[p] = NULL] \in Queue
    BY DEF Queue, PcbPtr
  <2>2. Assigned("clearNext", r, p) = [r EXCEPT !.next[p] = NULL]
    BY ReleaseStatements
  <2> QED
    BY <1>15, <2>1, <2>2
<1>16. CASE l = "clearPrev"
  <2>1. [r EXCEPT !.prev[p] = NULL] \in Queue
    BY DEF Queue, PcbPtr
  <2>2. Assigned("clearPrev", r, p) = [r EXCEPT !.prev[p] = NULL]
    BY ReleaseStatements
  <2> QED
    BY <1>16, <2>1, <2>2
<1> QED
  BY <1>1, <1>2, <1>3, <1>4, <1>5, <1>6, <1>7, <1>8, <1>9, <1>10, <1>11, <1>12, <1>13, <1>14, <1>15, <1>16
     DEF AddSteps, ReleaseSteps

\* Two, three or four statements, one after the other.
LEMMA TwoStatements ==
  ASSUME NEW a, NEW b, NEW r, NEW p
  PROVE  /\ Rest(<<a, b>>, r, p) = Assigned(b, Assigned(a, r, p), p)
         /\ Steady(<<a, b>>, r, p) <=>
              /\ Pointer(a, r, p) # NULL
              /\ Pointer(b, Assigned(a, r, p), p) # NULL
<1> DEFINE todo == <<a, b>>
<1>1. Len(todo) = 2 /\ todo[1] = a /\ todo[2] = b
  OBVIOUS
<1> HIDE DEF todo
<1>2. /\ After(todo, r, p, 0) = r
      /\ After(todo, r, p, 1) = Assigned(a, r, p)
      /\ After(todo, r, p, 2) = Assigned(b, Assigned(a, r, p), p)
  BY <1>1 DEF After
<1>3. Rest(todo, r, p) = Assigned(b, Assigned(a, r, p), p)
  BY <1>1, <1>2 DEF Rest
<1>4. Steady(todo, r, p) <=>
        \A k \in {1, 2} : Pointer(todo[k], After(todo, r, p, k - 1), p) # NULL
  <2>1. 1 .. Len(todo) = {1, 2}
    BY <1>1
  <2> QED
    BY <2>1, Zenon DEF Steady
<1>5. 1 - 1 = 0 /\ 2 - 1 = 1
  OBVIOUS
<1>6. Steady(todo, r, p) <=>
        /\ Pointer(a, r, p) # NULL
        /\ Pointer(b, Assigned(a, r, p), p) # NULL
  BY <1>1, <1>2, <1>4, <1>5
<1> QED
  BY <1>3, <1>6 DEF todo

LEMMA ThreeStatements ==
  ASSUME NEW a, NEW b, NEW c, NEW r, NEW p
  PROVE  LET u == Assigned(a, r, p)
             v == Assigned(b, u, p)
         IN  /\ Rest(<<a, b, c>>, r, p) = Assigned(c, v, p)
             /\ Steady(<<a, b, c>>, r, p) <=>
                  /\ Pointer(a, r, p) # NULL
                  /\ Pointer(b, u, p) # NULL
                  /\ Pointer(c, v, p) # NULL
<1> DEFINE todo == <<a, b, c>>
           u == Assigned(a, r, p)
           v == Assigned(b, u, p)
<1>1. Len(todo) = 3 /\ todo[1] = a /\ todo[2] = b /\ todo[3] = c
  OBVIOUS
<1> HIDE DEF todo
<1>2. /\ After(todo, r, p, 0) = r
      /\ After(todo, r, p, 1) = u
      /\ After(todo, r, p, 2) = v
      /\ After(todo, r, p, 3) = Assigned(c, v, p)
  BY <1>1 DEF After
<1> HIDE DEF u, v
<1>3. Rest(todo, r, p) = Assigned(c, v, p)
  BY <1>1, <1>2 DEF Rest
<1>4. Steady(todo, r, p) <=>
        \A k \in {1, 2, 3} : Pointer(todo[k], After(todo, r, p, k - 1), p) # NULL
  <2>1. 1 .. Len(todo) = {1, 2, 3}
    BY <1>1
  <2> QED
    BY <2>1, Zenon DEF Steady
<1>5. 1 - 1 = 0 /\ 2 - 1 = 1 /\ 3 - 1 = 2
  OBVIOUS
<1>6. Steady(todo, r, p) <=>
        /\ Pointer(a, r, p) # NULL
        /\ Pointer(b, u, p) # NULL
        /\ Pointer(c, v, p) # NULL
  BY <1>1, <1>2, <1>4, <1>5
<1> QED
  BY <1>3, <1>6 DEF todo, u, v

LEMMA FourStatements ==
  ASSUME NEW a, NEW b, NEW c, NEW d, NEW r, NEW p
  PROVE  LET u == Assigned(a, r, p)
             v == Assigned(b, u, p)
             w == Assigned(c, v, p)
         IN  /\ Rest(<<a, b, c, d>>, r, p) = Assigned(d, w, p)
             /\ Steady(<<a, b, c, d>>, r, p) <=>
                  /\ Pointer(a, r, p) # NULL
                  /\ Pointer(b, u, p) # NULL
                  /\ Pointer(c, v, p) # NULL
                  /\ Pointer(d, w, p) # NULL
<1> DEFINE todo == <<a, b, c, d>>
           u == Assigned(a, r, p)
           v == Assigned(b, u, p)
           w == Assigned(c, v, p)
<1>1. /\ Len(todo) = 4
      /\ todo[1] = a /\ todo[2] = b /\ todo[3] = c /\ todo[4] = d
  OBVIOUS
<1> HIDE DEF todo
<1>2. /\ After(todo, r, p, 0) = r
      /\ After(todo, r, p, 1) = u
      /\ After(todo, r, p, 2) = v
      /\ After(todo, r, p, 3) = w
      /\ After(todo, r, p, 4) = Assigned(d, w, p)
  BY <1>1 DEF After
<1> HIDE DEF u, v, w
<1>3. Rest(todo, r, p) = Assigned(d, w, p)
  BY <1>1, <1>2 DEF Rest
<1>4. Steady(todo, r, p) <=>
        \A k \in {1, 2, 3, 4} :
          Pointer(todo[k], After(todo, r, p, k - 1), p) # NULL
  <2>1. 1 .. Len(todo) = {1, 2, 3, 4}
    BY <1>1
  <2> QED
    BY <2>1, Zenon DEF Steady
<1>5. 1 - 1 = 0 /\ 2 - 1 = 1 /\ 3 - 1 = 2 /\ 4 - 1 = 3
  OBVIOUS
<1>6. Steady(todo, r, p) <=>
        /\ Pointer(a, r, p) # NULL
        /\ Pointer(b, u, p) # NULL
        /\ Pointer(c, v, p) # NULL
        /\ Pointer(d, w, p) # NULL
  BY <1>1, <1>2, <1>4, <1>5
<1> QED
  BY <1>3, <1>6 DEF todo, u, v, w

\* The branch that addToReady selects does what addToReady does.
LEMMA AddBranchDoes ==
  ASSUME NEW r \in Queue, NEW p \in Pcb, ~AddFaults(r)
  PROVE  LET todo == AddBranch(r)
         IN  /\ todo \in Seq(AddSteps) /\ Len(todo) \in 1 .. 4
             /\ Rest(todo, r, p) = AddToReady(r, p)
             /\ Steady(todo, r, p)
<1>1. p # NULL
  BY NullAssumption
<1>2. CASE r.head = NULL
  <2> DEFINE todo == <<"firstTail", "firstHead">>
             u == [r EXCEPT !.tail = p]
             v == [u EXCEPT !.head = p]
  <2>1. AddBranch(r) = todo
    BY <1>2 DEF AddBranch
  <2>2. todo \in Seq(AddSteps) /\ Len(todo) \in 1 .. 4
    BY DEF AddSteps
  <2>3. Assigned("firstTail", r, p) = u /\ Assigned("firstHead", u, p) = v
    <3>1. Assigned("firstTail", r, p) = u
      BY AddStatements
    <3> HIDE DEF u
    <3>2. Assigned("firstHead", u, p) = v
      BY AddStatements
    <3> QED
      BY <3>1, <3>2
  <2>4. Rest(todo, r, p) = v
    BY <2>3, TwoStatements
  <2>5. AddToReady(r, p) = v
    BY <1>2 DEF AddToReady, Queue
  <2>6. Pointer("firstTail", r, p) # NULL /\ Pointer("firstHead", u, p) # NULL
    BY <1>1, Pointers
  <2>7. Steady(todo, r, p)
    BY <2>3, <2>6, TwoStatements
  <2> QED
    BY <2>1, <2>2, <2>4, <2>5, <2>7
<1>3. CASE r.head # NULL /\ r.head = r.tail
  <2> DEFINE todo == <<"secondNext", "secondTail", "secondPrev">>
             u == [r EXCEPT !.next[r.head] = p]
             v == [u EXCEPT !.tail = p]
             w == [v EXCEPT !.prev[v.tail] = v.head]
  <2>1. AddBranch(r) = todo
    BY <1>3 DEF AddBranch
  <2>2. todo \in Seq(AddSteps) /\ Len(todo) \in 1 .. 4
    BY DEF AddSteps
  <2>3. /\ Assigned("secondNext", r, p) = u /\ Assigned("secondTail", u, p) = v
        /\ Assigned("secondPrev", v, p) = w
    <3>1. Assigned("secondNext", r, p) = u
      BY AddStatements
    <3> HIDE DEF u
    <3>2. Assigned("secondTail", u, p) = v
      BY AddStatements
    <3> HIDE DEF v
    <3>3. Assigned("secondPrev", v, p) = w
      BY AddStatements
    <3> QED
      BY <3>1, <3>2, <3>3
  <2>4. Rest(todo, r, p) = w
    BY <2>3, ThreeStatements
  <2>5. AddToReady(r, p) = w
    <3>1. AddToReady(r, p)
            = [r EXCEPT !.next[r.head] = p, !.tail = p, !.prev[p] = r.head]
      BY <1>3 DEF AddToReady
    <3>2. v.tail = p /\ v.head = r.head
      BY DEF Queue
    <3> QED
      BY <3>1, <3>2 DEF Queue
  <2>6. /\ Pointer("secondNext", r, p) # NULL /\ Pointer("secondTail", u, p) # NULL
        /\ Pointer("secondPrev", v, p) # NULL
    <3>1. v.tail = p
      BY DEF Queue
    <3> HIDE DEF u, v
    <3> QED
      BY <1>1, <1>3, <3>1, Pointers
  <2>7. Steady(todo, r, p)
    BY <2>3, <2>6, ThreeStatements
  <2> QED
    BY <2>1, <2>2, <2>4, <2>5, <2>7
<1>4. CASE r.head # NULL /\ r.head # r.tail
  <2> DEFINE todo == <<"lastPrev", "lastNext", "lastTail">>
             u == [r EXCEPT !.prev[p] = r.tail]
             v == [u EXCEPT !.next[u.prev[p]] = p]
             w == [v EXCEPT !.tail = p]
  <2>1. AddBranch(r) = todo
    BY <1>4 DEF AddBranch
  <2>2. todo \in Seq(AddSteps) /\ Len(todo) \in 1 .. 4
    BY DEF AddSteps
  <2>3. /\ Assigned("lastPrev", r, p) = u /\ Assigned("lastNext", u, p) = v
        /\ Assigned("lastTail", v, p) = w
    <3>1. Assigned("lastPrev", r, p) = u
      BY AddStatements
    <3> HIDE DEF u
    <3>2. Assigned("lastNext", u, p) = v
      BY AddStatements
    <3> HIDE DEF v
    <3>3. Assigned("lastTail", v, p) = w
      BY AddStatements
    <3> QED
      BY <3>1, <3>2, <3>3
  <2>4. Rest(todo, r, p) = w
    BY <2>3, ThreeStatements
  <2>8. u.prev[p] = r.tail
    BY DEF Queue
  <2>5. AddToReady(r, p) = w
    <3>1. AddToReady(r, p)
            = [r EXCEPT !.prev[p] = r.tail, !.next[r.tail] = p, !.tail = p]
      BY <1>4 DEF AddToReady
    <3> QED
      BY <3>1, <2>8 DEF Queue
  <2>6. /\ Pointer("lastPrev", r, p) # NULL /\ Pointer("lastNext", u, p) # NULL
        /\ Pointer("lastTail", v, p) # NULL
    <3> HIDE DEF u, v
    <3> QED
      BY <1>1, <1>4, <2>8, Pointers DEF AddFaults
  <2>7. Steady(todo, r, p)
    BY <2>3, <2>6, ThreeStatements
  <2> QED
    BY <2>1, <2>2, <2>4, <2>5, <2>7
<1> QED
  BY <1>2, <1>3, <1>4

\* Two pairs joined.
LEMMA PairsJoined ==
  ASSUME NEW a, NEW b, NEW c, NEW d
  PROVE  <<a, b>> \o <<c, d>> = <<a, b, c, d>>
<1> DEFINE S == {a, b, c, d}
           s == <<a, b>>
           t == <<c, d>>
           u == <<a, b, c, d>>
           v == s \o t
<1>1. s \in Seq(S) /\ Len(s) = 2 /\ s[1] = a /\ s[2] = b
  OBVIOUS
<1>2. t \in Seq(S) /\ Len(t) = 2 /\ t[1] = c /\ t[2] = d
  OBVIOUS
<1>3. /\ u \in Seq(S) /\ Len(u) = 4
      /\ u[1] = a /\ u[2] = b /\ u[3] = c /\ u[4] = d
  OBVIOUS
<1> HIDE DEF s, t, u, S
<1>4. v \in Seq(S) /\ Len(v) = 4
  <2>1. v \in Seq(S) /\ Len(v) = Len(s) + Len(t)
    BY <1>1, <1>2, ConcatProperties
  <2> QED
    BY <1>1, <1>2, <2>1
<1>5. ASSUME NEW i \in 1 .. 4
      PROVE  v[i] = IF i <= 2 THEN s[i] ELSE t[i - 2]
  <2>1. i \in 1 .. Len(s) + Len(t)
    BY <1>1, <1>2
  <2>2. v[i] = IF i <= Len(s) THEN s[i] ELSE t[i - Len(s)]
    BY <1>1, <1>2, <2>1, ConcatProperties
  <2> QED
    BY <1>1, <2>2
<1> HIDE DEF v
<1>6. v[1] = u[1] /\ v[2] = u[2] /\ v[3] = u[3] /\ v[4] = u[4]
  BY <1>1, <1>2, <1>3, <1>5
<1>7. \A i \in 1 .. 4 : v[i] = u[i]
  BY <1>6
<1> QED
  BY <1>3, <1>4, <1>7, SeqEqual DEF s, t, u, v

\* Two assignments of two pointers each come last.
LEMMA TodoOfRelease ==
  /\ \A a, b : a \notin {"clearNext", "clearPrev"} /\ b \notin {"clearNext", "clearPrev"}
               => ClearsLast(<<a, b, "clearNext", "clearPrev">>)
  /\ ClearsLast(<<"clearNext", "clearPrev">>)
  /\ ClearsLast(<<"clearPrev">>)
<1>1. ASSUME NEW a, NEW b, a \notin {"clearNext", "clearPrev"},
             b \notin {"clearNext", "clearPrev"}
      PROVE  ClearsLast(<<a, b, "clearNext", "clearPrev">>)
  <2> DEFINE todo == <<a, b, "clearNext", "clearPrev">>
  <2>1. /\ Len(todo) = 4 /\ todo[1] = a /\ todo[2] = b
        /\ todo[3] = "clearNext" /\ todo[4] = "clearPrev"
    OBVIOUS
  <2> HIDE DEF todo
  <2>2. 1 .. Len(todo) = {1, 2, 3, 4}
    BY <2>1
  <2>3. ClearsLast(todo)
    BY <1>1, <2>1, <2>2 DEF ClearsLast
  <2> QED
    BY <2>3 DEF todo
<1>2. ClearsLast(<<"clearNext", "clearPrev">>)
  <2> DEFINE todo == <<"clearNext", "clearPrev">>
  <2>1. Len(todo) = 2 /\ todo[1] = "clearNext" /\ todo[2] = "clearPrev"
    OBVIOUS
  <2> HIDE DEF todo
  <2>2. 1 .. Len(todo) = {1, 2}
    BY <2>1
  <2>3. ClearsLast(todo)
    BY <2>1, <2>2 DEF ClearsLast
  <2> QED
    BY <2>3 DEF todo
<1>3. ClearsLast(<<"clearPrev">>)
  BY DEF ClearsLast
<1> QED
  BY <1>1, <1>2, <1>3

\* The branch that releasePCB selects does what releasePCB does, for a PCB
\* that is not linked to itself.
LEMMA ReleaseBranchDoes ==
  ASSUME NEW r \in Queue, NEW p \in Pcb, r.next[p] # p
  PROVE  LET todo == ReleaseBranch(r, p)
         IN  /\ todo \in Seq(ReleaseSteps) /\ Len(todo) \in 1 .. 4
             /\ ClearsLast(todo)
             /\ Rest(todo, r, p) = ReleaseLinks(r, p)
             /\ Steady(todo, r, p)
<1>1. p # NULL
  BY NullAssumption
<1>2. CASE r.next[p] # NULL /\ r.prev[p] = NULL
  <2> DEFINE todo == <<"headNext", "headPrev", "clearNext", "clearPrev">>
             u == [r EXCEPT !.head = r.next[p]]
             v == [u EXCEPT !.prev[u.head] = NULL]
             w == [v EXCEPT !.next[p] = NULL]
             x == [w EXCEPT !.prev[p] = NULL]
  <2>1. ReleaseBranch(r, p) = todo
    <3>1. ReleaseBranch(r, p) = <<"headNext", "headPrev">> \o <<"clearNext", "clearPrev">>
      BY <1>2 DEF ReleaseBranch
    <3> QED
      BY <3>1, PairsJoined
  <2>2. /\ todo \in Seq(ReleaseSteps) /\ Len(todo) \in 1 .. 4
        /\ ClearsLast(todo)
    BY TodoOfRelease DEF ReleaseSteps
  <2>3. /\ Assigned("headNext", r, p) = u /\ Assigned("headPrev", u, p) = v
        /\ Assigned("clearNext", v, p) = w /\ Assigned("clearPrev", w, p) = x
    <3>1. Assigned("headNext", r, p) = u
      BY HeadNextDoes, Zenon
    <3> HIDE DEF u
    <3>2. Assigned("headPrev", u, p) = v
      BY ReleaseStatements
    <3> HIDE DEF v
    <3>3. Assigned("clearNext", v, p) = w
      BY ReleaseStatements
    <3> HIDE DEF w
    <3>4. Assigned("clearPrev", w, p) = x
      BY ReleaseStatements
    <3> QED
      BY <3>1, <3>2, <3>3, <3>4
  <2>4. u.head = r.next[p]
    BY <1>2 DEF Queue, PcbPtr
  <2>5. ReleaseLinks(r, p) = x
    <3> DEFINE y == [r EXCEPT !.head = r.next[p], !.prev[r.next[p]] = NULL]
    <3>1. v = y
      BY <1>2, <2>4 DEF Queue, PcbPtr
    <3>2. ReleaseLinks(r, p) = [y EXCEPT !.next[p] = NULL, !.prev[p] = NULL]
      BY <1>2 DEF ReleaseLinks
    <3>3. y \in Queue
      BY DEF Queue, PcbPtr
    <3> HIDE DEF y, v
    <3> QED
      BY <3>1, <3>2, <3>3 DEF Queue
  <2>6. /\ Pointer("headNext", r, p) # NULL /\ Pointer("headPrev", u, p) # NULL
        /\ Pointer("clearNext", v, p) # NULL /\ Pointer("clearPrev", w, p) # NULL
    <3> HIDE DEF u, v, w
    <3> QED
      BY <1>1, <1>2, <2>4, Pointers
  <2> HIDE DEF u, v, w, x
  <2>7. Rest(todo, r, p) = x /\ Steady(todo, r, p)
    BY <2>3, <2>6, FourStatements
  <2> QED
    BY <2>1, <2>2, <2>5, <2>7
<1>3. CASE r.next[p] # NULL /\ r.prev[p] # NULL
  <2> DEFINE todo == <<"middleNext", "middlePrev", "clearNext", "clearPrev">>
             u == [r EXCEPT !.prev[r.next[p]] = r.prev[p]]
             v == [u EXCEPT !.next[u.prev[p]] = u.next[p]]
             w == [v EXCEPT !.next[p] = NULL]
             x == [w EXCEPT !.prev[p] = NULL]
  <2>1. ReleaseBranch(r, p) = todo
    <3>1. ReleaseBranch(r, p) = <<"middleNext", "middlePrev">> \o <<"clearNext", "clearPrev">>
      BY <1>3 DEF ReleaseBranch
    <3> QED
      BY <3>1, PairsJoined
  <2>2. /\ todo \in Seq(ReleaseSteps) /\ Len(todo) \in 1 .. 4
        /\ ClearsLast(todo)
    BY TodoOfRelease DEF ReleaseSteps
  <2>3. /\ Assigned("middleNext", r, p) = u /\ Assigned("middlePrev", u, p) = v
        /\ Assigned("clearNext", v, p) = w /\ Assigned("clearPrev", w, p) = x
    <3>1. Assigned("middleNext", r, p) = u
      BY MiddleNextDoes, Zenon
    <3> HIDE DEF u
    <3>2. Assigned("middlePrev", u, p) = v
      BY ReleaseStatements
    <3> HIDE DEF v
    <3>3. Assigned("clearNext", v, p) = w
      BY ReleaseStatements
    <3> HIDE DEF w
    <3>4. Assigned("clearPrev", w, p) = x
      BY ReleaseStatements
    <3> QED
      BY <3>1, <3>2, <3>3, <3>4
  <2>4. u.prev[p] = r.prev[p] /\ u.next[p] = r.next[p]
    BY <1>3 DEF Queue, PcbPtr
  <2>5. ReleaseLinks(r, p) = x
    <3> DEFINE y == [r EXCEPT !.prev[r.next[p]] = r.prev[p], !.next[r.prev[p]] = r.next[p]]
    <3>1. v = y
      BY <1>3, <2>4 DEF Queue, PcbPtr
    <3>2. ReleaseLinks(r, p) = [y EXCEPT !.next[p] = NULL, !.prev[p] = NULL]
      BY <1>3 DEF ReleaseLinks
    <3>3. y \in Queue
      BY DEF Queue, PcbPtr
    <3> HIDE DEF y, v
    <3> QED
      BY <3>1, <3>2, <3>3 DEF Queue
  <2>6. /\ Pointer("middleNext", r, p) # NULL /\ Pointer("middlePrev", u, p) # NULL
        /\ Pointer("clearNext", v, p) # NULL /\ Pointer("clearPrev", w, p) # NULL
    <3> HIDE DEF u, v, w
    <3> QED
      BY <1>1, <1>3, <2>4, Pointers
  <2> HIDE DEF u, v, w, x
  <2>7. Rest(todo, r, p) = x /\ Steady(todo, r, p)
    BY <2>3, <2>6, FourStatements
  <2> QED
    BY <2>1, <2>2, <2>5, <2>7
<1>4. CASE r.next[p] = NULL /\ r.prev[p] # NULL
  <2> DEFINE todo == <<"tailPrev", "tailNext", "clearNext", "clearPrev">>
             u == [r EXCEPT !.tail = r.prev[p]]
             v == [u EXCEPT !.next[u.tail] = NULL]
             w == [v EXCEPT !.next[p] = NULL]
             x == [w EXCEPT !.prev[p] = NULL]
  <2>1. ReleaseBranch(r, p) = todo
    <3>1. ReleaseBranch(r, p) = <<"tailPrev", "tailNext">> \o <<"clearNext", "clearPrev">>
      BY <1>4 DEF ReleaseBranch
    <3> QED
      BY <3>1, PairsJoined
  <2>2. /\ todo \in Seq(ReleaseSteps) /\ Len(todo) \in 1 .. 4
        /\ ClearsLast(todo)
    BY TodoOfRelease DEF ReleaseSteps
  <2>3. /\ Assigned("tailPrev", r, p) = u /\ Assigned("tailNext", u, p) = v
        /\ Assigned("clearNext", v, p) = w /\ Assigned("clearPrev", w, p) = x
    <3>1. Assigned("tailPrev", r, p) = u
      BY ReleaseStatements
    <3> HIDE DEF u
    <3>2. Assigned("tailNext", u, p) = v
      BY ReleaseStatements
    <3> HIDE DEF v
    <3>3. Assigned("clearNext", v, p) = w
      BY ReleaseStatements
    <3> HIDE DEF w
    <3>4. Assigned("clearPrev", w, p) = x
      BY ReleaseStatements
    <3> QED
      BY <3>1, <3>2, <3>3, <3>4
  <2>4. u.tail = r.prev[p]
    BY <1>4 DEF Queue, PcbPtr
  <2>5. ReleaseLinks(r, p) = x
    <3> DEFINE y == [r EXCEPT !.tail = r.prev[p], !.next[r.prev[p]] = NULL]
    <3>1. v = y
      BY <1>4, <2>4 DEF Queue, PcbPtr
    <3>2. ReleaseLinks(r, p) = [y EXCEPT !.next[p] = NULL, !.prev[p] = NULL]
      BY <1>4 DEF ReleaseLinks
    <3>3. y \in Queue
      BY DEF Queue, PcbPtr
    <3> HIDE DEF y, v
    <3> QED
      BY <3>1, <3>2, <3>3 DEF Queue
  <2>6. /\ Pointer("tailPrev", r, p) # NULL /\ Pointer("tailNext", u, p) # NULL
        /\ Pointer("clearNext", v, p) # NULL /\ Pointer("clearPrev", w, p) # NULL
    <3> HIDE DEF u, v, w
    <3> QED
      BY <1>1, <1>4, <2>4, Pointers
  <2> HIDE DEF u, v, w, x
  <2>7. Rest(todo, r, p) = x /\ Steady(todo, r, p)
    BY <2>3, <2>6, FourStatements
  <2> QED
    BY <2>1, <2>2, <2>5, <2>7
<1>5. CASE r.next[p] = NULL /\ r.prev[p] = NULL
  <2> DEFINE todo == <<"clearNext", "clearPrev">>
             u == [r EXCEPT !.next[p] = NULL]
             v == [u EXCEPT !.prev[p] = NULL]
  <2>1. ReleaseBranch(r, p) = todo
    <3>1. ReleaseBranch(r, p) = <<>> \o <<"clearNext", "clearPrev">>
      BY <1>5 DEF ReleaseBranch
    <3> QED
      BY <3>1
  <2>2. /\ todo \in Seq(ReleaseSteps) /\ Len(todo) \in 1 .. 4
        /\ ClearsLast(todo)
    BY TodoOfRelease DEF ReleaseSteps
  <2>3. Assigned("clearNext", r, p) = u /\ Assigned("clearPrev", u, p) = v
    <3>1. Assigned("clearNext", r, p) = u
      BY ReleaseStatements
    <3> HIDE DEF u
    <3>2. Assigned("clearPrev", u, p) = v
      BY ReleaseStatements
    <3> QED
      BY <3>1, <3>2
  <2>4. ReleaseLinks(r, p) = v
    <3>1. ReleaseLinks(r, p) = [r EXCEPT !.next[p] = NULL, !.prev[p] = NULL]
      BY <1>5 DEF ReleaseLinks
    <3> QED
      BY <3>1 DEF Queue
  <2>5. Pointer("clearNext", r, p) # NULL /\ Pointer("clearPrev", u, p) # NULL
    <3> HIDE DEF u
    <3> QED
      BY <1>1, Pointers
  <2> HIDE DEF u, v
  <2>6. Rest(todo, r, p) = v /\ Steady(todo, r, p)
    BY <2>3, <2>5, TwoStatements
  <2> QED
    BY <2>1, <2>2, <2>4, <2>6
<1> QED
  BY <1>2, <1>3, <1>4, <1>5

-----------------------------------------------------------------------------
(* Lists.                                                                  *)

\* The elements of what Append, Tail and RemoveAt give.
LEMMA AppendSet ==
  ASSUME NEW s \in Seq(Pcb), NEW p \in Pcb
  PROVE  Elements(Append(s, p)) = Elements(s) \cup {p}
<1> DEFINE t == Append(s, p)
<1>1. /\ Len(t) = Len(s) + 1 /\ Len(s) \in Nat
      /\ \A j \in 1 .. Len(s) : t[j] = s[j]
      /\ t[Len(s) + 1] = p
  BY AppendElements
<1> HIDE DEF t
<1>2. ASSUME NEW x \in Elements(t) PROVE x \in Elements(s) \cup {p}
  <2>1. PICK j \in 1 .. Len(t) : x = t[j]
    BY DEF Elements
  <2>2. j \in 1 .. Len(s) \/ j = Len(s) + 1
    BY <1>1
  <2> QED
    BY <1>1, <2>1, <2>2 DEF Elements
<1>3. ASSUME NEW x \in Elements(s) PROVE x \in Elements(t)
  <2>1. PICK j \in 1 .. Len(s) : x = s[j]
    BY DEF Elements
  <2>2. j \in 1 .. Len(t)
    BY <1>1
  <2> QED
    BY <1>1, <2>1, <2>2 DEF Elements
<1>4. p \in Elements(t)
  <2>1. Len(s) + 1 \in 1 .. Len(t)
    BY <1>1
  <2> QED
    BY <1>1, <2>1 DEF Elements
<1> QED
  BY <1>2, <1>3, <1>4 DEF t

LEMMA TailSet ==
  ASSUME NEW s \in Seq(Pcb), s # <<>>, NoDuplicates(s)
  PROVE  Elements(Tail(s)) = Elements(s) \ {s[1]}
<1> DEFINE t == Tail(s)
<1>1. /\ Len(t) = Len(s) - 1 /\ Len(s) \in Nat /\ Len(s) > 0
      /\ \A j \in 1 .. Len(s) - 1 : t[j] = s[j + 1]
  BY TailElements
<1> HIDE DEF t
<1>2. ASSUME NEW x \in Elements(t) PROVE x \in Elements(s) /\ x # s[1]
  <2>1. PICK j \in 1 .. Len(t) : x = t[j]
    BY DEF Elements
  <2>2. j \in 1 .. Len(s) - 1 /\ j + 1 \in 1 .. Len(s) /\ j + 1 # 1 /\ 1 \in 1 .. Len(s)
    BY <1>1
  <2>3. x = s[j + 1]
    BY <1>1, <2>1, <2>2
  <2> QED
    BY <2>2, <2>3 DEF Elements, NoDuplicates
<1>3. ASSUME NEW x \in Elements(s), x # s[1] PROVE x \in Elements(t)
  <2>1. PICK j \in 1 .. Len(s) : x = s[j]
    BY DEF Elements
  <2>2. j - 1 \in 1 .. Len(s) - 1 /\ (j - 1) + 1 = j
    BY <1>1, <1>3, <2>1
  <2>3. x = t[j - 1] /\ j - 1 \in 1 .. Len(t)
    BY <1>1, <2>1, <2>2
  <2> QED
    BY <2>3 DEF Elements
<1> QED
  BY <1>2, <1>3 DEF t

LEMMA RemoveAtSet ==
  ASSUME NEW s \in Seq(Pcb), NEW i \in 1 .. Len(s), NoDuplicates(s)
  PROVE  Elements(RemoveAt(s, i)) = Elements(s) \ {s[i]}
<1> DEFINE t == RemoveAt(s, i)
<1>1. /\ Len(t) = Len(s) - 1 /\ Len(s) \in Nat
      /\ \A j \in 1 .. Len(s) - 1 : t[j] = IF j < i THEN s[j] ELSE s[j + 1]
  BY RemoveAtElements
<1> HIDE DEF t
<1>2. ASSUME NEW x \in Elements(t) PROVE x \in Elements(s) /\ x # s[i]
  <2>1. PICK j \in 1 .. Len(t) : x = t[j]
    BY DEF Elements
  <2>2. PICK k \in 1 .. Len(s) : k # i /\ x = s[k]
    <3>1. CASE j < i
      BY <1>1, <2>1, <3>1
    <3>2. CASE ~(j < i)
      <4>1. j + 1 \in 1 .. Len(s) /\ j + 1 # i /\ x = s[j + 1]
        BY <1>1, <2>1, <3>2
      <4> QED
        BY <4>1
    <3> QED
      BY <3>1, <3>2
  <2> QED
    BY <2>2 DEF Elements, NoDuplicates
<1>3. ASSUME NEW x \in Elements(s), x # s[i] PROVE x \in Elements(t)
  <2>1. PICK j \in 1 .. Len(s) : x = s[j]
    BY DEF Elements
  <2>2. PICK k \in 1 .. Len(t) : x = t[k]
    <3>1. CASE j < i
      BY <1>1, <2>1, <3>1
    <3>2. CASE ~(j < i)
      <4>1. j - 1 \in 1 .. Len(s) - 1 /\ ~(j - 1 < i) /\ (j - 1) + 1 = j
        BY <1>1, <1>3, <2>1, <3>2
      <4>2. x = t[j - 1] /\ j - 1 \in 1 .. Len(t)
        BY <1>1, <2>1, <4>1
      <4> QED
        BY <4>2
    <3> QED
      BY <3>1, <3>2
  <2> QED
    BY <2>2 DEF Elements
<1> QED
  BY <1>2, <1>3 DEF t

\* A list that agrees with another in what a sequence needs represents it too.
LEMMA SameList ==
  ASSUME NEW r, NEW u, NEW s \in Seq(Pcb), Represents(r, s),
         u.head = r.head, u.tail = r.tail,
         \A p \in Pcb : u.prev[p] = r.prev[p],
         \A p \in Elements(s) : u.next[p] = r.next[p]
  PROVE  Represents(u, s)
<1>1. \A i \in 1 .. Len(s) : s[i] \in Pcb /\ s[i] \in Elements(s)
  BY DEF Elements
<1>2. Len(s) \in Nat /\ (s # <<>> => Len(s) > 0)
  OBVIOUS
<1>3. ASSUME NEW i \in 1 .. Len(s) - 1 PROVE u.next[s[i]] = s[i + 1]
  <2>1. i \in 1 .. Len(s)
    BY <1>2
  <2> QED
    BY <1>1, <2>1 DEF Represents
<1>4. ASSUME NEW i \in 2 .. Len(s) PROVE u.prev[s[i]] = s[i - 1]
  <2>1. i \in 1 .. Len(s)
    BY <1>2
  <2> QED
    BY <1>1, <2>1 DEF Represents
<1>5. s # <<>> => u.prev[s[1]] = NULL
  <2>1. s # <<>> => 1 \in 1 .. Len(s)
    BY <1>2
  <2> QED
    BY <1>1, <2>1 DEF Represents
<1> QED
  BY <1>3, <1>4, <1>5 DEF Represents

\* The list of one sequence: what stands first, what stands outside.
LEMMA ListFacts ==
  ASSUME NEW r \in Queue, NEW s \in Seq(Pcb), Represents(r, s)
  PROVE  /\ ~AddFaults(r)
         /\ \A p \in Elements(s) : p \in Pcb /\ p # NULL
         /\ \A p \in Pcb : p \notin Elements(s) => r.prev[p] = NULL
         /\ Elements(s) # {} =>
              /\ s # <<>> /\ Len(s) > 0
              /\ r.head = s[1] /\ r.head \in Elements(s) /\ r.head \in Pcb
              /\ r.tail \in Elements(s)
              /\ r.prev[r.head] = NULL
         /\ Elements(s) = {} => s = <<>> /\ r.head = NULL /\ r.tail = NULL
<1>1. /\ Len(s) \in Nat /\ s = <<>> <=> Len(s) = 0
      /\ \A j \in 1 .. Len(s) : s[j] \in Pcb /\ s[j] # NULL
  BY NullAssumption
<1>2. \A p \in Elements(s) : p \in Pcb /\ p # NULL
  BY <1>1 DEF Elements
<1>3. \A p \in Pcb : p \notin Elements(s) => r.prev[p] = NULL
  BY DEF Elements, Represents
<1>4. ASSUME s # <<>>
      PROVE  /\ Len(s) > 0 /\ r.head = s[1] /\ r.head \in Elements(s)
             /\ r.tail \in Elements(s) /\ r.prev[r.head] = NULL
  <2>1. 1 \in 1 .. Len(s) /\ Len(s) \in 1 .. Len(s)
    BY <1>1, <1>4
  <2> QED
    BY <1>4, <2>1 DEF Represents, Elements
<1>5. s = <<>> => Elements(s) = {}
  BY <1>1 DEF Elements
<1>6. s = <<>> => r.head = NULL /\ r.tail = NULL
  BY DEF Represents
<1>7. ~AddFaults(r)
  BY <1>2, <1>4, <1>6 DEF AddFaults
<1> QED
  BY <1>2, <1>3, <1>4, <1>5, <1>6, <1>7

\* releasePCB of a queued PCB whose next link says whether it is the last one.
LEMMA LocatedReleases ==
  ASSUME NEW r \in Queue, NEW s \in Seq(Pcb), NEW p \in Elements(s),
         Represents(r, s), NoDuplicates(s),
         r.head # r.tail, r.next[p] = NULL <=> p = r.tail
  PROVE  /\ r.next[p] # p
         /\ ReleaseLinks(r, p) \in Queue
         /\ \E t \in Seq(Pcb) : /\ Represents(ReleaseLinks(r, p), t)
                                /\ NoDuplicates(t)
                                /\ Elements(t) = Elements(s) \ {p}
<1>1. /\ Len(s) \in Nat
      /\ \A j \in 1 .. Len(s) : s[j] \in Pcb /\ s[j] # NULL
      /\ \A j, k \in 1 .. Len(s) : s[j] = s[k] => j = k
  BY NullAssumption DEF NoDuplicates
<1>2. PICK i \in 1 .. Len(s) : p = s[i]
  BY DEF Elements
<1>3. s # <<>> /\ r.head = s[1] /\ r.tail = s[Len(s)]
  <2>1. Len(s) > 0
    BY <1>1, <1>2
  <2>2. s # <<>>
    BY <2>1
  <2> QED
    BY <2>2 DEF Represents
<1>4. Len(s) > 1
  <2>1. Len(s) # 1
    BY <1>3
  <2>2. Len(s) \in Nat /\ Len(s) >= 1
    BY <1>1, <1>2
  <2> DEFINE n == Len(s)
  <2>3. n \in Nat /\ n >= 1 /\ n # 1
    BY <2>1, <2>2
  <2> HIDE DEF n
  <2>4. n > 1
    BY <2>3
  <2> QED
    BY <2>4 DEF n
<1>5. /\ RemoveAt(s, i) \in Seq(Pcb)
      /\ Elements(RemoveAt(s, i)) = Elements(s) \ {p}
  BY <1>2, RemoveAtElements, RemoveAtSet
<1>6. CASE i < Len(s)
  <2>1. i \in 1 .. Len(s) - 1 /\ i + 1 \in 1 .. Len(s) /\ i + 1 # i
    BY <1>1, <1>6
  <2>2. r.next[p] = s[i + 1] /\ s[i + 1] # s[i]
    BY <1>1, <1>2, <2>1 DEF Represents
  <2>3. /\ ReleaseLinks(r, p) \in Queue
        /\ Represents(ReleaseLinks(r, p), RemoveAt(s, i))
        /\ NoDuplicates(RemoveAt(s, i))
    BY <1>2, <1>6, ReleaseLinksRemoves
  <2> QED
    BY <1>2, <1>5, <2>2, <2>3
<1>7. CASE i = Len(s)
  <2>1. p = r.tail /\ r.next[p] = NULL /\ p # NULL
    BY <1>1, <1>2, <1>3, <1>7
  <2>2. /\ ReleaseLinks(r, p) \in Queue
        /\ Represents(ReleaseLinks(r, p), RemoveAt(s, i))
        /\ NoDuplicates(RemoveAt(s, i))
    BY <1>2, <1>4, <1>7, <2>1, ReleaseLinksRemovesLast
  <2> QED
    BY <1>5, <2>1, <2>2
<1> QED
  BY <1>1, <1>2, <1>6, <1>7

-----------------------------------------------------------------------------
(* The memory that a shell leaves which the timer has interrupted.         *)

\* It has not begun to change the list, or has only the links of the PCB it
\* has taken out to clear.
Away(t) ==
  /\ t.then = "user"
  /\ t.todo \in {<<>>, <<"add">>} \cup Clearing
  /\ t.todo \in Clearing => t.pcb \in Pcb

Cleared(t) == IF t.todo \in Clearing THEN {t.pcb} ELSE {}

\* Nothing left to do, and one statement.
LEMMA OneStatement ==
  ASSUME NEW a, NEW r, NEW p
  PROVE  /\ Rest(<<>>, r, p) = r
         /\ Rest(<<a>>, r, p) = Assigned(a, r, p)
         /\ Steady(<<a>>, r, p) <=> Pointer(a, r, p) # NULL
<1> DEFINE todo == <<a>>
<1>1. Len(todo) = 1 /\ todo[1] = a /\ Len(<<>>) = 0
  OBVIOUS
<1>2. Rest(<<>>, r, p) = r
  BY <1>1 DEF Rest, After
<1> HIDE DEF todo
<1>3. After(todo, r, p, 0) = r /\ After(todo, r, p, 1) = Assigned(a, r, p)
  BY <1>1 DEF After
<1>4. Rest(todo, r, p) = Assigned(a, r, p)
  BY <1>1, <1>3 DEF Rest
<1>5. Steady(todo, r, p) <=>
        \A k \in {1} : Pointer(todo[k], After(todo, r, p, k - 1), p) # NULL
  <2>1. 1 .. Len(todo) = {1}
    BY <1>1
  <2> QED
    BY <2>1, Zenon DEF Steady
<1>6. 1 - 1 = 0
  OBVIOUS
<1>7. Steady(todo, r, p) <=> Pointer(a, r, p) # NULL
  BY <1>1, <1>3, <1>5, <1>6
<1> QED
  BY <1>2, <1>4, <1>7 DEF todo

\* The sequences of statements are told apart by their lengths and heads.
LEMMA TodoFacts ==
  /\ <<"clearPrev">> # <<"clearNext", "clearPrev">>
  /\ \A todo \in Clearing :
       /\ todo # <<>> /\ todo # <<"add">>
       /\ todo \in Seq(ReleaseSteps) /\ Len(todo) \in 1 .. 4
       /\ todo[Len(todo)] = "clearPrev"
       /\ Head(todo) \in {"clearNext", "clearPrev"}
  /\ \A l : <<l>> # <<>> /\ Head(<<l>>) = l /\ Len(<<l>>) = 1 /\ <<l>>[1] = l
  /\ <<"add">> # <<"release">> /\ <<"add">> # <<"where">> /\ <<"release">> # <<"where">>
<1>1. Len(<<"clearPrev">>) = 1 /\ Len(<<"clearNext", "clearPrev">>) = 2
  OBVIOUS
<1>2. ASSUME NEW todo \in Clearing
      PROVE  /\ todo # <<>> /\ todo # <<"add">>
             /\ todo \in Seq(ReleaseSteps) /\ Len(todo) \in 1 .. 4
             /\ todo[Len(todo)] = "clearPrev"
             /\ Head(todo) \in {"clearNext", "clearPrev"}
  <2>1. CASE todo = <<"clearPrev">>
    BY <2>1 DEF ReleaseSteps
  <2>2. CASE todo = <<"clearNext", "clearPrev">>
    <3>1. Len(<<"add">>) = 1 /\ Len(todo) = 2
      BY <2>2
    <3> QED
      BY <2>2, <3>1 DEF ReleaseSteps
  <2> QED
    BY <2>1, <2>2 DEF Clearing
<1>3. \A l : <<l>> # <<>> /\ Head(<<l>>) = l /\ Len(<<l>>) = 1 /\ <<l>>[1] = l
  OBVIOUS
<1>4. /\ <<"add">> # <<"release">> /\ <<"add">> # <<"where">>
      /\ <<"release">> # <<"where">>
  OBVIOUS
<1>5. <<"clearPrev">> # <<"clearNext", "clearPrev">>
  BY <1>1
<1> QED
  BY <1>2, <1>3, <1>4, <1>5

\* Equal fields, equal memory.
LEMMA QueueEqual ==
  ASSUME NEW r \in Queue, NEW u \in Queue, r.head = u.head, r.tail = u.tail,
         \A x \in Pcb : r.next[x] = u.next[x] /\ r.prev[x] = u.prev[x]
  PROVE  r = u
<1>1. r.next = u.next /\ r.prev = u.prev
  BY DEF Queue
<1> QED
  BY <1>1 DEF Queue

\* What is settled differs only in the links that are still to be cleared.
LEMMA SettlesFields ==
  ASSUME NEW t, Away(t), NEW r \in Queue
  PROVE  LET u == Settles(t, r)
         IN  /\ u \in Queue
             /\ u.head = r.head /\ u.tail = r.tail
             /\ \A x \in Pcb : u.next[x] = IF x \in Cleared(t) /\ t.todo # <<"clearPrev">>
                                             THEN NULL ELSE r.next[x]
             /\ \A x \in Pcb : u.prev[x] = IF x \in Cleared(t) THEN NULL ELSE r.prev[x]
<1>1. CASE t.todo = <<>>
  <2>1. Settles(t, r) = r
    BY <1>1, OneStatement DEF Settles, Step, Tests, Away
  <2>2. t.todo \notin Clearing
    BY <1>1, TodoFacts
  <2> QED
    BY <2>1, <2>2 DEF Cleared
<1>2. CASE t.todo = <<"add">>
  <2>1. Settles(t, r) = r
    BY <1>2, TodoFacts DEF Settles, Step, Tests
  <2>2. t.todo \notin Clearing
    BY <1>2, TodoFacts
  <2> QED
    BY <2>1, <2>2 DEF Cleared
<1>3. CASE t.todo = <<"clearPrev">>
  <2> DEFINE v == t.pcb
  <2>1. v \in Pcb /\ Cleared(t) = {v}
    BY <1>3 DEF Away, Clearing, Cleared
  <2>2. Step(t) = "clearPrev"
    BY <1>3, TodoFacts DEF Step
  <2>3. Settles(t, r) = Rest(<<"clearPrev">>, r, v)
    BY <1>3, <2>2 DEF Settles, Tests
  <2>4. Settles(t, r) = [r EXCEPT !.prev[v] = NULL]
    <3> HIDE DEF v
    <3>1. Rest(<<"clearPrev">>, r, v) = Assigned("clearPrev", r, v)
      BY OneStatement
    <3>2. Assigned("clearPrev", r, v) = [r EXCEPT !.prev[v] = NULL]
      BY ReleaseStatements
    <3> QED
      BY <2>3, <3>1, <3>2
  <2> HIDE DEF v
  <2> QED
    BY <1>3, <2>1, <2>4 DEF Queue, PcbPtr
<1>4. CASE t.todo = <<"clearNext", "clearPrev">>
  <2> DEFINE v == t.pcb
             u == [r EXCEPT !.next[v] = NULL]
             w == [u EXCEPT !.prev[v] = NULL]
  <2>1. v \in Pcb /\ Cleared(t) = {v}
    BY <1>4 DEF Away, Clearing, Cleared
  <2>2. Step(t) = "clearNext"
    <3>1. t.todo # <<>> /\ Head(t.todo) = "clearNext"
      BY <1>4
    <3> QED
      BY <3>1 DEF Step
  <2>3. Settles(t, r) = Rest(<<"clearNext", "clearPrev">>, r, v)
    BY <1>4, <2>2 DEF Settles, Tests
  <2>4. Assigned("clearNext", r, v) = u
    BY ReleaseStatements
  <2>5. Assigned("clearPrev", u, v) = w
    <3> HIDE DEF u
    <3> QED
      BY ReleaseStatements
  <2>6. Settles(t, r) = w
    <3> HIDE DEF u, w
    <3> QED
      BY <2>3, <2>4, <2>5, TwoStatements
  <2>7. t.todo # <<"clearPrev">>
    BY <1>4, TodoFacts
  <2> HIDE DEF v
  <2>8. /\ w \in Queue /\ w.head = r.head /\ w.tail = r.tail
        /\ w.next = [r.next EXCEPT ![v] = NULL]
        /\ w.prev = [r.prev EXCEPT ![v] = NULL]
    BY <2>1 DEF Queue, PcbPtr
  <2> HIDE DEF w
  <2> QED
    BY <2>1, <2>6, <2>7, <2>8 DEF Queue
<1> QED
  BY <1>1, <1>2, <1>3, <1>4 DEF Away, Clearing

\* Queueing another PCB, ...
LEMMA SettlesAdd ==
  ASSUME NEW t, Away(t), NEW r \in Queue, NEW p \in Pcb, ~AddFaults(r),
         p \notin Cleared(t), r.head # NULL => r.tail \notin Cleared(t)
  PROVE  Settles(t, AddToReady(r, p)) = AddToReady(Settles(t, r), p)
<1> DEFINE a == AddToReady(r, p)
           u == Settles(t, r)
           v == Settles(t, a)
           w == AddToReady(u, p)
<1>1. /\ u \in Queue /\ u.head = r.head /\ u.tail = r.tail
      /\ \A x \in Pcb : u.next[x] = IF x \in Cleared(t) /\ t.todo # <<"clearPrev">>
                                      THEN NULL ELSE r.next[x]
      /\ \A x \in Pcb : u.prev[x] = IF x \in Cleared(t) THEN NULL ELSE r.prev[x]
  BY SettlesFields
<1>2. ~AddFaults(u)
  BY <1>1 DEF AddFaults
<1>3. /\ a \in Queue
      /\ r.head = NULL =>
           a.head = p /\ a.tail = p /\ a.next = r.next /\ a.prev = r.prev
      /\ r.head # NULL =>
           /\ a.head = r.head /\ a.tail = p
           /\ a.next = [r.next EXCEPT ![r.tail] = p]
           /\ a.prev = [r.prev EXCEPT ![p] = r.tail]
  BY AddToReadyFields
<1>4. /\ w \in Queue
      /\ u.head = NULL =>
           w.head = p /\ w.tail = p /\ w.next = u.next /\ w.prev = u.prev
      /\ u.head # NULL =>
           /\ w.head = u.head /\ w.tail = p
           /\ w.next = [u.next EXCEPT ![u.tail] = p]
           /\ w.prev = [u.prev EXCEPT ![p] = u.tail]
  <2> HIDE DEF u
  <2> QED
    BY <1>1, <1>2, AddToReadyFields
<1>5. /\ v \in Queue /\ v.head = a.head /\ v.tail = a.tail
      /\ \A x \in Pcb : v.next[x] = IF x \in Cleared(t) /\ t.todo # <<"clearPrev">>
                                      THEN NULL ELSE a.next[x]
      /\ \A x \in Pcb : v.prev[x] = IF x \in Cleared(t) THEN NULL ELSE a.prev[x]
  <2> HIDE DEF a
  <2> QED
    BY <1>3, SettlesFields
<1> HIDE DEF a, u, v, w
<1>6. v.head = w.head /\ v.tail = w.tail
  BY <1>1, <1>3, <1>4, <1>5
<1>7. ASSUME NEW x \in Pcb PROVE v.next[x] = w.next[x] /\ v.prev[x] = w.prev[x]
  <2>1. CASE r.head = NULL
    BY <1>1, <1>3, <1>4, <1>5, <2>1
  <2>2. CASE r.head # NULL
    <3>1. /\ r.next \in [Pcb -> PcbPtr] /\ r.prev \in [Pcb -> PcbPtr]
          /\ u.next \in [Pcb -> PcbPtr] /\ u.prev \in [Pcb -> PcbPtr]
      BY <1>1 DEF Queue
    <3>2. /\ a.next[x] = IF x = r.tail THEN p ELSE r.next[x]
          /\ w.next[x] = IF x = r.tail THEN p ELSE u.next[x]
      BY <1>1, <1>3, <1>4, <2>2, <3>1
    <3>3. /\ a.prev[x] = IF x = p THEN r.tail ELSE r.prev[x]
          /\ w.prev[x] = IF x = p THEN r.tail ELSE u.prev[x]
      BY <1>1, <1>3, <1>4, <2>2, <3>1
    <3>4. v.next[x] = w.next[x]
      BY <1>1, <1>5, <2>2, <3>2
    <3>5. v.prev[x] = w.prev[x]
      BY <1>1, <1>5, <2>2, <3>3
    <3> QED
      BY <3>4, <3>5
  <2> QED
    BY <2>1, <2>2
<1>8. v = w
  BY <1>4, <1>5, <1>6, <1>7, QueueEqual
<1> QED
  BY <1>8 DEF a, u, v, w

\* ... taking the head and ...
LEMMA SettlesRemove ==
  ASSUME NEW t, Away(t), NEW r \in Queue, r.head # NULL,
         r.head \notin Cleared(t),
         r.head # r.tail => r.next[r.head] \in Pcb /\ r.next[r.head] \notin Cleared(t)
  PROVE  /\ RemoveFromReady(r) \in Queue
         /\ Settles(t, RemoveFromReady(r)) = RemoveFromReady(Settles(t, r))
         /\ RemoveFaults(Settles(t, r)) = RemoveFaults(r)
<1> DEFINE a == RemoveFromReady(r)
           u == Settles(t, r)
           v == Settles(t, a)
           w == RemoveFromReady(u)
           n == r.next[r.head]
<1>1. /\ u \in Queue /\ u.head = r.head /\ u.tail = r.tail
      /\ \A x \in Pcb : u.next[x] = IF x \in Cleared(t) /\ t.todo # <<"clearPrev">>
                                      THEN NULL ELSE r.next[x]
      /\ \A x \in Pcb : u.prev[x] = IF x \in Cleared(t) THEN NULL ELSE r.prev[x]
  BY SettlesFields
<1>2. r.head \in Pcb /\ u.next[r.head] = n
  BY <1>1 DEF Queue, PcbPtr
<1>3. RemoveFaults(u) <=> RemoveFaults(r)
  BY <1>1, <1>2 DEF RemoveFaults
<1>4. CASE r.head = r.tail
  <2>1. /\ a \in Queue /\ a.head = NULL /\ a.tail = NULL
        /\ a.next = r.next /\ a.prev = r.prev
    BY <1>4 DEF RemoveFromReady, Queue, PcbPtr
  <2>2. /\ w \in Queue /\ w.head = NULL /\ w.tail = NULL
        /\ w.next = u.next /\ w.prev = u.prev
    <3> HIDE DEF u
    <3> QED
      BY <1>1, <1>4 DEF RemoveFromReady, Queue, PcbPtr
  <2>3. /\ v \in Queue /\ v.head = a.head /\ v.tail = a.tail
        /\ \A x \in Pcb : v.next[x] = IF x \in Cleared(t) /\ t.todo # <<"clearPrev">>
                                        THEN NULL ELSE a.next[x]
        /\ \A x \in Pcb : v.prev[x] = IF x \in Cleared(t) THEN NULL ELSE a.prev[x]
    <3> HIDE DEF a
    <3> QED
      BY <2>1, SettlesFields
  <2> HIDE DEF a, u, v, w
  <2>4. v = w
    BY <1>1, <2>1, <2>2, <2>3, QueueEqual
  <2> QED
    BY <1>3, <2>1, <2>4 DEF a, u, v, w, RemoveFaults
<1>5. CASE r.head # r.tail
  <2> DEFINE e(z) == IF n = r.tail THEN NULL ELSE z
  <2>1. /\ a \in Queue /\ a.head = n /\ a.tail = r.tail
        /\ a.next = [r.next EXCEPT ![n] = e(r.next[n])]
        /\ a.prev = [r.prev EXCEPT ![n] = NULL]
    BY <1>5 DEF RemoveFromReady, Queue, PcbPtr
  <2>2. /\ w \in Queue /\ w.head = n /\ w.tail = r.tail
        /\ w.next = [u.next EXCEPT ![n] = e(u.next[n])]
        /\ w.prev = [u.prev EXCEPT ![n] = NULL]
    <3> HIDE DEF u
    <3> QED
      BY <1>1, <1>2, <1>5 DEF RemoveFromReady, Queue, PcbPtr
  <2>3. /\ v \in Queue /\ v.head = a.head /\ v.tail = a.tail
        /\ \A x \in Pcb : v.next[x] = IF x \in Cleared(t) /\ t.todo # <<"clearPrev">>
                                        THEN NULL ELSE a.next[x]
        /\ \A x \in Pcb : v.prev[x] = IF x \in Cleared(t) THEN NULL ELSE a.prev[x]
    <3>1. a \in Queue
      BY <2>1
    <3> HIDE DEF a
    <3> QED
      BY <3>1, SettlesFields
  <2>4. n \in Pcb /\ n \notin Cleared(t)
    BY <1>5
  <2> HIDE DEF a, u, v, w, n
  <2>5. /\ r.next \in [Pcb -> PcbPtr] /\ r.prev \in [Pcb -> PcbPtr]
        /\ u.next \in [Pcb -> PcbPtr] /\ u.prev \in [Pcb -> PcbPtr]
    BY <1>1 DEF Queue
  <2>6. ASSUME NEW x \in Pcb PROVE v.next[x] = w.next[x] /\ v.prev[x] = w.prev[x]
    <3>1. CASE x = n
      <4>1. /\ a.next[x] = e(r.next[n]) /\ w.next[x] = e(u.next[n])
            /\ a.prev[x] = NULL /\ w.prev[x] = NULL
        BY <2>1, <2>2, <2>5, <3>1
      <4>2. u.next[n] = r.next[n]
        BY <1>1, <2>4
      <4> QED
        BY <2>3, <2>4, <3>1, <4>1, <4>2
    <3>2. CASE x # n
      <4>1. /\ a.next[x] = r.next[x] /\ w.next[x] = u.next[x]
            /\ a.prev[x] = r.prev[x] /\ w.prev[x] = u.prev[x]
        BY <2>1, <2>2, <2>5, <3>2
      <4> QED
        BY <1>1, <2>3, <4>1
    <3> QED
      BY <3>1, <3>2
  <2>7. v = w
    <3>1. v \in Queue /\ w \in Queue /\ v.head = w.head /\ v.tail = w.tail
      BY <2>1, <2>2, <2>3
    <3> QED
      BY <2>6, <3>1, QueueEqual
  <2> QED
    BY <1>3, <2>1, <2>7 DEF a, u, v, w, RemoveFaults
<1> QED
  BY <1>4, <1>5

\* ... clearing the next link of a PCB outside the list leave the rest to do.
LEMMA SettlesClearNext ==
  ASSUME NEW t, Away(t), NEW r \in Queue, NEW p \in Pcb, NEW s \in Seq(Pcb),
         Represents(Settles(t, r), s), p \notin Elements(s)
  PROVE  LET u == [r EXCEPT !.next[p] = NULL]
         IN  /\ u \in Queue
             /\ Settles(t, u) \in Queue
             /\ Represents(Settles(t, u), s)
<1> DEFINE u == [r EXCEPT !.next[p] = NULL]
           v == Settles(t, r)
           w == Settles(t, u)
<1>1. /\ u \in Queue /\ u.head = r.head /\ u.tail = r.tail /\ u.prev = r.prev
      /\ \A x \in Pcb : x # p => u.next[x] = r.next[x]
  BY DEF Queue, PcbPtr
<1>2. /\ v \in Queue /\ v.head = r.head /\ v.tail = r.tail
      /\ \A x \in Pcb : v.next[x] = IF x \in Cleared(t) /\ t.todo # <<"clearPrev">>
                                      THEN NULL ELSE r.next[x]
      /\ \A x \in Pcb : v.prev[x] = IF x \in Cleared(t) THEN NULL ELSE r.prev[x]
  BY SettlesFields
<1> HIDE DEF u
<1>3. /\ w \in Queue /\ w.head = u.head /\ w.tail = u.tail
      /\ \A x \in Pcb : w.next[x] = IF x \in Cleared(t) /\ t.todo # <<"clearPrev">>
                                      THEN NULL ELSE u.next[x]
      /\ \A x \in Pcb : w.prev[x] = IF x \in Cleared(t) THEN NULL ELSE u.prev[x]
  BY <1>1, SettlesFields
<1> HIDE DEF v, w
<1>4. \A x \in Elements(s) : x \in Pcb /\ x # p
  BY DEF Elements
<1>5. Represents(v, s)
  BY DEF v
<1>6. Represents(w, s)
  <2>1. \A x \in Pcb : w.prev[x] = v.prev[x]
    BY <1>1, <1>2, <1>3
  <2>2. \A x \in Elements(s) : w.next[x] = v.next[x]
    BY <1>1, <1>2, <1>3, <1>4
  <2> QED
    BY <1>1, <1>2, <1>3, <1>5, <2>1, <2>2, SameList
<1> QED
  BY <1>1, <1>3, <1>6 DEF u, w

\* Whatever the memory, clearing links follows no NULL pointer.
LEMMA ClearingSteady ==
  ASSUME NEW todo \in Clearing, NEW r, NEW p \in Pcb
  PROVE  Steady(todo, r, p)
<1>1. p # NULL
  BY NullAssumption
<1>2. \A u : Pointer("clearNext", u, p) = p /\ Pointer("clearPrev", u, p) = p
  BY Pointers
<1>3. CASE todo = <<"clearPrev">>
  BY <1>1, <1>2, <1>3, OneStatement
<1>4. CASE todo = <<"clearNext", "clearPrev">>
  BY <1>1, <1>2, <1>4, TwoStatements
<1> QED
  BY <1>3, <1>4 DEF Clearing

-----------------------------------------------------------------------------
(* What the invariant says of the threads.                                 *)

\* The statements are not the tests.
LEMMA StepNames ==
  /\ \A l \in AddSteps : l \notin Tests /\ l \notin ReleaseSteps /\ l \in Steps
  /\ \A l \in ReleaseSteps : l \notin Tests /\ l \in Steps
  /\ \A l \in Steps \ (Tests \cup {"user", "spin", "asleep"}) :
       l \in AddSteps \cup ReleaseSteps
  /\ Tests \subseteq Steps
<1>1. ASSUME NEW l \in AddSteps
      PROVE  l \notin Tests /\ l \notin ReleaseSteps /\ l \in Steps
  BY DEF AddSteps, ReleaseSteps, Tests, Steps
<1>2. ASSUME NEW l \in ReleaseSteps PROVE l \notin Tests /\ l \in Steps
  BY DEF ReleaseSteps, Tests, Steps
<1>3. ASSUME NEW l \in Steps \ (Tests \cup {"user", "spin", "asleep"})
      PROVE  l \in AddSteps \cup ReleaseSteps
  BY Zenon DEF Steps, Tests
<1>4. Tests \subseteq Steps
  BY Zenon DEF Steps, Tests
<1> QED
  BY <1>1, <1>2, <1>3, <1>4

\* No step is "user" when a call is in progress.
LEMMA CallSteps ==
  \A l \in AddSteps \cup ReleaseSteps \cup Tests :
    l \notin {"user", "spin", "asleep"}
  BY DEF AddSteps, ReleaseSteps, Tests

\* The next step of the shell says where it is in its call.
LEMMA ShellCases ==
  ASSUME IInv
  PROVE  /\ Shell.then = "user"
         /\ Shell.todo = <<>> => Step(Shell) = "user"
         /\ Shell.todo # <<>> =>
              /\ Step(Shell) = Head(Shell.todo)
              /\ Shell.pcb \in Pcb \ {0} /\ Shell.pcb # running
              /\ ~Undisturbed => Shell.was = NULL
              /\ \/ Step(Shell) = "add" /\ ShellAdds(Shell)
                 \/ Step(Shell) \in {"release", "where"} /\ ShellReleases(Shell)
                      /\ (Step(Shell) = "where" <=> Shell.todo = <<"where">>)
                 \/ Step(Shell) \in AddSteps /\ ShellLinks(Shell)
                 \/ Step(Shell) \in ReleaseSteps /\ ShellUnlinks(Shell)
         /\ Step(Shell) = "user" => Shell.todo = <<>>
<1>1. /\ Shell.then = "user"
      /\ Shell.todo = <<>> \/
           /\ Shell.pcb \in Pcb \ {0}
           /\ Shell.pcb # running
           /\ ~Undisturbed => Shell.was = NULL
           /\ \/ ShellAdds(Shell) \/ ShellLinks(Shell)
              \/ ShellReleases(Shell) \/ ShellUnlinks(Shell)
  BY DEF IInv, ShellExact
<1>2. Shell.todo = <<>> => Step(Shell) = "user"
  BY <1>1 DEF Step
<1>3. Shell.todo # <<>> => Step(Shell) = Head(Shell.todo)
  BY DEF Step
<1>4. ASSUME Shell.todo # <<>>
      PROVE  \/ Step(Shell) = "add" /\ ShellAdds(Shell)
             \/ Step(Shell) \in {"release", "where"} /\ ShellReleases(Shell)
                  /\ (Step(Shell) = "where" <=> Shell.todo = <<"where">>)
             \/ Step(Shell) \in AddSteps /\ ShellLinks(Shell)
             \/ Step(Shell) \in ReleaseSteps /\ ShellUnlinks(Shell)
  <2>1. CASE ShellAdds(Shell)
    BY <1>3, <1>4, <2>1, TodoFacts DEF ShellAdds
  <2>2. CASE ShellReleases(Shell)
    <3>1. Shell.todo = <<"release">> \/ Shell.todo = <<"where">>
      BY <2>2 DEF ShellReleases
    <3>2. Step(Shell) = "where" <=> Shell.todo = <<"where">>
      BY <1>3, <1>4, <3>1, TodoFacts
    <3>3. Step(Shell) \in {"release", "where"}
      BY <1>3, <1>4, <3>1, TodoFacts
    <3> QED
      BY <2>2, <3>2, <3>3
  <2>3. CASE ShellLinks(Shell)
    <3>1. Shell.todo \in Seq(AddSteps)
      BY <2>3 DEF ShellLinks
    <3>2. Head(Shell.todo) \in AddSteps
      BY <1>4, <3>1, TailElements
    <3> QED
      BY <1>3, <1>4, <2>3, <3>2
  <2>4. CASE ShellUnlinks(Shell)
    <3>1. Shell.todo \in Seq(ReleaseSteps)
      BY <2>4 DEF ShellUnlinks
    <3>2. Head(Shell.todo) \in ReleaseSteps
      BY <1>4, <3>1, TailElements
    <3> QED
      BY <1>3, <1>4, <2>4, <3>2
  <2> QED
    BY <1>1, <1>4, <2>1, <2>2, <2>3, <2>4
<1>5. Shell.todo # <<>> => Step(Shell) # "user"
  <2>1. "add" \in Tests /\ "release" \in Tests /\ "where" \in Tests
    BY DEF Tests
  <2> QED
    BY <1>4, <2>1, CallSteps
<1> QED
  BY <1>1, <1>2, <1>3, <1>4, <1>5

\* Once another process runs, or the handler, the shell has not begun or has
\* only links to clear.
LEMMA ShellAway ==
  ASSUME IInv, ~Undisturbed
  PROVE  /\ Away(Shell)
         /\ Shell.todo # <<>> => Shell.was = NULL
         /\ Shell.todo \in Clearing =>
              /\ state[Shell.pcb] = "DEFUNCT"
              /\ Step(Shell) \in {"clearNext", "clearPrev"}
         /\ Step(Shell) \notin {"release", "where"}
         /\ Step(Shell) = "add" => ShellAdds(Shell)
<1>1. CASE Shell.todo = <<>>
  <2>1. Step(Shell) = "user" /\ Shell.then = "user"
    BY <1>1, ShellCases
  <2>2. Shell.todo \notin Clearing
    BY <1>1, TodoFacts
  <2> QED
    BY <1>1, <2>1, <2>2 DEF Away
<1>2. CASE Shell.todo # <<>>
  <2>1. CASE Step(Shell) = "add" /\ ShellAdds(Shell)
    <3>1. Shell.todo = <<"add">> /\ Shell.then = "user" /\ Shell.was = NULL
      BY <1>2, <2>1, ShellCases DEF ShellAdds
    <3>2. Shell.todo \notin Clearing
      BY <3>1, TodoFacts
    <3> QED
      BY <2>1, <3>1, <3>2 DEF Away
  <2>2. CASE Step(Shell) \in {"release", "where"} /\ ShellReleases(Shell)
    BY <2>2 DEF ShellReleases
  <2>3. CASE Step(Shell) \in AddSteps /\ ShellLinks(Shell)
    BY <2>3 DEF ShellLinks
  <2>4. CASE Step(Shell) \in ReleaseSteps /\ ShellUnlinks(Shell)
    <3>1. Shell.todo \in Clearing /\ state[Shell.pcb] = "DEFUNCT"
      BY <2>4 DEF ShellUnlinks
    <3>2. Step(Shell) \in {"clearNext", "clearPrev"}
      BY <1>2, <3>1, ShellCases, TodoFacts
    <3>3. Shell.pcb \in Pcb /\ Shell.then = "user" /\ Shell.was = NULL
      BY <1>2, ShellCases
    <3> QED
      BY <3>1, <3>2, <3>3 DEF Away
  <2> QED
    BY <1>2, <2>1, <2>2, <2>3, <2>4, ShellCases
<1> QED
  BY <1>1, <1>2

\* The running process and the PCB whose links are cleared are not listed; the
\* shell is, unless it runs.
LEMMA ListedFacts ==
  ASSUME IInv
  PROVE  /\ running \notin Listed
         /\ Listed \subseteq Pcb
         /\ running # 0 => state[0] = "READY" /\ 0 \in Listed
         /\ running = 0 => state[0] = "RUNNING"
         /\ Step(Shell) \notin {"add", "where"} =>
              Listed = {p \in Pcb : state[p] \in {"READY", "STARTING"}}
         /\ Step(Shell) = "add" =>
              Listed = {p \in Pcb : state[p] \in {"READY", "STARTING"}} \ {Shell.pcb}
         /\ Step(Shell) = "where" =>
              Listed = {p \in Pcb : state[p] \in {"READY", "STARTING"}}
                         \cup {Shell.pcb}
<1>1. /\ Step(Shell) \in {"add", "where"} =>
           Shell.pcb \in Pcb \ {0} /\ Shell.pcb # running
  <2>1. Shell.todo = <<>> => Step(Shell) = "user"
    BY ShellCases
  <2>2. "user" \notin {"add", "where"}
    OBVIOUS
  <2> QED
    BY <2>1, <2>2, ShellCases
<1>2. /\ state[0] \in {"RUNNING", "READY"}
      /\ state[running] \in {"RUNNING", "SLEEPING", "DEFUNCT"}
      /\ \A p \in Pcb : state[p] = "RUNNING" => p = running
      /\ running \in Pcb /\ 0 \in Pcb
  BY PoolAssumption DEF IInv, StatesExact, TypeOK
<1>3. /\ Step(Shell) \notin {"add", "where"} =>
           Listed = {p \in Pcb : state[p] \in {"READY", "STARTING"}}
      /\ Step(Shell) = "add" =>
           Listed = {p \in Pcb : state[p] \in {"READY", "STARTING"}} \ {Shell.pcb}
      /\ Step(Shell) = "where" =>
           Listed = {p \in Pcb : state[p] \in {"READY", "STARTING"}} \cup {Shell.pcb}
  BY DEF Listed
<1> HIDE DEF Listed
<1>4. running # 0 => state[0] = "READY" /\ 0 \in Listed
  BY <1>1, <1>2, <1>3
<1>5. running \notin Listed /\ Listed \subseteq Pcb
  BY <1>1, <1>2, <1>3
<1>6. running = 0 => state[0] = "RUNNING"
  BY <1>2
<1> QED
  BY <1>3, <1>4, <1>5, <1>6

\* The list behind the settled memory, as the memory itself shows it when the
\* shell is away.
LEMMA AwayFacts ==
  ASSUME IInv, ~Undisturbed
  PROVE  /\ Cleared(Shell) \cap Listed = {} /\ running \notin Cleared(Shell)
         /\ ~AddFaults(q)
         /\ q.head # NULL => /\ q.head \in Listed /\ q.tail \in Listed
                             /\ q.prev[q.head] = NULL
         /\ Listed # {} => q.head # NULL
         /\ \A p \in Pcb : p \notin Listed /\ p \notin Cleared(Shell) => q.prev[p] = NULL
<1>1. /\ Away(Shell)
      /\ Shell.todo \in Clearing =>
           /\ state[Shell.pcb] = "DEFUNCT"
           /\ Step(Shell) \in {"clearNext", "clearPrev"}
  BY ShellAway
<1>2. q \in Queue
  BY DEF IInv, TypeOK
<1>3. Cleared(Shell) \cap Listed = {} /\ running \notin Cleared(Shell)
  <2>1. CASE Shell.todo \in Clearing
    <3>1. Shell.todo # <<>>
      BY <2>1, TodoFacts
    <3>2. Shell.pcb # running
      BY <3>1, ShellCases
    <3>3. Listed = {p \in Pcb : state[p] \in {"READY", "STARTING"}}
      BY <1>1, <2>1, ListedFacts
    <3>4. Cleared(Shell) = {Shell.pcb}
      BY <2>1 DEF Cleared
    <3> QED
      BY <1>1, <2>1, <3>2, <3>3, <3>4
  <2>2. CASE Shell.todo \notin Clearing
    BY <2>2 DEF Cleared
  <2> QED
    BY <2>1, <2>2
<1>4. /\ Settled \in Queue
      /\ Settled.head = q.head /\ Settled.tail = q.tail
      /\ \A x \in Pcb : Settled.prev[x] = IF x \in Cleared(Shell) THEN NULL ELSE q.prev[x]
  BY <1>1, <1>2, SettlesFields DEF Settled
<1>5. PICK s \in Seq(Pcb) : ListedAs(s)
  BY DEF IInv, ListSettled
<1>6. Represents(Settled, s) /\ Elements(s) = Listed
  BY <1>5 DEF ListedAs
<1> HIDE DEF Settled
<1>7. /\ ~AddFaults(Settled)
      /\ \A p \in Pcb : p \notin Listed => Settled.prev[p] = NULL
      /\ Listed # {} => /\ Settled.head \in Listed /\ Settled.tail \in Listed
                        /\ Settled.head # NULL /\ Settled.prev[Settled.head] = NULL
      /\ Listed = {} => Settled.head = NULL
  BY <1>4, <1>6, ListFacts
<1>8. Listed \subseteq Pcb
  BY ListedFacts
<1> QED
  BY <1>3, <1>4, <1>7, <1>8 DEF AddFaults

\* What the process that runs instead of the shell is doing.
LEMMA RunningCases ==
  ASSUME IInv, running # 0
  PROVE  LET t == thread[running]
         IN  /\ state[running] = "RUNNING" =>
                  \/ t.todo = <<>> /\ t.then = "user" /\ Step(t) = "user"
                  \/ /\ t.todo = <<"release">> /\ t.then = "spin"
                     /\ Step(t) = "release" /\ t.pcb = running
             /\ state[running] = "SLEEPING" =>
                  /\ t.todo = <<>> /\ Step(t) = t.then
                  /\ t.then = IF handler THEN "user" ELSE "asleep"
             /\ state[running] = "DEFUNCT" =>
                  /\ t.then = "spin"
                  /\ t.todo = <<>> => Step(t) = "spin"
                  /\ t.todo # <<>> => Step(t) = Head(t.todo) /\ t.pcb = running
                  /\ Step(t) \in {"spin", "where", "clearPrev", "clearNext",
                                  "headPrev", "headNext"}
             /\ state[running] \in {"RUNNING", "SLEEPING", "DEFUNCT"}
<1> DEFINE t == thread[running]
<1>1. /\ running \in Pcb \ {0}
      /\ state[running] \in {"RUNNING", "SLEEPING", "DEFUNCT"}
  BY DEF IInv, TypeOK, StatesExact
<1>2. /\ state[running] \in {"STARTING", "READY", "RUNNING"} =>
           /\ t.then = (IF t.todo = <<>> THEN "user" ELSE "spin")
           /\ t.todo # <<>> => t.todo = <<"release">> /\ t.pcb = running
      /\ state[running] = "SLEEPING" =>
           /\ t.todo = <<>>
           /\ t.then = (IF running = running /\ ~handler THEN "asleep" ELSE "user")
  <2>1. OthersExact
    BY DEF IInv
  <2> QED
    BY <1>1, <2>1, Zenon DEF OthersExact, OtherExact
<1>3. state[running] = "DEFUNCT" =>
        /\ t.then = "spin"
        /\ t.todo # <<>> => t.pcb = running
        /\ t.todo \in {<<>>, <<"where">>, <<"clearPrev">>,
                       <<"clearNext", "clearPrev">>,
                       <<"headPrev", "clearNext", "clearPrev">>,
                       <<"headNext", "headPrev", "clearNext", "clearPrev">>}
  <2>1. RunningExact
    BY DEF IInv
  <2> QED
    BY <1>1, <2>1 DEF RunningExact
<1>4. Step(t) = IF t.todo = <<>> THEN t.then ELSE Head(t.todo)
  BY DEF Step
<1> HIDE DEF t
<1>5. CASE state[running] = "RUNNING"
  <2>1. t.todo = <<"release">> => t.todo # <<>> /\ Head(t.todo) = "release"
    BY TodoFacts
  <2> QED
    BY <1>2, <1>4, <1>5, <2>1 DEF t
<1>6. CASE state[running] = "SLEEPING"
  BY <1>2, <1>4, <1>6 DEF t
<1>7. CASE state[running] = "DEFUNCT"
  <2>1. t.todo # <<>> =>
          Head(t.todo) \in {"where", "clearPrev", "clearNext", "headPrev", "headNext"}
    BY <1>3, <1>7
  <2> QED
    BY <1>3, <1>4, <1>7, <2>1 DEF t
<1> QED
  BY <1>1, <1>5, <1>6, <1>7 DEF t

-----------------------------------------------------------------------------
(* The steps.                                                              *)

LEMMA ThreadTypes ==
  /\ \A what \in {"user", "spin", "asleep"} : Doing(what) \in Thread
  /\ q \in Queue =>
       \A step \in Steps, p \in Pcb, after \in {"user", "spin", "asleep"} :
         Call(step, p, after) \in Thread
<1>1. ASSUME NEW what \in {"user", "spin", "asleep"} PROVE Doing(what) \in Thread
  BY <1>1 DEF Doing, Thread, PcbPtr
<1>2. ASSUME q \in Queue, NEW step \in Steps, NEW p \in Pcb,
             NEW after \in {"user", "spin", "asleep"}
      PROVE  Call(step, p, after) \in Thread
  <2>1. <<step>> \in Seq(Steps)
    OBVIOUS
  <2> QED
    BY <1>2, <2>1 DEF Call, Thread, PcbPtr
<1> QED
  BY <1>1, <1>2

\* A process that does nothing goes on as before.
LEMMA OtherKept ==
  ASSUME NEW x \in Pcb \ {0}, OtherExact(x),
         thread'[x] = thread[x], state'[x] = state[x],
         running' = running, handler' = handler
  PROVE  OtherExact(x)'
  BY DEF OtherExact

LEMMA InitIInv == Init => IInv
<1> SUFFICES ASSUME Init PROVE IInv
  OBVIOUS
<1> USE DEF Init
<1>1. /\ 0 \in Pcb /\ NULL \notin Pcb
      /\ \A p \in Pcb : thread[p] = Doing("user")
  BY PoolAssumption, NullAssumption
<1>2. \A p \in Pcb : /\ thread[p].todo = <<>> /\ thread[p].pcb = NULL
                     /\ thread[p].then = "user" /\ thread[p].was = NULL
  BY <1>1 DEF Doing
<1>3. q \in Queue /\ q.head = NULL /\ q.tail = NULL
      /\ \A p \in Pcb : q.prev[p] = NULL
  BY DEF EmptyQueue, Queue, PcbPtr
<1>4. Shell.todo = <<>> /\ Step(Shell) = "user"
  BY <1>1, <1>2 DEF Shell, Step
<1>5. TypeOK
  <2>1. state \in [Pcb -> {"DEFUNCT", "STARTING", "READY", "RUNNING", "SLEEPING"}]
    OBVIOUS
  <2>2. \A p \in Pcb : thread[p] \in Thread
    BY <1>1, ThreadTypes
  <2> QED
    BY <1>1, <1>3, <2>1, <2>2 DEF TypeOK
<1>6. StatesExact
  BY <1>1 DEF StatesExact
<1>7. ShellExact
  BY <1>1, <1>2, <1>4 DEF ShellExact, Shell
<1>8. ListSettled
  <2>1. Settled = q
    BY <1>4, OneStatement DEF Settled, Settles, Tests
  <2>2. Listed = {}
    BY <1>4 DEF Listed
  <2>3. Represents(q, <<>>) /\ NoDuplicates(<<>>) /\ Elements(<<>>) = {}
    BY <1>3 DEF Represents, NoDuplicates, Elements
  <2>4. ListedAs(<<>>)
    BY <2>1, <2>2, <2>3 DEF ListedAs
  <2>5. Settled \in Queue
    BY <1>3, <2>1
  <2>6. <<>> \in Seq(Pcb)
    OBVIOUS
  <2> QED
    BY <2>4, <2>5, <2>6, Zenon DEF ListSettled
<1>9. OthersExact
  BY <1>2 DEF OthersExact, OtherExact
<1>10. RunningExact
  BY DEF RunningExact
<1> QED
  BY <1>5, <1>6, <1>7, <1>8, <1>9, <1>10 DEF IInv

\* The list stays what it is.
LEMMA ListKept ==
  ASSUME ListSettled, Settled' = Settled, Listed' = Listed
  PROVE  ListSettled'
  BY DEF ListSettled, ListedAs

\* A call in progress has a next step.
LEMMA NotOver ==
  ASSUME NEW S, NEW s \in Seq(S), Len(s) \in 1 .. 4
  PROVE  s # <<>> /\ Head(s) \in S
<1>1. s # <<>>
  OBVIOUS
<1> QED
  BY <1>1, TailElements

\* The list becomes u.
LEMMA ListBecomes ==
  ASSUME NEW r \in Queue, NEW u \in Seq(Pcb), Settled' = r, Represents(r, u),
         NoDuplicates(u), Elements(u) = Listed'
  PROVE  ListSettled'
<1>1. ListedAs(u)'
  BY DEF ListedAs
<1> QED
  BY <1>1 DEF ListSettled

\* Without statements left, or with a test to come, the memory is as it is.
LEMMA SettledNow ==
  ASSUME NEW t, t.todo = <<>> \/ Step(t) \in Tests, NEW r
  PROVE  Settles(t, r) = r
<1>1. CASE t.todo = <<>>
  BY <1>1, OneStatement DEF Settles
<1>2. CASE Step(t) \in Tests
  BY <1>2 DEF Settles
<1> QED
  BY <1>1, <1>2

\* A program that is not the shell's.
LEMMA CallsFacts ==
  ASSUME IInv, NEW call, Invokes(call)
  PROVE  /\ running = 0 => call \in {"execute", "kill"} /\ Shell.todo = <<>>
                             /\ Shell.then = "user"
         /\ running # 0 =>
              /\ call \in {"sleep", "terminate"}
              /\ state[running] = "RUNNING"
              /\ thread[running].todo = <<>> /\ thread[running].then = "user"
         /\ ~handler /\ running \in Pcb
<1>1. /\ ~handler /\ Step(thread[running]) = "user" /\ call \in Calls[running]
      /\ running \in Pcb
  BY DEF Invokes, Executes, IInv, TypeOK
<1>2. CASE running = 0
  <2>1. Step(Shell) = "user"
    BY <1>1, <1>2 DEF Shell
  <2>2. call \in {"execute", "kill"}
    BY <1>1, <1>2, ProgramsAssumption
  <2> QED
    BY <1>1, <1>2, <2>1, <2>2, ShellCases
<1>3. CASE running # 0
  <2>1. call \in {"sleep", "terminate"}
    BY <1>1, <1>3, ProgramsAssumption
  <2>2. state[running] # "SLEEPING"
    BY <1>1, <1>3, RunningCases
  <2>3. state[running] # "DEFUNCT"
    BY <1>1, <1>3, RunningCases
  <2>4. state[running] = "RUNNING"
    BY <1>3, <2>2, <2>3, RunningCases
  <2> QED
    BY <1>1, <1>3, <2>1, <2>4, RunningCases
<1> QED
  BY <1>2, <1>3

LEMMA LaunchIInv ==
  ASSUME IInv, NEW p \in Pcb, Launch(p)
  PROVE  IInv'
<1>1. /\ Invokes("execute") /\ state[p] = "DEFUNCT"
      /\ state' = [state EXCEPT ![p] = "STARTING"]
      /\ q' = q /\ running' = running /\ wild' = wild
      /\ handler' = handler /\ due' = due
  BY DEF Launch, irqVars
<1>2. TypeOK /\ StatesExact /\ ListSettled /\ OthersExact
  BY DEF IInv
<1>3. /\ running = 0 /\ ~handler /\ 0 \in Pcb /\ Shell.todo = <<>>
      /\ Shell.then = "user" /\ p # 0
  <2>1. running = 0
    BY <1>1, CallsFacts
  <2>2. p # 0
    BY <1>1, <1>2 DEF StatesExact
  <2> QED
    BY <1>1, <2>1, <2>2, CallsFacts, PoolAssumption
<1>4. /\ DOMAIN thread' = Pcb \cup {Idle}
      /\ thread'[p] = Doing("user") /\ thread'[0] = Call("add", p, "user")
      /\ \A x \in Pcb : x # p /\ x # 0 => thread'[x] = thread[x]
  <2>1. thread' = [thread EXCEPT ![p] = Doing("user"),
                                 ![running] = Call("add", p, "user")]
    BY DEF Launch
  <2> QED
    BY <1>2, <1>3, <2>1 DEF TypeOK
<1>5. /\ thread'[p].todo = <<>> /\ thread'[p].then = "user"
      /\ thread'[p].pcb = NULL /\ thread'[p].was = NULL
  BY <1>4 DEF Doing
<1>6. /\ Shell' = Call("add", p, "user")
      /\ Shell'.todo = <<"add">> /\ Shell'.pcb = p
      /\ Shell'.then = "user" /\ Shell'.was = q
  BY <1>4 DEF Shell, Call
<1>7. Step(Shell') = "add" /\ Step(Shell) = "user"
  BY <1>3, <1>6, ShellCases, TodoFacts DEF Step
<1>8. /\ state'[p] = "STARTING"
      /\ \A x \in Pcb : x # p => state'[x] = state[x]
      /\ state' \in [Pcb -> {"DEFUNCT", "STARTING", "READY", "RUNNING", "SLEEPING"}]
  BY <1>1, <1>2 DEF TypeOK
<1>9. TypeOK'
  <2>1. Doing("user") \in Thread
    BY ThreadTypes
  <2>2. Call("add", p, "user") \in Thread
    <3>1. "add" \in Steps
      BY DEF Steps
    <3> QED
      BY <1>2, <3>1, ThreadTypes DEF TypeOK
  <2>3. \A x \in Pcb : thread'[x] \in Thread
    BY <1>2, <1>4, <2>1, <2>2 DEF TypeOK
  <2> QED
    BY <1>1, <1>2, <1>4, <1>8, <2>3 DEF TypeOK
<1>10. StatesExact'
  BY <1>1, <1>2, <1>3, <1>8 DEF StatesExact, TypeOK
<1>11. ShellExact'
  BY <1>1, <1>3, <1>6, <1>8 DEF ShellExact, ShellAdds, Undisturbed
<1>12. ListSettled'
  <2>1. Settled' = Settled
    <3>1. Settles(Shell', q') = q'
      BY <1>7, SettledNow DEF Tests
    <3>2. Settles(Shell, q) = q
      BY <1>3, SettledNow
    <3> QED
      BY <1>1, <3>1, <3>2 DEF Settled
  <2>2. Listed' = Listed
    <3>1. Listed = {x \in Pcb : state[x] \in {"READY", "STARTING"}}
      BY <1>7, ListedFacts
    <3>2. Listed' = {x \in Pcb : state'[x] \in {"READY", "STARTING"}} \ {p}
      BY <1>6, <1>7 DEF Listed
    <3> QED
      BY <1>1, <1>8, <3>1, <3>2
  <2> QED
    BY <1>2, <2>1, <2>2, ListKept
<1>13. OthersExact'
  <2>1. ASSUME NEW x \in Pcb \ {0} PROVE OtherExact(x)'
    <3>1. CASE x = p
      BY <1>5, <1>8, <3>1 DEF OtherExact
    <3>2. CASE x # p
      <4>1. thread'[x] = thread[x] /\ state'[x] = state[x]
        BY <1>4, <1>8, <2>1, <3>2
      <4> QED
        BY <1>1, <1>2, <2>1, <4>1, OtherKept DEF OthersExact
    <3> QED
      BY <3>1, <3>2
  <2> QED
    BY <2>1 DEF OthersExact
<1>14. RunningExact'
  BY <1>1, <1>3 DEF RunningExact
<1> QED
  BY <1>9, <1>10, <1>11, <1>12, <1>13, <1>14 DEF IInv

LEMMA TerminateIInv ==
  ASSUME IInv, Terminate
  PROVE  IInv'
<1> DEFINE r == running
<1>1. /\ Invokes("terminate")
      /\ thread' = [thread EXCEPT ![r] = Call("release", r, "spin")]
      /\ q' = q /\ state' = state /\ running' = r /\ wild' = wild
      /\ handler' = handler /\ due' = due
  BY DEF Terminate, irqVars
<1>2. TypeOK /\ StatesExact /\ ShellExact /\ ListSettled /\ OthersExact /\ RunningExact
  BY DEF IInv
<1>3. /\ r \in Pcb \ {0} /\ ~handler /\ 0 \in Pcb /\ state[r] = "RUNNING"
      /\ r # 0 /\ r \in Pcb
  <2>1. r # 0
    BY <1>1, CallsFacts
  <2> QED
    BY <1>1, <2>1, CallsFacts, PoolAssumption
<1>4. /\ DOMAIN thread' = Pcb \cup {Idle}
      /\ thread'[r] = Call("release", r, "spin")
      /\ \A x \in Pcb : x # r => thread'[x] = thread[x]
  BY <1>1, <1>2, <1>3 DEF TypeOK
<1>5. /\ thread'[r].todo = <<"release">> /\ thread'[r].then = "spin"
      /\ thread'[r].pcb = r /\ thread'[r].was = q
  BY <1>4 DEF Call
<1>6. Shell' = Shell
  BY <1>3, <1>4 DEF Shell
<1>7. TypeOK'
  <2>1. "release" \in Steps
    BY DEF Steps
  <2>2. thread'[r] \in Thread
    BY <1>2, <1>3, <1>4, <2>1, ThreadTypes DEF TypeOK
  <2> QED
    BY <1>1, <1>2, <1>4, <2>2 DEF TypeOK
<1>8. StatesExact'
  BY <1>1, <1>2 DEF StatesExact
<1>9. ShellExact'
  BY <1>1, <1>2, <1>6, Zenon
     DEF ShellExact, ShellAdds, ShellLinks, ShellReleases, ShellUnlinks, Undisturbed, Located
<1>10. ListSettled'
  <2>1. Settled' = Settled
    BY <1>1, <1>6, Zenon DEF Settled
  <2>2. Listed' = Listed
    BY <1>1, <1>6 DEF Listed
  <2> QED
    BY <1>2, <2>1, <2>2, ListKept
<1>11. OthersExact'
  <2>1. ASSUME NEW x \in Pcb \ {0} PROVE OtherExact(x)'
    <3>1. CASE x = r
      <4>1. <<"release">> # <<>>
        BY TodoFacts
      <4> QED
        BY <1>1, <1>3, <1>5, <3>1, <4>1 DEF OtherExact
    <3>2. CASE x # r
      BY <1>1, <1>2, <1>4, <2>1, <3>2, OtherKept DEF OthersExact
    <3> QED
      BY <3>1, <3>2
  <2> QED
    BY <2>1 DEF OthersExact
<1>12. RunningExact'
  <2>1. <<"release">> # <<"clearPrev">>
    BY TodoFacts
  <2>2. q.next[r] = q.head
    BY <1>2, <1>3 DEF RunningExact
  <2> QED
    BY <1>1, <1>3, <1>5, <2>1, <2>2 DEF RunningExact
<1> QED
  BY <1>7, <1>8, <1>9, <1>10, <1>11, <1>12 DEF IInv

LEMMA KillIInv ==
  ASSUME IInv, NEW p \in Pcb, Kill(p)
  PROVE  IInv'
<1>1. /\ Invokes(IF Located(p) THEN "kill" ELSE "killStale")
      /\ state[p] \in {"READY", "STARTING"}
      /\ thread' = [thread EXCEPT ![running] = Call("release", p, "user")]
      /\ q' = q /\ state' = state /\ running' = running /\ wild' = wild
      /\ handler' = handler /\ due' = due
  BY DEF Kill, irqVars
<1>2. TypeOK /\ StatesExact /\ ListSettled /\ OthersExact
  BY DEF IInv
<1>3. /\ running = 0 /\ ~handler /\ 0 \in Pcb /\ Shell.todo = <<>>
      /\ Shell.then = "user" /\ p # 0 /\ Located(p)
  <2> DEFINE call == IF Located(p) THEN "kill" ELSE "killStale"
  <2>1. Invokes(call) /\ call \notin {"sleep", "terminate"} /\ call # "execute"
    BY <1>1
  <2>2. running = 0 /\ call = "kill" /\ ~handler /\ Shell.todo = <<>> /\ Shell.then = "user"
    <3> HIDE DEF call
    <3> QED
      BY <2>1, CallsFacts
  <2>3. p # 0
    BY <1>1, <2>2, ListedFacts
  <2> QED
    BY <2>2, <2>3, PoolAssumption
<1>4. /\ DOMAIN thread' = Pcb \cup {Idle}
      /\ thread'[0] = Call("release", p, "user")
      /\ \A x \in Pcb : x # 0 => thread'[x] = thread[x]
  BY <1>1, <1>2, <1>3 DEF TypeOK
<1>5. /\ Shell' = Call("release", p, "user")
      /\ Shell'.todo = <<"release">> /\ Shell'.pcb = p
      /\ Shell'.then = "user" /\ Shell'.was = q
  BY <1>4 DEF Shell, Call
<1>6. Step(Shell') = "release" /\ Step(Shell) = "user"
  BY <1>3, <1>5, ShellCases, TodoFacts DEF Step
<1>7. TypeOK'
  <2>1. "release" \in Steps
    BY DEF Steps
  <2>2. thread'[0] \in Thread
    BY <1>2, <1>4, <2>1, ThreadTypes DEF TypeOK
  <2> QED
    BY <1>1, <1>2, <1>4, <2>2 DEF TypeOK
<1>8. StatesExact'
  BY <1>1, <1>2 DEF StatesExact
<1>9. ShellExact'
  <2>1. ShellReleases(Shell)'
    <3>1. <<"release">> # <<"where">>
      BY TodoFacts
    <3> QED
      BY <1>1, <1>3, <1>5, <3>1 DEF ShellReleases, Undisturbed, Located
  <2> QED
    BY <1>1, <1>3, <1>5, <2>1 DEF ShellExact, Undisturbed
<1>10. ListSettled'
  <2>1. Settled' = Settled
    <3>1. Settles(Shell', q') = q'
      BY <1>6, SettledNow DEF Tests
    <3>2. Settles(Shell, q) = q
      BY <1>3, SettledNow
    <3> QED
      BY <1>1, <3>1, <3>2 DEF Settled
  <2>2. Listed' = Listed
    BY <1>1, <1>6 DEF Listed
  <2> QED
    BY <1>2, <2>1, <2>2, ListKept
<1>11. OthersExact'
  BY <1>1, <1>2, <1>4, OtherKept DEF OthersExact
<1>12. RunningExact'
  BY <1>1, <1>3 DEF RunningExact
<1> QED
  BY <1>7, <1>8, <1>9, <1>10, <1>11, <1>12 DEF IInv

LEMMA SleepIInv ==
  ASSUME IInv, Sleep
  PROVE  IInv'
<1> DEFINE r == running
<1>1. /\ Invokes("sleep")
      /\ state' = [state EXCEPT ![r] = "SLEEPING"]
      /\ thread' = [thread EXCEPT ![r] = Doing("asleep")]
      /\ q' = q /\ running' = r /\ wild' = wild
      /\ handler' = handler /\ due' = due
  BY DEF Sleep, irqVars
<1>2. TypeOK /\ StatesExact /\ ShellExact /\ ListSettled /\ OthersExact /\ RunningExact
  BY DEF IInv
<1>3. /\ r \in Pcb \ {0} /\ ~handler /\ 0 \in Pcb /\ state[r] = "RUNNING"
      /\ r # 0 /\ r \in Pcb
  <2>1. r # 0
    BY <1>1, CallsFacts
  <2> QED
    BY <1>1, <2>1, CallsFacts, PoolAssumption
<1>4. /\ DOMAIN thread' = Pcb \cup {Idle}
      /\ thread'[r] = Doing("asleep")
      /\ \A x \in Pcb : x # r => thread'[x] = thread[x]
      /\ state'[r] = "SLEEPING"
      /\ \A x \in Pcb : x # r => state'[x] = state[x]
      /\ state' \in [Pcb -> {"DEFUNCT", "STARTING", "READY", "RUNNING", "SLEEPING"}]
  BY <1>1, <1>2, <1>3 DEF TypeOK
<1>5. thread'[r].todo = <<>> /\ thread'[r].then = "asleep"
  BY <1>4 DEF Doing
<1>6. Shell' = Shell
  BY <1>3, <1>4 DEF Shell
<1>7. TypeOK'
  <2>1. thread'[r] \in Thread
    BY <1>4, ThreadTypes
  <2> QED
    BY <1>1, <1>2, <1>4, <2>1 DEF TypeOK
<1>8. StatesExact'
  BY <1>1, <1>2, <1>3, <1>4 DEF StatesExact, TypeOK
<1>9. ShellExact'
  <2>1. Shell.todo # <<>> => state'[Shell.pcb] = state[Shell.pcb]
    BY <1>4, ShellCases
  <2>2. CASE Shell.todo = <<>>
    BY <1>2, <1>6, <2>2 DEF ShellExact
  <2>3. CASE Shell.todo # <<>>
    <3>1. state'[Shell.pcb] = state[Shell.pcb]
      BY <2>1, <2>3
    <3> QED
      BY <1>1, <1>2, <1>6, <3>1, Zenon
         DEF ShellExact, ShellAdds, ShellLinks, ShellReleases, ShellUnlinks, Undisturbed, Located
  <2> QED
    BY <2>2, <2>3
<1>10. ListSettled'
  <2>1. Settled' = Settled
    BY <1>1, <1>6, Zenon DEF Settled
  <2>2. Listed' = Listed
    <3>1. {x \in Pcb : state'[x] \in {"READY", "STARTING"}}
            = {x \in Pcb : state[x] \in {"READY", "STARTING"}}
      BY <1>3, <1>4
    <3> QED
      BY <1>6, <3>1 DEF Listed
  <2> QED
    BY <1>2, <2>1, <2>2, ListKept
<1>11. OthersExact'
  <2>1. ASSUME NEW x \in Pcb \ {0} PROVE OtherExact(x)'
    <3>1. CASE x = r
      BY <1>1, <1>3, <1>4, <1>5, <3>1 DEF OtherExact
    <3>2. CASE x # r
      BY <1>1, <1>2, <1>4, <2>1, <3>2, OtherKept DEF OthersExact
    <3> QED
      BY <3>1, <3>2
  <2> QED
    BY <2>1 DEF OthersExact
<1>12. RunningExact'
  <2>1. q.next[r] = q.head
    BY <1>2, <1>3 DEF RunningExact
  <2> QED
    BY <1>1, <1>3, <1>4, <1>5, <2>1 DEF RunningExact
<1> QED
  BY <1>7, <1>8, <1>9, <1>10, <1>11, <1>12 DEF IInv

LEMMA AddTestIInv ==
  ASSUME IInv, AddTest
  PROVE  IInv'
<1> DEFINE p == Shell.pcb
           t == AddBranch(q)
<1>1. /\ ~handler /\ Step(thread[running]) = "add"
      /\ thread' = [thread EXCEPT ![running].todo = AddBranch(q)]
      /\ q' = q /\ state' = state /\ running' = running /\ wild' = wild
      /\ handler' = handler /\ due' = due
  BY DEF AddTest, Executes, irqVars
<1>2. TypeOK /\ StatesExact /\ ShellExact /\ ListSettled /\ OthersExact
  BY DEF IInv
<1>3. running = 0 /\ 0 \in Pcb /\ Undisturbed
  <2>1. running = 0
    BY <1>1, RunningCases
  <2> QED
    BY <1>1, <2>1, PoolAssumption DEF Undisturbed
<1>4. /\ Step(Shell) = "add" /\ ShellAdds(Shell) /\ Shell.then = "user"
      /\ p \in Pcb \ {0} /\ p # running /\ Shell.todo # <<>>
  <2>1. Step(Shell) = "add"
    BY <1>1, <1>3 DEF Shell
  <2>2. "add" # "user" /\ "add" \notin AddSteps /\ "add" \notin ReleaseSteps
    BY DEF AddSteps, ReleaseSteps
  <2> QED
    BY <2>1, <2>2, ShellCases
<1>5. /\ DOMAIN thread' = Pcb \cup {Idle}
      /\ thread'[0] = [Shell EXCEPT !.todo = t]
      /\ \A x \in Pcb : x # 0 => thread'[x] = thread[x]
  BY <1>1, <1>2, <1>3 DEF TypeOK, Shell
<1>6. Shell \in Thread
  BY <1>2, <1>3 DEF TypeOK, Shell
<1>7. /\ Shell'.todo = t /\ Shell'.pcb = p
      /\ Shell'.then = "user" /\ Shell'.was = Shell.was
  <2>1. Shell' = [Shell EXCEPT !.todo = t]
    BY <1>5 DEF Shell
  <2> HIDE DEF t
  <2> QED
    BY <1>4, <1>6, <2>1 DEF Thread
<1>8. q \in Queue /\ Settled = q
  BY <1>2, <1>4, SettledNow DEF TypeOK, Settled, Tests
<1>9. PICK s \in Seq(Pcb) : ListedAs(s)
  BY <1>2 DEF ListSettled
<1>10. Represents(q, s) /\ NoDuplicates(s) /\ Elements(s) = Listed
  BY <1>8, <1>9 DEF ListedAs
<1>11. ~AddFaults(q)
  BY <1>8, <1>10, ListFacts
<1>12. /\ t \in Seq(AddSteps) /\ Len(t) \in 1 .. 4
       /\ Rest(t, q, p) = AddToReady(q, p)
       /\ Steady(t, q, p)
  BY <1>4, <1>8, <1>11, AddBranchDoes
<1> HIDE DEF t
<1>13. t # <<>> /\ Head(t) \in AddSteps
  BY <1>12, NotOver
<1>14. Step(Shell') \in AddSteps
  BY <1>7, <1>13 DEF Step
<1>15. TypeOK'
  <2>1. t \in Seq(Steps)
    BY <1>12, StepNames
  <2>2. thread'[0] \in Thread
    BY <1>5, <1>6, <2>1 DEF Thread
  <2> QED
    BY <1>1, <1>2, <1>5, <2>2 DEF TypeOK
<1>16. StatesExact'
  BY <1>1, <1>2 DEF StatesExact
<1>17. ShellExact'
  <2>1. state[p] = "STARTING" /\ Shell.was \in {NULL, q}
    BY <1>4 DEF ShellAdds
  <2>2. ShellLinks(Shell')
    BY <1>3, <1>7, <1>12, <2>1 DEF ShellLinks
  <2>3. ShellLinks(Shell)'
    BY <1>1, <1>3, <1>7, <1>12, <2>1 DEF ShellLinks, Undisturbed
  <2> QED
    BY <1>1, <1>3, <1>4, <1>7, <2>3 DEF ShellExact, Undisturbed
<1>18. ListSettled'
  <2>1. Settled' = AddToReady(q, p)
    <3>1. Step(Shell') \notin Tests
      BY <1>14, StepNames
    <3>2. Settles(Shell', q') = Rest(t, q, p)
      BY <1>1, <1>7, <3>1 DEF Settles
    <3> QED
      BY <1>12, <3>2 DEF Settled
  <2>2. Listed' = Listed \cup {p} /\ p \notin Listed
    <3>1. Listed = {x \in Pcb : state[x] \in {"READY", "STARTING"}} \ {p}
      BY <1>4, ListedFacts
    <3>2. Step(Shell') \notin {"add", "where"}
      BY <1>14, StepNames DEF Tests
    <3>3. Listed' = {x \in Pcb : state[x] \in {"READY", "STARTING"}}
      BY <1>1, <3>2 DEF Listed
    <3>4. state[p] = "STARTING"
      BY <1>4 DEF ShellAdds
    <3> QED
      BY <1>4, <3>1, <3>3, <3>4
  <2>3. \A i \in 1 .. Len(s) : s[i] # p
    BY <1>10, <2>2 DEF Elements
  <2>4. /\ AddToReady(q, p) \in Queue
        /\ Represents(AddToReady(q, p), Append(s, p))
        /\ NoDuplicates(Append(s, p))
    BY <1>4, <1>8, <1>10, <2>3, AddToReadyAppends
  <2>5. Append(s, p) \in Seq(Pcb) /\ Elements(Append(s, p)) = Listed \cup {p}
    BY <1>4, <1>10, AppendSet, AppendElements
  <2> QED
    BY <2>1, <2>2, <2>4, <2>5, ListBecomes
<1>19. OthersExact'
  BY <1>1, <1>2, <1>5, OtherKept DEF OthersExact
<1>20. RunningExact'
  BY <1>1, <1>3 DEF RunningExact
<1> QED
  BY <1>15, <1>16, <1>17, <1>18, <1>19, <1>20 DEF IInv

\* releasePCB sets the state: of the process the shell kills, or ...
LEMMA ShellReleaseStateIInv ==
  ASSUME IInv, ReleaseState, running = 0
  PROVE  IInv'
<1> DEFINE p == Shell.pcb
<1>1. /\ ~handler /\ Step(thread[running]) = "release"
      /\ state' = [state EXCEPT ![Arg] = "DEFUNCT"]
      /\ thread' = [thread EXCEPT ![running].todo = <<"where">>]
      /\ q' = q /\ running' = running /\ wild' = wild
      /\ handler' = handler /\ due' = due
  BY DEF ReleaseState, Executes, irqVars
<1>2. TypeOK /\ StatesExact /\ ShellExact /\ ListSettled /\ OthersExact
  BY DEF IInv
<1>3. 0 \in Pcb /\ Undisturbed /\ Arg = p
  BY <1>1, PoolAssumption DEF Undisturbed, Arg, Shell
<1>4. /\ Step(Shell) = "release" /\ ShellReleases(Shell) /\ Shell.then = "user"
      /\ p \in Pcb \ {0} /\ p # running /\ Shell.todo # <<>>
      /\ Shell.todo # <<"where">>
  <2>1. Step(Shell) = "release"
    BY <1>1 DEF Shell
  <2>2. /\ "release" # "user" /\ "release" \notin AddSteps
        /\ "release" \notin ReleaseSteps /\ "release" # "add"
    BY DEF AddSteps, ReleaseSteps
  <2> QED
    BY <2>1, <2>2, ShellCases
<1>5. /\ DOMAIN thread' = Pcb \cup {Idle}
      /\ thread'[0] = [Shell EXCEPT !.todo = <<"where">>]
      /\ \A x \in Pcb : x # 0 => thread'[x] = thread[x]
      /\ state'[p] = "DEFUNCT"
      /\ \A x \in Pcb : x # p => state'[x] = state[x]
      /\ state' \in [Pcb -> {"DEFUNCT", "STARTING", "READY", "RUNNING", "SLEEPING"}]
  BY <1>1, <1>2, <1>3, <1>4 DEF TypeOK, Shell
<1>6. Shell \in Thread
  BY <1>2, <1>3 DEF TypeOK, Shell
<1>7. /\ Shell'.todo = <<"where">> /\ Shell'.pcb = p
      /\ Shell'.then = "user" /\ Shell'.was = Shell.was
  <2>1. Shell' = [Shell EXCEPT !.todo = <<"where">>]
    BY <1>5 DEF Shell
  <2> QED
    BY <1>4, <1>6, <2>1 DEF Thread
<1>8. Step(Shell') = "where"
  BY <1>7, TodoFacts DEF Step
<1>9. /\ state[p] \in {"READY", "STARTING"} /\ Located(p) /\ Shell.was = q
  BY <1>4 DEF ShellReleases
<1>10. TypeOK'
  <2>1. <<"where">> \in Seq(Steps)
    BY DEF Steps
  <2>2. thread'[0] \in Thread
    BY <1>5, <1>6, <2>1 DEF Thread
  <2> QED
    BY <1>1, <1>2, <1>5, <2>2 DEF TypeOK
<1>11. StatesExact'
  BY <1>1, <1>2, <1>4, <1>5, <1>9 DEF StatesExact, TypeOK
<1>12. ShellExact'
  <2>1. ShellReleases(Shell)'
    BY <1>1, <1>3, <1>5, <1>7, <1>9 DEF ShellReleases, Undisturbed, Located
  <2> QED
    BY <1>1, <1>3, <1>4, <1>7, <2>1 DEF ShellExact, Undisturbed
<1>13. ListSettled'
  <2>1. Settled' = Settled
    <3>1. Settles(Shell', q') = q'
      BY <1>8, SettledNow DEF Tests
    <3>2. Settles(Shell, q) = q
      BY <1>4, SettledNow DEF Tests
    <3> QED
      BY <1>1, <3>1, <3>2 DEF Settled
  <2>2. Listed' = Listed
    <3>1. Listed = {x \in Pcb : state[x] \in {"READY", "STARTING"}}
      BY <1>4, ListedFacts
    <3>2. Listed' = {x \in Pcb : state'[x] \in {"READY", "STARTING"}} \cup {p}
      BY <1>7, <1>8 DEF Listed
    <3> QED
      BY <1>4, <1>5, <1>9, <3>1, <3>2
  <2> QED
    BY <1>2, <2>1, <2>2, ListKept
<1>14. OthersExact'
  <2>1. ASSUME NEW x \in Pcb \ {0} PROVE OtherExact(x)'
    <3>1. CASE x = p
      <4>1. thread'[x] = thread[x] /\ OtherExact(x)
        BY <1>2, <1>5, <2>1 DEF OthersExact
      <4> QED
        BY <1>1, <1>5, <3>1, <4>1 DEF OtherExact
    <3>2. CASE x # p
      BY <1>1, <1>2, <1>5, <2>1, <3>2, OtherKept DEF OthersExact
    <3> QED
      BY <3>1, <3>2
  <2> QED
    BY <2>1 DEF OthersExact
<1>15. RunningExact'
  BY <1>1 DEF RunningExact
<1> QED
  BY <1>10, <1>11, <1>12, <1>13, <1>14, <1>15 DEF IInv

\* ... of the process that terminates.
LEMMA OtherReleaseStateIInv ==
  ASSUME IInv, ReleaseState, running # 0
  PROVE  IInv'
<1> DEFINE r == running
           t == thread[r]
<1>1. /\ ~handler /\ Step(t) = "release"
      /\ state' = [state EXCEPT ![Arg] = "DEFUNCT"]
      /\ thread' = [thread EXCEPT ![r].todo = <<"where">>]
      /\ q' = q /\ running' = running /\ wild' = wild
      /\ handler' = handler /\ due' = due
  BY DEF ReleaseState, Executes, irqVars
<1>2. TypeOK /\ StatesExact /\ ShellExact /\ ListSettled /\ OthersExact /\ RunningExact
  BY DEF IInv
<1>3. r \in Pcb /\ r \in Pcb \ {0} /\ 0 \in Pcb /\ r # 0
  BY <1>2, PoolAssumption DEF TypeOK
<1>4. /\ state[r] = "RUNNING" /\ t.todo = <<"release">> /\ t.then = "spin" /\ t.pcb = r
  <2>1. state[r] # "SLEEPING"
    BY <1>1, RunningCases
  <2>2. state[r] # "DEFUNCT"
    BY <1>1, RunningCases
  <2>3. state[r] = "RUNNING"
    BY <2>1, <2>2, RunningCases
  <2> QED
    BY <1>1, <2>3, RunningCases
<1>5. Arg = r
  BY <1>4 DEF Arg
<1>6. /\ DOMAIN thread' = Pcb \cup {Idle}
      /\ thread'[r] = [t EXCEPT !.todo = <<"where">>]
      /\ \A x \in Pcb : x # r => thread'[x] = thread[x]
      /\ state'[r] = "DEFUNCT"
      /\ \A x \in Pcb : x # r => state'[x] = state[x]
      /\ state' \in [Pcb -> {"DEFUNCT", "STARTING", "READY", "RUNNING", "SLEEPING"}]
  BY <1>1, <1>2, <1>3, <1>5 DEF TypeOK
<1>7. t \in Thread
  BY <1>2, <1>3 DEF TypeOK
<1> DEFINE u == thread'[r]
<1>8. /\ u \in Thread
      /\ u.todo = <<"where">> /\ u.pcb = r /\ u.then = "spin" /\ u.was = t.was
  <2>1. <<"where">> \in Seq(Steps)
    BY DEF Steps
  <2>2. u = [t EXCEPT !.todo = <<"where">>]
    BY <1>6
  <2> HIDE DEF u, t
  <2> QED
    BY <1>4, <1>7, <2>1, <2>2 DEF Thread
<1> HIDE DEF u
<1>9. Shell' = Shell
  BY <1>3, <1>6 DEF Shell
<1>10. TypeOK'
  BY <1>1, <1>2, <1>6, <1>8 DEF TypeOK, u
<1>11. StatesExact'
  BY <1>1, <1>2, <1>3, <1>4, <1>6 DEF StatesExact, TypeOK
<1>12. ShellExact'
  <2>1. CASE Shell.todo = <<>>
    BY <1>2, <1>9, <2>1 DEF ShellExact
  <2>2. CASE Shell.todo # <<>>
    <3>1. state'[Shell.pcb] = state[Shell.pcb]
      BY <1>6, <2>2, ShellCases
    <3> QED
      BY <1>1, <1>2, <1>9, <3>1, Zenon
         DEF ShellExact, ShellAdds, ShellLinks, ShellReleases, ShellUnlinks, Undisturbed, Located
  <2> QED
    BY <2>1, <2>2
<1>13. ListSettled'
  <2>1. Settled' = Settled
    BY <1>1, <1>9, Zenon DEF Settled
  <2>2. Listed' = Listed
    <3>1. {x \in Pcb : state'[x] \in {"READY", "STARTING"}}
            = {x \in Pcb : state[x] \in {"READY", "STARTING"}}
      BY <1>4, <1>6
    <3> QED
      BY <1>9, <3>1 DEF Listed
  <2> QED
    BY <1>2, <2>1, <2>2, ListKept
<1>14. OthersExact'
  <2>1. ASSUME NEW x \in Pcb \ {0} PROVE OtherExact(x)'
    <3>1. CASE x = r
      BY <1>1, <1>6, <3>1 DEF OtherExact
    <3>2. CASE x # r
      BY <1>1, <1>2, <1>6, <2>1, <3>2, OtherKept DEF OthersExact
    <3> QED
      BY <3>1, <3>2
  <2> QED
    BY <2>1 DEF OthersExact
<1>15. RunningExact'
  <2>1. q.next[r] = q.head
    BY <1>2, <1>3, <1>4 DEF RunningExact
  <2>2. <<"where">> # <<>> /\ <<"where">> # <<"clearPrev">> /\ <<"release">> # <<"clearPrev">>
        /\ <<"release">> # <<>>
    BY TodoFacts
  <2>3. t.was # NULL => q = t.was
    BY <1>2, <1>3, <1>4, <2>2 DEF RunningExact
  <2> QED
    BY <1>1, <1>3, <1>6, <1>8, <2>1, <2>2, <2>3 DEF RunningExact, u
<1> QED
  BY <1>10, <1>11, <1>12, <1>13, <1>14, <1>15 DEF IInv

\* releasePCB looks at the links: of a process in the list ...
LEMMA ShellReleaseTestIInv ==
  ASSUME IInv, ReleaseTest, running = 0
  PROVE  IInv'
<1> DEFINE p == Shell.pcb
           t == ReleaseBranch(q, p)
<1>1. /\ ~handler /\ Step(thread[running]) = "where"
      /\ thread' = [thread EXCEPT ![running].todo = ReleaseBranch(q, Arg)]
      /\ q' = q /\ state' = state /\ running' = running /\ wild' = wild
      /\ handler' = handler /\ due' = due
  BY DEF ReleaseTest, Executes, irqVars
<1>2. TypeOK /\ StatesExact /\ ShellExact /\ ListSettled /\ OthersExact
  BY DEF IInv
<1>3. 0 \in Pcb /\ Undisturbed /\ Arg = p
  BY <1>1, PoolAssumption DEF Undisturbed, Arg, Shell
<1>4. /\ Step(Shell) = "where" /\ ShellReleases(Shell) /\ Shell.then = "user"
      /\ p \in Pcb \ {0} /\ p # running /\ Shell.todo = <<"where">>
  <2>1. Step(Shell) = "where"
    BY <1>1 DEF Shell
  <2>2. /\ "where" # "user" /\ "where" \notin AddSteps
        /\ "where" \notin ReleaseSteps /\ "where" # "add"
    BY DEF AddSteps, ReleaseSteps
  <2> QED
    BY <2>1, <2>2, ShellCases
<1>5. /\ DOMAIN thread' = Pcb \cup {Idle}
      /\ thread'[0] = [Shell EXCEPT !.todo = t]
      /\ \A x \in Pcb : x # 0 => thread'[x] = thread[x]
  BY <1>1, <1>2, <1>3 DEF TypeOK, Shell
<1>6. Shell \in Thread
  BY <1>2, <1>3 DEF TypeOK, Shell
<1>7. /\ Shell'.todo = t /\ Shell'.pcb = p
      /\ Shell'.then = "user" /\ Shell'.was = Shell.was
  <2>1. Shell' = [Shell EXCEPT !.todo = t]
    BY <1>5 DEF Shell
  <2> HIDE DEF t
  <2> QED
    BY <1>4, <1>6, <2>1 DEF Thread
<1>8. q \in Queue /\ Settled = q
  BY <1>2, <1>4, SettledNow DEF TypeOK, Settled, Tests
<1>9. PICK s \in Seq(Pcb) : ListedAs(s)
  BY <1>2 DEF ListSettled
<1>10. Represents(q, s) /\ NoDuplicates(s) /\ Elements(s) = Listed
  BY <1>8, <1>9 DEF ListedAs
<1>11. state[p] = "DEFUNCT" /\ Located(p) /\ Shell.was = q
  BY <1>4 DEF ShellReleases
<1>12. p \in Elements(s)
  BY <1>4, <1>10, ListedFacts
<1>13. /\ q.next[p] # p
       /\ ReleaseLinks(q, p) \in Queue
       /\ \E u \in Seq(Pcb) : /\ Represents(ReleaseLinks(q, p), u)
                              /\ NoDuplicates(u)
                              /\ Elements(u) = Elements(s) \ {p}
  <2>1. q.head # q.tail /\ (q.next[p] = NULL <=> p = q.tail)
    BY <1>11 DEF Located
  <2> HIDE DEF p
  <2> QED
    BY <1>8, <1>10, <1>12, <2>1, LocatedReleases
<1>14. /\ t \in Seq(ReleaseSteps) /\ Len(t) \in 1 .. 4 /\ ClearsLast(t)
       /\ Rest(t, q, p) = ReleaseLinks(q, p)
       /\ Steady(t, q, p)
  BY <1>4, <1>8, <1>13, ReleaseBranchDoes
<1> HIDE DEF t
<1>15. t # <<>> /\ Head(t) \in ReleaseSteps
  BY <1>14, NotOver
<1>16. Step(Shell') \in ReleaseSteps
  BY <1>7, <1>15 DEF Step
<1>17. TypeOK'
  <2>1. t \in Seq(Steps)
    BY <1>14, StepNames
  <2>2. thread'[0] \in Thread
    BY <1>5, <1>6, <2>1 DEF Thread
  <2> QED
    BY <1>1, <1>2, <1>5, <2>2 DEF TypeOK
<1>18. StatesExact'
  BY <1>1, <1>2 DEF StatesExact
<1>19. ShellExact'
  <2>1. ShellUnlinks(Shell)'
    BY <1>1, <1>3, <1>7, <1>11, <1>14 DEF ShellUnlinks, Undisturbed
  <2> QED
    BY <1>1, <1>3, <1>4, <1>7, <2>1 DEF ShellExact, Undisturbed
<1>20. ListSettled'
  <2>1. Settled' = ReleaseLinks(q, p)
    <3>1. Step(Shell') \notin Tests
      BY <1>16, StepNames
    <3>2. Settles(Shell', q') = Rest(t, q, p)
      BY <1>1, <1>7, <3>1 DEF Settles
    <3> QED
      BY <1>14, <3>2 DEF Settled
  <2>2. Listed' = Listed \ {p}
    <3>1. Listed = {x \in Pcb : state[x] \in {"READY", "STARTING"}} \cup {p}
      BY <1>4, ListedFacts
    <3>2. Step(Shell') \notin {"add", "where"}
      BY <1>16, StepNames DEF Tests
    <3>3. Listed' = {x \in Pcb : state[x] \in {"READY", "STARTING"}}
      BY <1>1, <3>2 DEF Listed
    <3> QED
      BY <1>11, <3>1, <3>3
  <2>3. PICK u \in Seq(Pcb) : /\ Represents(ReleaseLinks(q, p), u)
                              /\ NoDuplicates(u)
                              /\ Elements(u) = Elements(s) \ {p}
    BY <1>13
  <2> QED
    BY <1>10, <1>13, <2>1, <2>2, <2>3, ListBecomes
<1>21. OthersExact'
  BY <1>1, <1>2, <1>5, OtherKept DEF OthersExact
<1>22. RunningExact'
  BY <1>1 DEF RunningExact
<1> QED
  BY <1>17, <1>18, <1>19, <1>20, <1>21, <1>22 DEF IInv

\* ... or of the process that runs, taken out when it was last dequeued.
LEMMA OtherReleaseTestIInv ==
  ASSUME IInv, ReleaseTest, running # 0
  PROVE  IInv'
<1> DEFINE r == running
           t == thread[r]
           todo == <<"headNext", "headPrev", "clearNext", "clearPrev">>
<1>1. /\ ~handler /\ Step(t) = "where"
      /\ thread' = [thread EXCEPT ![r].todo = ReleaseBranch(q, Arg)]
      /\ q' = q /\ state' = state /\ running' = running /\ wild' = wild
      /\ handler' = handler /\ due' = due
  BY DEF ReleaseTest, Executes, irqVars
<1>2. TypeOK /\ StatesExact /\ ShellExact /\ ListSettled /\ OthersExact /\ RunningExact
  BY DEF IInv
<1>3. r \in Pcb /\ r \in Pcb \ {0} /\ 0 \in Pcb /\ r # 0 /\ ~Undisturbed
  BY <1>2, PoolAssumption DEF TypeOK, Undisturbed
<1>4. state[r] = "DEFUNCT" /\ t.todo # <<>> /\ Head(t.todo) = "where" /\ t.then = "spin" /\ t.pcb = r
  <2>1. state[r] # "SLEEPING"
    BY <1>1, RunningCases
  <2>2. state[r] # "RUNNING"
    BY <1>1, RunningCases
  <2>3. state[r] = "DEFUNCT"
    BY <2>1, <2>2, RunningCases
  <2>4. t.todo # <<>>
    BY <1>1, <2>3, RunningCases
  <2> QED
    BY <1>1, <2>3, <2>4, RunningCases
<1>5. /\ t.todo # <<"clearPrev">> /\ q.next[r] = q.head
      /\ t.was # NULL => q = t.was
  <2>1. t.todo # <<"clearPrev">>
    BY <1>4, TodoFacts
  <2> QED
    BY <1>2, <1>3, <1>4, <2>1 DEF RunningExact
<1>6. q.head # NULL /\ q.prev[r] = NULL
  <2>1. 0 \in Listed /\ r \notin Listed
    BY ListedFacts
  <2> QED
    BY <1>3, <2>1, AwayFacts
<1>7. ReleaseBranch(q, Arg) = todo
  <2>1. Arg = r
    BY <1>4 DEF Arg
  <2>2. ReleaseBranch(q, r) = <<"headNext", "headPrev">> \o <<"clearNext", "clearPrev">>
    BY <1>5, <1>6 DEF ReleaseBranch
  <2> QED
    BY <2>1, <2>2, PairsJoined
<1>8. /\ DOMAIN thread' = Pcb \cup {Idle}
      /\ thread'[r] = [t EXCEPT !.todo = todo]
      /\ \A x \in Pcb : x # r => thread'[x] = thread[x]
  BY <1>1, <1>2, <1>3, <1>7 DEF TypeOK
<1> DEFINE u == thread'[r]
<1>9. /\ u \in Thread
      /\ u.todo = todo /\ u.pcb = r /\ u.then = "spin" /\ u.was = t.was
  <2>1. todo \in Seq(Steps)
    BY DEF Steps, ReleaseSteps
  <2>2. u = [t EXCEPT !.todo = todo]
    BY <1>8
  <2>3. t \in Thread
    BY <1>2, <1>3 DEF TypeOK
  <2> HIDE DEF u, t, todo
  <2> QED
    BY <1>4, <2>1, <2>2, <2>3 DEF Thread
<1> HIDE DEF u
<1>10. Shell' = Shell
  BY <1>3, <1>8 DEF Shell
<1>11. TypeOK'
  BY <1>1, <1>2, <1>8, <1>9 DEF TypeOK, u
<1>12. StatesExact'
  BY <1>1, <1>2 DEF StatesExact
<1>13. ShellExact'
  BY <1>1, <1>2, <1>10, Zenon
     DEF ShellExact, ShellAdds, ShellLinks, ShellReleases, ShellUnlinks, Undisturbed, Located
<1>14. ListSettled'
  <2>1. Settled' = Settled
    BY <1>1, <1>10, Zenon DEF Settled
  <2>2. Listed' = Listed
    BY <1>1, <1>10 DEF Listed
  <2> QED
    BY <1>2, <2>1, <2>2, ListKept
<1>15. OthersExact'
  <2>1. ASSUME NEW x \in Pcb \ {0} PROVE OtherExact(x)'
    <3>1. CASE x = r
      BY <1>1, <1>4, <3>1 DEF OtherExact
    <3>2. CASE x # r
      BY <1>1, <1>2, <1>8, <2>1, <3>2, OtherKept DEF OthersExact
    <3> QED
      BY <3>1, <3>2
  <2> QED
    BY <2>1 DEF OthersExact
<1>16. RunningExact'
  <2>1. todo # <<"clearPrev">>
    <3>1. Len(todo) = 4 /\ Len(<<"clearPrev">>) = 1
      OBVIOUS
    <3> QED
      BY <3>1
  <2> QED
    BY <1>1, <1>3, <1>5, <1>8, <1>9, <2>1 DEF RunningExact, u
<1> QED
  BY <1>11, <1>12, <1>13, <1>14, <1>15, <1>16 DEF IInv

\* A shell that is away stays as it is, whatever the memory becomes.
LEMMA ShellKeptAway ==
  ASSUME IInv, ~Undisturbed, Shell' = Shell,
         Shell.todo # <<>> => /\ state'[Shell.pcb] = state[Shell.pcb]
                              /\ running' # Shell.pcb
  PROVE  ShellExact'
<1> DEFINE t == Shell
<1>1. t.then = "user" /\ (t.todo # <<>> => t.pcb \in Pcb \ {0} /\ t.was = NULL)
  BY ShellCases, ShellAway
<1>2. t.todo \in {<<>>, <<"add">>} \cup Clearing
  BY ShellAway DEF Away
<1>3. CASE t.todo = <<>>
  BY <1>1, <1>3 DEF ShellExact
<1>4. CASE t.todo = <<"add">>
  <2>1. t.todo # <<>> /\ Step(t) = "add"
    BY <1>4, TodoFacts DEF Step
  <2>2. ShellAdds(t)
    BY <2>1, ShellAway
  <2>3. ShellAdds(Shell)'
    BY <1>1, <2>1, <2>2 DEF ShellAdds
  <2> QED
    BY <1>1, <2>1, <2>3 DEF ShellExact
<1>5. CASE t.todo \in Clearing
  <2>1. /\ t.todo # <<>>
        /\ t.todo \in Seq(ReleaseSteps) /\ Len(t.todo) \in 1 .. 4
    BY <1>5, TodoFacts
  <2>2. ClearsLast(t.todo)
    BY <1>5, TodoOfRelease DEF Clearing
  <2>3. state[t.pcb] = "DEFUNCT"
    BY <1>5, ShellAway
  <2>4. Steady(t.todo, q', t.pcb)
    BY <1>1, <1>5, <2>1, ClearingSteady
  <2>5. ShellUnlinks(Shell)'
    BY <1>1, <1>5, <2>1, <2>2, <2>3, <2>4 DEF ShellUnlinks
  <2> QED
    BY <1>1, <2>1, <2>5 DEF ShellExact
<1> QED
  BY <1>2, <1>3, <1>4, <1>5

\* A statement of the shell's call: the rest amounts to the same.
LEMMA ShellStatementIInv ==
  ASSUME IInv, Statement, running = 0
  PROVE  IInv'
<1> DEFINE p == Shell.pcb
           l == Step(Shell)
           todo == Shell.todo
<1>1. /\ ~handler /\ todo # <<>> /\ l \notin {"add", "release", "where"}
      /\ q' = Assigned(l, q, p)
      /\ wild' = (Pointer(l, q, p) = NULL)
      /\ thread' = [thread EXCEPT ![0] =
                      IF Len(todo) = 1 THEN Doing(Shell.then)
                                       ELSE [Shell EXCEPT !.todo = Tail(@)]]
      /\ state' = state /\ running' = running
      /\ handler' = handler /\ due' = due
  BY DEF Statement, Executes, irqVars, Shell, Arg
<1>2. TypeOK /\ StatesExact /\ ShellExact /\ ListSettled /\ OthersExact
  BY DEF IInv
<1>3. 0 \in Pcb /\ Undisturbed /\ Shell \in Thread
  BY <1>1, <1>2, PoolAssumption DEF Undisturbed, TypeOK, Shell
<1>4. /\ l = Head(todo) /\ p \in Pcb \ {0} /\ p # running /\ Shell.then = "user"
      /\ \/ l \in AddSteps /\ ShellLinks(Shell)
         \/ l \in ReleaseSteps /\ ShellUnlinks(Shell)
  BY <1>1, ShellCases
<1>5. todo \in Seq(Steps) /\ Len(todo) \in 1 .. 4 /\ Steady(todo, q, p)
  BY <1>3, <1>4 DEF ShellLinks, ShellUnlinks, Thread
<1> DEFINE u == Assigned(l, q, p)
<1>6. /\ Rest(todo, q, p) = Rest(Tail(todo), u, p)
      /\ Pointer(l, q, p) # NULL /\ Steady(Tail(todo), u, p)
      /\ Len(todo) = 1 => Rest(todo, q, p) = u
  BY <1>4, <1>5, RestAfterFirst
<1>7. q' \in Queue /\ wild' = FALSE
  <2>1. l \in AddSteps \cup ReleaseSteps /\ p \in Pcb /\ q \in Queue
    BY <1>2, <1>4 DEF TypeOK
  <2>2. u \in Queue
    BY <2>1, AssignedInQueue
  <2> QED
    BY <1>1, <1>6, <2>2
<1>8. /\ DOMAIN thread' = Pcb \cup {Idle}
      /\ thread'[0] = IF Len(todo) = 1 THEN Doing("user")
                                       ELSE [Shell EXCEPT !.todo = Tail(todo)]
      /\ \A x \in Pcb : x # 0 => thread'[x] = thread[x]
  BY <1>1, <1>2, <1>3, <1>4 DEF TypeOK
<1>9. /\ Tail(todo) \in Seq(Steps) /\ Len(Tail(todo)) = Len(todo) - 1
      /\ \A i \in 1 .. Len(todo) - 1 : Tail(todo)[i] = todo[i + 1]
  BY <1>1, <1>5, TailElements
<1>10. TypeOK'
  <2>1. thread'[0] \in Thread
    <3>1. CASE Len(todo) = 1
      BY <1>8, <3>1, ThreadTypes
    <3>2. CASE Len(todo) # 1
      BY <1>3, <1>8, <1>9, <3>2 DEF Thread
    <3> QED
      BY <3>1, <3>2
  <2> QED
    BY <1>1, <1>2, <1>7, <1>8, <2>1 DEF TypeOK
<1>11. StatesExact'
  BY <1>1, <1>2 DEF StatesExact
<1>12. OthersExact'
  BY <1>1, <1>2, <1>8, OtherKept DEF OthersExact
<1>13. RunningExact'
  BY <1>1 DEF RunningExact
<1>14. l \notin Tests /\ Settled = Rest(todo, q, p)
  <2>1. l \notin Tests
    BY <1>4, StepNames
  <2> QED
    BY <2>1 DEF Settled, Settles
<1>15. l \notin {"add", "where"}
  BY <1>1
<1>16. CASE Len(todo) = 1
  <2>1. Shell' = Doing("user")
    BY <1>8, <1>16 DEF Shell
  <2>2. Shell'.todo = <<>> /\ Shell'.then = "user"
    BY <2>1 DEF Doing
  <2>3. ShellExact'
    BY <2>2 DEF ShellExact
  <2>4. Settled' = Settled
    <3>1. Settles(Shell', q') = q'
      BY <2>2, SettledNow
    <3> QED
      BY <1>1, <1>6, <1>14, <1>16, <3>1 DEF Settled
  <2>5. Listed' = Listed
    <3>1. Step(Shell') = "user"
      BY <2>2 DEF Step
    <3> QED
      BY <1>1, <1>15, <3>1 DEF Listed
  <2>6. ListSettled'
    BY <1>2, <2>4, <2>5, ListKept
  <2> QED
    BY <1>10, <1>11, <1>12, <1>13, <2>3, <2>6 DEF IInv
<1>17. CASE Len(todo) # 1
  <2> DEFINE rest == Tail(todo)
             n == Len(todo)
  <2>1. /\ Shell'.todo = rest /\ Shell'.pcb = p
        /\ Shell'.then = "user" /\ Shell'.was = Shell.was
    <3>1. Shell' = [Shell EXCEPT !.todo = rest]
      BY <1>8, <1>17 DEF Shell
    <3> HIDE DEF rest
    <3> QED
      BY <1>3, <1>4, <3>1 DEF Thread
  <2>2. Len(rest) \in 1 .. 4 /\ Len(rest) = n - 1 /\ n \in 2 .. 4
    <3>1. Len(rest) = n - 1 /\ n \in 1 .. 4 /\ n # 1
      BY <1>5, <1>9, <1>17
    <3> HIDE DEF rest, n
    <3> QED
      BY <3>1
  <2>3. rest # <<>> /\ Step(Shell') = Head(rest)
    <3>1. rest # <<>>
      BY <1>9, <2>2, NotOver
    <3> QED
      BY <2>1, <3>1 DEF Step
  <2>4. /\ ShellLinks(Shell) => rest \in Seq(AddSteps) /\ Head(rest) \in AddSteps
        /\ ShellUnlinks(Shell) => rest \in Seq(ReleaseSteps) /\ Head(rest) \in ReleaseSteps
    <3>1. ASSUME NEW S, todo \in Seq(S) PROVE rest \in Seq(S) /\ Head(rest) \in S
      <4>1. rest \in Seq(S)
        BY <1>1, <3>1, TailElements
      <4> QED
        BY <2>2, <4>1, NotOver
    <3> QED
      BY <3>1 DEF ShellLinks, ShellUnlinks
  <2>5. Step(Shell') \notin Tests
    BY <1>4, <2>3, <2>4, StepNames
  <2>6. Settled' = Settled
    <3>1. Settles(Shell', q') = Rest(rest, q', p)
      BY <2>1, <2>5 DEF Settles
    <3> QED
      BY <1>1, <1>6, <1>14, <3>1 DEF Settled
  <2>7. Listed' = Listed
    <3>1. Step(Shell') \notin {"add", "where"}
      BY <2>5 DEF Tests
    <3> QED
      BY <1>1, <1>15, <3>1 DEF Listed
  <2>8. ListSettled'
    BY <1>2, <2>6, <2>7, ListKept
  <2>9. Undisturbed' /\ running' = 0
    BY <1>1, <1>3 DEF Undisturbed
  <2>10. Rest(rest, q', p) = Rest(todo, q, p) /\ Steady(rest, q', p)
    BY <1>1, <1>6
  <2>11. ShellExact'
    <3>1. CASE l \in AddSteps /\ ShellLinks(Shell)
      <4>1. ShellLinks(Shell)'
        BY <1>1, <2>1, <2>2, <2>4, <2>9, <2>10, <3>1 DEF ShellLinks
      <4> QED
        BY <1>1, <1>4, <2>1, <2>9, <4>1 DEF ShellExact
    <3>2. CASE l \in ReleaseSteps /\ ShellUnlinks(Shell)
      <4>1. ClearsLast(rest)
        <5>1. ASSUME NEW k \in 1 .. Len(rest)
              PROVE  /\ rest[k] = "clearPrev" <=> k = Len(rest)
                     /\ rest[k] = "clearNext" <=> k = Len(rest) - 1
          <6>1. rest[k] = todo[k + 1] /\ k + 1 \in 1 .. n
                /\ (k + 1 = n <=> k = Len(rest)) /\ (k + 1 = n - 1 <=> k = Len(rest) - 1)
            <7> DEFINE m == Len(rest)
            <7>1. m \in 1 .. 4 /\ m = n - 1 /\ n \in 2 .. 4 /\ k \in 1 .. m
              BY <2>2
            <7>2. k \in 1 .. n - 1
              <8> HIDE DEF m, n
              <8> QED
                BY <7>1
            <7>3. rest[k] = todo[k + 1]
              BY <1>9, <7>2
            <7>4. /\ k + 1 \in 1 .. n /\ (k + 1 = n <=> k = m)
                  /\ (k + 1 = n - 1 <=> k = m - 1)
              <8> HIDE DEF m, n
              <8> QED
                BY <7>1
            <7> QED
              BY <7>3, <7>4
          <6>2. ClearsLast(todo)
            BY <3>2 DEF ShellUnlinks
          <6> HIDE DEF rest
          <6> QED
            BY <6>1, <6>2 DEF ClearsLast
        <5> QED
          BY <5>1 DEF ClearsLast
      <4>2. ShellUnlinks(Shell)'
        BY <1>1, <2>1, <2>2, <2>4, <2>9, <2>10, <3>2, <4>1 DEF ShellUnlinks
      <4> QED
        BY <1>1, <1>4, <2>1, <2>9, <4>2 DEF ShellExact
    <3> QED
      BY <1>4, <3>1, <3>2
  <2> QED
    BY <1>10, <1>11, <1>12, <1>13, <2>8, <2>11 DEF IInv
<1> QED
  BY <1>16, <1>17

\* What the statements of a terminate do: nothing, but clear a next link.
LEMMA OtherStatementDoes ==
  ASSUME IInv, Statement, running # 0
  PROVE  LET r == running
             t == thread[r]
             l == Step(t)
         IN  /\ state[r] = "DEFUNCT" /\ t.todo # <<>> /\ t.then = "spin" /\ t.pcb = r
             /\ wild' = FALSE
             /\ \/ /\ t.todo = <<"headNext", "headPrev", "clearNext", "clearPrev">>
                   /\ q' = q
                \/ /\ t.todo = <<"headPrev", "clearNext", "clearPrev">>
                   /\ q' = q
                \/ /\ t.todo = <<"clearNext", "clearPrev">>
                   /\ q' = [q EXCEPT !.next[r] = NULL]
                   /\ q' = ReleaseLinks(q, r)
                \/ t.todo = <<"clearPrev">> /\ q' = q
<1> DEFINE r == running
           t == thread[r]
           l == Step(t)
<1>1. /\ ~handler /\ t.todo # <<>> /\ l \notin {"add", "release", "where"}
      /\ q' = Assigned(l, q, t.pcb)
      /\ wild' = (Pointer(l, q, t.pcb) = NULL)
  BY DEF Statement, Executes, Arg
<1>2. q \in Queue /\ r \in Pcb /\ r # NULL /\ ~Undisturbed /\ RunningExact
  BY NullAssumption DEF IInv, TypeOK, Undisturbed
<1>3. state[r] = "DEFUNCT" /\ t.then = "spin" /\ t.pcb = r /\ l = Head(t.todo)
  <2>1. state[r] # "SLEEPING"
    BY <1>1, RunningCases
  <2>2. state[r] # "RUNNING"
    BY <1>1, RunningCases
  <2>3. state[r] = "DEFUNCT"
    BY <2>1, <2>2, RunningCases
  <2> QED
    BY <1>1, <2>3, RunningCases
<1>4. /\ t.todo \in {<<>>, <<"where">>, <<"clearPrev">>,
                     <<"clearNext", "clearPrev">>,
                     <<"headPrev", "clearNext", "clearPrev">>,
                     <<"headNext", "headPrev", "clearNext", "clearPrev">>}
      /\ t.todo \notin {<<>>, <<"clearPrev">>} => q.next[r] = q.head
  BY <1>2, <1>3 DEF RunningExact
<1>5. t.todo # <<"where">>
  BY <1>1, <1>3, TodoFacts
<1>6. q.head # NULL /\ q.head \in Pcb /\ q.prev[q.head] = NULL /\ q.prev[r] = NULL
  <2>1. 0 \in Listed /\ r \notin Listed /\ Listed \subseteq Pcb
    BY ListedFacts
  <2> QED
    BY <1>2, <2>1, AwayFacts
<1>7. CASE t.todo = <<"headNext", "headPrev", "clearNext", "clearPrev">>
  <2>1. l = "headNext"
    BY <1>3, <1>7
  <2>2. q.next[r] = q.head
    <3>1. Len(t.todo) = 4 /\ Len(<<"clearPrev">>) = 1
      BY <1>7
    <3> HIDE DEF r, t, l
    <3>2. t.todo # <<"clearPrev">>
      BY <3>1
    <3>3. t.todo # <<>>
      BY <1>1
    <3>4. t.todo \notin {<<>>, <<"clearPrev">>}
      BY <3>2, <3>3
    <3> QED
      BY <1>4, <3>4
  <2>3. [q EXCEPT !.head = q.next[r]] = q
    BY <1>2, <2>2 DEF Queue
  <2>4. q' = q /\ wild' = FALSE
    <3>1. q' = Assigned("headNext", q, r) /\ wild' = (Pointer("headNext", q, r) = NULL)
      BY <1>1, <1>3, <2>1
    <3>2. Assigned("headNext", q, r) = [q EXCEPT !.head = q.next[r]]
      BY ReleaseStatements
    <3>3. Pointer("headNext", q, r) = r
      BY Pointers
    <3> HIDE DEF r, t, l
    <3> QED
      BY <1>2, <2>3, <3>1, <3>2, <3>3 DEF r
  <2> QED
    BY <1>1, <1>3, <1>7, <2>4
<1>8. CASE t.todo = <<"headPrev", "clearNext", "clearPrev">>
  <2>1. l = "headPrev"
    BY <1>3, <1>8
  <2>2. [q EXCEPT !.prev[q.head] = NULL] = q
    BY <1>2, <1>6 DEF Queue
  <2>3. q' = q /\ wild' = FALSE
    <3>1. q' = Assigned("headPrev", q, r) /\ wild' = (Pointer("headPrev", q, r) = NULL)
      BY <1>1, <1>3, <2>1
    <3>2. Assigned("headPrev", q, r) = [q EXCEPT !.prev[q.head] = NULL]
      BY ReleaseStatements
    <3>3. Pointer("headPrev", q, r) = q.head
      BY Pointers
    <3> HIDE DEF r, t, l
    <3> QED
      BY <1>6, <2>2, <3>1, <3>2, <3>3 DEF r
  <2> QED
    BY <1>1, <1>3, <1>8, <2>3
<1>9. CASE t.todo = <<"clearNext", "clearPrev">>
  <2>1. l = "clearNext"
    BY <1>3, <1>9
  <2>2. q.next[r] = q.head
    <3>1. t.todo # <<"clearPrev">>
      BY <1>9, TodoFacts
    <3> HIDE DEF t, r
    <3> QED
      BY <1>1, <1>4, <3>1
  <2>3. q' = [q EXCEPT !.next[r] = NULL] /\ wild' = FALSE
    <3>1. q' = Assigned("clearNext", q, r) /\ wild' = (Pointer("clearNext", q, r) = NULL)
      BY <1>1, <1>3, <2>1
    <3>2. Assigned("clearNext", q, r) = [q EXCEPT !.next[r] = NULL]
      BY ReleaseStatements
    <3>3. Pointer("clearNext", q, r) = r
      BY Pointers
    <3> HIDE DEF r, t, l
    <3> QED
      BY <1>2, <3>1, <3>2, <3>3 DEF r
  <2>4. ReleaseLinks(q, r) = [q EXCEPT !.next[r] = NULL]
    <3> DEFINE y == [q EXCEPT !.head = q.next[r], !.prev[q.next[r]] = NULL]
    <3>1. y = q
      BY <1>2, <1>6, <2>2 DEF Queue
    <3>2. ReleaseLinks(q, r) = [y EXCEPT !.next[r] = NULL, !.prev[r] = NULL]
      BY <1>6, <2>2 DEF ReleaseLinks
    <3> HIDE DEF y
    <3>3. ReleaseLinks(q, r) = [q EXCEPT !.next[r] = NULL, !.prev[r] = NULL]
      BY <3>1, <3>2
    <3>4. q.prev = [q.prev EXCEPT ![r] = NULL]
      BY <1>2, <1>6 DEF Queue
    <3> QED
      BY <1>2, <3>3, <3>4 DEF Queue
  <2> QED
    BY <1>1, <1>3, <1>9, <2>3, <2>4
<1>10. CASE t.todo = <<"clearPrev">>
  <2>1. l = "clearPrev"
    BY <1>3, <1>10
  <2>2. [q EXCEPT !.prev[r] = NULL] = q
    BY <1>2, <1>6 DEF Queue
  <2>3. q' = q /\ wild' = FALSE
    <3>1. q' = Assigned("clearPrev", q, r) /\ wild' = (Pointer("clearPrev", q, r) = NULL)
      BY <1>1, <1>3, <2>1
    <3>2. Assigned("clearPrev", q, r) = [q EXCEPT !.prev[r] = NULL]
      BY ReleaseStatements
    <3>3. Pointer("clearPrev", q, r) = r
      BY Pointers
    <3> HIDE DEF r, t, l
    <3> QED
      BY <1>2, <2>2, <3>1, <3>2, <3>3 DEF r
  <2> QED
    BY <1>1, <1>3, <1>10, <2>3
<1> QED
  BY <1>1, <1>4, <1>5, <1>7, <1>8, <1>9, <1>10

LEMMA OtherStatementIInv ==
  ASSUME IInv, Statement, running # 0
  PROVE  IInv'
<1> DEFINE r == running
           t == thread[r]
           four == <<"headNext", "headPrev", "clearNext", "clearPrev">>
           three == <<"headPrev", "clearNext", "clearPrev">>
           two == <<"clearNext", "clearPrev">>
           one == <<"clearPrev">>
<1>1. /\ ~handler /\ t.todo # <<>>
      /\ thread' = [thread EXCEPT ![r] =
                      IF Len(t.todo) = 1 THEN Doing(t.then)
                                         ELSE [t EXCEPT !.todo = Tail(@)]]
      /\ state' = state /\ running' = running
      /\ handler' = handler /\ due' = due
  BY DEF Statement, Executes, irqVars
<1>2. TypeOK /\ StatesExact /\ ShellExact /\ ListSettled /\ OthersExact /\ RunningExact
  BY DEF IInv
<1>3. r \in Pcb /\ r \in Pcb \ {0} /\ 0 \in Pcb /\ r # 0 /\ ~Undisturbed
  BY <1>2, PoolAssumption DEF TypeOK, Undisturbed
<1>4. /\ state[r] = "DEFUNCT" /\ t.then = "spin" /\ t.pcb = r /\ wild' = FALSE
      /\ \/ t.todo = four /\ q' = q
         \/ t.todo = three /\ q' = q
         \/ t.todo = two /\ q' = [q EXCEPT !.next[r] = NULL] /\ q' = ReleaseLinks(q, r)
         \/ t.todo = one /\ q' = q
  BY OtherStatementDoes, Zenon
<1>5. /\ Len(four) = 4 /\ Len(three) = 3 /\ Len(two) = 2 /\ Len(one) = 1
      /\ Tail(four) = three /\ Tail(three) = two /\ Tail(two) = one
  OBVIOUS
<1>6. /\ four \in Seq(Steps) /\ three \in Seq(Steps) /\ two \in Seq(Steps)
      /\ one \in Seq(Steps)
  BY DEF Steps, ReleaseSteps
<1>18. /\ two # one /\ three # one /\ four # one
       /\ two # three /\ two # four
  <2>1. Len(four) = 4 /\ Len(three) = 3 /\ Len(two) = 2 /\ Len(one) = 1
    OBVIOUS
  <2> HIDE DEF four, three, two, one
  <2> QED
    BY <2>1
<1>19. Len(four) # 1 /\ Len(three) # 1 /\ Len(two) # 1
  OBVIOUS
<1> HIDE DEF four, three, two, one
<1> DEFINE u == thread'[r]
<1>7. /\ DOMAIN thread' = Pcb \cup {Idle}
      /\ u = IF Len(t.todo) = 1 THEN Doing("spin") ELSE [t EXCEPT !.todo = Tail(t.todo)]
      /\ \A x \in Pcb : x # r => thread'[x] = thread[x]
  BY <1>1, <1>2, <1>3, <1>4 DEF TypeOK
<1>8. t \in Thread
  BY <1>2, <1>3 DEF TypeOK
<1> HIDE DEF u
<1>9. /\ u \in Thread /\ u.then = "spin"
      /\ t.todo = one => u.todo = <<>>
      /\ t.todo # one => /\ u.todo = Tail(t.todo) /\ u.pcb = r /\ u.was = t.was
                         /\ u.todo \in {three, two, one}
  <2>1. CASE t.todo = one
    <3>1. u = Doing("spin")
      BY <1>5, <1>7, <2>1
    <3> QED
      BY <2>1, <3>1, ThreadTypes DEF Doing
  <2>2. CASE t.todo # one
    <3>1. Len(t.todo) # 1 /\ Tail(t.todo) \in {three, two, one}
      <4>1. t.todo \in {four, three, two}
        BY <1>4, <2>2
      <4> HIDE DEF t
      <4> QED
        BY <1>5, <1>19, <4>1, Zenon
    <3>2. u = [t EXCEPT !.todo = Tail(t.todo)] /\ Tail(t.todo) \in Seq(Steps)
      BY <1>6, <1>7, <3>1
    <3> HIDE DEF t
    <3>3. u \in Thread
      BY <1>8, <3>2 DEF Thread
    <3>4. u.todo = Tail(t.todo) /\ u.pcb = t.pcb /\ u.was = t.was /\ u.then = t.then
      BY <1>8, <3>2 DEF Thread
    <3>5. t.pcb = r /\ t.then = "spin"
      BY <1>4 DEF t
    <3> QED
      BY <2>2, <3>1, <3>3, <3>4, <3>5
  <2> QED
    BY <2>1, <2>2
<1>10. Shell' = Shell
  BY <1>3, <1>7 DEF Shell
<1>11. q' \in Queue
  <2>1. q \in Queue /\ [q EXCEPT !.next[r] = NULL] \in Queue
    BY <1>2 DEF TypeOK, Queue, PcbPtr
  <2> QED
    BY <1>4, <2>1
<1>12. TypeOK'
  BY <1>1, <1>2, <1>4, <1>7, <1>9, <1>11 DEF TypeOK, u
<1>13. StatesExact'
  BY <1>1, <1>2 DEF StatesExact
<1>14. ShellExact'
  <2>1. Shell.todo # <<>> => Shell.pcb # running
    BY ShellCases
  <2> QED
    BY <1>1, <1>3, <1>10, <2>1, ShellKeptAway
<1>15. ListSettled'
  <2>1. Listed' = Listed
    BY <1>1, <1>10 DEF Listed
  <2>2. CASE q' = q
    <3>1. Settled' = Settled
      BY <1>10, <2>2, Zenon DEF Settled
    <3> QED
      BY <1>2, <2>1, <3>1, ListKept
  <2>3. CASE q' = [q EXCEPT !.next[r] = NULL]
    <3>1. PICK s \in Seq(Pcb) : ListedAs(s)
      BY <1>2 DEF ListSettled
    <3>2. /\ Represents(Settles(Shell, q), s) /\ NoDuplicates(s)
          /\ Elements(s) = Listed
      BY <3>1 DEF ListedAs, Settled
    <3>3. r \notin Elements(s)
      BY <3>2, ListedFacts
    <3>4. Away(Shell) /\ q \in Queue
      BY <1>2, <1>3, ShellAway DEF TypeOK
    <3>5. Settles(Shell, q') \in Queue /\ Represents(Settles(Shell, q'), s)
      BY <1>3, <2>3, <3>2, <3>3, <3>4, SettlesClearNext
    <3>6. Settled' = Settles(Shell, q')
      BY <1>10 DEF Settled
    <3> QED
      BY <2>1, <3>2, <3>5, <3>6, ListBecomes
  <2> QED
    BY <1>4, <2>2, <2>3
<1>16. OthersExact'
  <2>1. ASSUME NEW x \in Pcb \ {0} PROVE OtherExact(x)'
    <3>1. CASE x = r
      BY <1>1, <1>4, <3>1 DEF OtherExact
    <3>2. CASE x # r
      BY <1>1, <1>2, <1>7, <2>1, <3>2, OtherKept DEF OthersExact
    <3> QED
      BY <3>1, <3>2
  <2> QED
    BY <2>1 DEF OthersExact
<1>17. RunningExact'
  <2>1. t.todo # one => q.next[r] = q.head
    BY <1>1, <1>2, <1>3 DEF RunningExact, one
  <2>2. t.was # NULL => IF t.todo = one THEN q = ReleaseLinks(t.was, r) ELSE q = t.was
    BY <1>1, <1>2, <1>3 DEF RunningExact, one
  <2>3. u.todo \notin {<<>>, one} => q'.next[r] = q'.head
    <3>1. CASE u.todo \notin {<<>>, one}
      <4>1. t.todo # one
        BY <1>9, <3>1
      <4>2. t.todo # two
        BY <1>5, <1>9, <3>1, <4>1
      <4> QED
        BY <1>4, <2>1, <4>1, <4>2
    <3> QED
      BY <3>1
  <2>4. u.todo # <<>> /\ u.was # NULL =>
          IF u.todo = one THEN q' = ReleaseLinks(u.was, r) ELSE q' = u.was
    <3>1. CASE u.todo # <<>> /\ u.was # NULL
      <4>1. t.todo # one /\ q = t.was /\ u.was = t.was
        BY <1>9, <2>2, <3>1
      <4>2. CASE t.todo = two
        <5>1. u.todo = one
          BY <1>5, <1>9, <4>1, <4>2
        <5>2. two # three /\ two # four
          BY <1>18
        <5>3. q' = ReleaseLinks(q, r)
          BY <1>4, <4>1, <4>2, <5>2
        <5> QED
          BY <4>1, <5>1, <5>3
      <4>3. CASE t.todo # two
        <5>1. q' = q /\ t.todo \in {four, three}
          BY <1>4, <4>1, <4>3
        <5>2. u.todo # one
          <6>1. u.todo \in {three, two}
            BY <1>5, <1>9, <4>1, <5>1
          <6> HIDE DEF u
          <6> QED
            BY <1>18, <6>1
        <5> QED
          BY <4>1, <5>1, <5>2
      <4> QED
        BY <4>2, <4>3
    <3> QED
      BY <3>1
  <2>5. u.todo \in {<<>>, <<"where">>, one, two, three, four}
    BY <1>9
  <2>6. u.todo # <<>> => u.pcb = r
    BY <1>9
  <2> QED
    BY <1>1, <1>3, <1>4, <1>9, <2>3, <2>4, <2>5, <2>6
       DEF RunningExact, u, one, two, three, four
<1> QED
  BY <1>12, <1>13, <1>14, <1>15, <1>16, <1>17 DEF IInv

\* Whose next step is one of the last two has no other step left.
LEMMA ClearingStep ==
  ASSUME NEW todo \in Seq(ReleaseSteps), Len(todo) \in 1 .. 4, ClearsLast(todo),
         Head(todo) \in {"clearNext", "clearPrev"}
  PROVE  todo \in Clearing
<1> DEFINE n == Len(todo)
<1>1. n \in 1 .. 4 /\ Head(todo) = todo[1] /\ 1 \in 1 .. n
  OBVIOUS
<1>2. \A k \in 1 .. n : /\ todo[k] = "clearPrev" <=> k = n
                        /\ todo[k] = "clearNext" <=> k = n - 1
  BY DEF ClearsLast
<1>3. n = 1 \/ n - 1 = 1
  BY <1>1, <1>2
<1>4. CASE n = 1
  <2>1. todo[1] = "clearPrev"
    BY <1>1, <1>2, <1>4
  <2>2. todo = <<"clearPrev">>
    BY <1>4, <2>1
  <2> QED
    BY <2>2 DEF Clearing
<1>5. CASE n - 1 = 1
  <2>1. n = 2
    BY <1>1, <1>5
  <2>2. todo[1] = "clearNext" /\ todo[2] = "clearPrev"
    BY <1>2, <2>1
  <2>3. todo = <<"clearNext", "clearPrev">>
    BY <2>1, <2>2
  <2> QED
    BY <2>3 DEF Clearing
<1> QED
  BY <1>3, <1>4, <1>5

\* The timer strikes: before the shell has changed the list, or after.
LEMMA TickIInv ==
  ASSUME IInv, NEW sleepers \in SUBSET Pcb, Tick(sleepers)
  PROVE  IInv'
<1> DEFINE r == running
           t == thread[r]
<1>1. /\ ~handler /\ handler' = TRUE /\ due' = sleepers
      /\ Step(t) \in {"user", "spin", "asleep"} \cup Windows
                     \cup (IF t.then = "spin" THEN EndWindows ELSE {})
      /\ \A p \in sleepers : state[p] = "SLEEPING" /\ p # running
      /\ thread' = [thread EXCEPT ![r] =
           IF t.then = "asleep" THEN Doing("user") ELSE [t EXCEPT !.was = NULL]]
      /\ q' = q /\ state' = state /\ running' = r /\ wild' = wild
  BY DEF Tick, Executes
<1>2. TypeOK /\ StatesExact /\ ShellExact /\ ListSettled /\ OthersExact /\ RunningExact
  BY DEF IInv
<1>3. r \in Pcb /\ 0 \in Pcb /\ t \in Thread
  BY <1>2, PoolAssumption DEF TypeOK
<1> DEFINE u == thread'[r]
<1>4. /\ DOMAIN thread' = Pcb \cup {Idle}
      /\ u = IF t.then = "asleep" THEN Doing("user") ELSE [t EXCEPT !.was = NULL]
      /\ \A x \in Pcb : x # r => thread'[x] = thread[x]
  BY <1>1, <1>2, <1>3 DEF TypeOK
<1> HIDE DEF u
<1>5. /\ u \in Thread /\ u.was = NULL
      /\ t.then = "asleep" => u.todo = <<>> /\ u.then = "user"
      /\ t.then # "asleep" => u.todo = t.todo /\ u.then = t.then /\ u.pcb = t.pcb
  <2>1. CASE t.then = "asleep"
    <3>1. u = Doing("user")
      BY <1>4, <2>1
    <3> QED
      BY <2>1, <3>1, ThreadTypes DEF Doing
  <2>2. CASE t.then # "asleep"
    <3>1. u = [t EXCEPT !.was = NULL]
      BY <1>4, <2>2
    <3> HIDE DEF t
    <3> QED
      BY <1>3, <2>2, <3>1 DEF Thread
  <2> QED
    BY <2>1, <2>2
<1>6. TypeOK'
  BY <1>1, <1>2, <1>4, <1>5 DEF TypeOK, u
<1>7. StatesExact'
  BY <1>1, <1>2 DEF StatesExact
<1>8. /\ Shell'.todo = Shell.todo /\ Shell'.pcb = Shell.pcb /\ Shell'.then = "user"
      /\ Shell'.was \in {NULL, Shell.was} /\ (r = 0 => Shell'.was = NULL)
      /\ (r # 0 => Shell' = Shell)
  <2>1. CASE r = 0
    <3>1. t = Shell /\ u = Shell'
      BY <2>1 DEF Shell, u
    <3>2. Shell.then = "user"
      BY ShellCases
    <3> QED
      BY <1>5, <2>1, <3>1, <3>2
  <2>2. CASE r # 0
    BY <1>3, <1>4, <2>2, ShellCases DEF Shell
  <2> QED
    BY <2>1, <2>2
<1>9. Step(Shell') = Step(Shell)
  BY <1>8, ShellCases DEF Step
<1>10. ShellExact'
  <2>1. CASE r # 0
    <3>1. ~Undisturbed
      BY <2>1 DEF Undisturbed
    <3>2. Shell.todo # <<>> => Shell.pcb # running
      BY ShellCases
    <3> QED
      BY <1>1, <1>8, <2>1, <3>1, <3>2, ShellKeptAway
  <2>2. CASE r = 0 /\ Shell.todo = <<>>
    BY <1>8, <2>2 DEF ShellExact
  <2>3. CASE r = 0 /\ Shell.todo # <<>>
    <3>1. Step(Shell) \in {"user", "spin", "asleep"} \cup {"add", "clearNext", "clearPrev"}
      <4>1. t = Shell /\ Shell.then = "user"
        BY <2>3, ShellCases DEF Shell
      <4> QED
        BY <1>1, <4>1, WindowsAssumption
    <3>2. /\ Shell'.pcb \in Pcb \ {0} /\ Shell'.pcb # running' /\ Shell'.was = NULL
      BY <1>1, <1>8, <2>3, ShellCases
    <3>3. CASE Step(Shell) = "add" /\ ShellAdds(Shell)
      <4>1. ShellAdds(Shell)'
        BY <1>1, <1>8, <3>2, <3>3 DEF ShellAdds
      <4> QED
        BY <1>8, <3>2, <4>1 DEF ShellExact
    <3>4. CASE Step(Shell) \in {"release", "where"}
      BY <3>1, <3>4
    <3>5. CASE Step(Shell) \in AddSteps
      BY <3>1, <3>5 DEF AddSteps
    <3>6. CASE Step(Shell) \in ReleaseSteps /\ ShellUnlinks(Shell)
      <4>1. Step(Shell) \in {"clearNext", "clearPrev"}
        BY <3>1, <3>6 DEF ReleaseSteps
      <4>2. Shell.todo \in Clearing
        BY <2>3, <3>6, <4>1, ShellCases, ClearingStep DEF ShellUnlinks
      <4>3. ShellUnlinks(Shell)'
        BY <1>1, <1>8, <3>2, <3>6, <4>2 DEF ShellUnlinks
      <4> QED
        BY <1>8, <3>2, <4>3 DEF ShellExact
    <3> QED
      BY <2>3, <3>3, <3>4, <3>5, <3>6, ShellCases
  <2> QED
    BY <2>1, <2>2, <2>3
<1>11. ListSettled'
  <2>1. Settled' = Settled
    BY <1>1, <1>8, <1>9 DEF Settled, Settles
  <2>2. Listed' = Listed
    BY <1>1, <1>8, <1>9 DEF Listed
  <2> QED
    BY <1>2, <2>1, <2>2, ListKept
<1>12. OthersExact'
  <2>1. ASSUME NEW x \in Pcb \ {0} PROVE OtherExact(x)'
    <3>1. OtherExact(x)
      BY <1>2, <2>1 DEF OthersExact
    <3>2. CASE x # r
      <4>1. thread'[x] = thread[x]
        BY <1>4, <2>1, <3>2
      <4> QED
        BY <1>1, <3>1, <3>2, <4>1 DEF OtherExact
    <3>3. CASE x = r
      <4>1. CASE t.then = "asleep"
        <5>1. state[r] = "SLEEPING"
          BY <2>1, <3>3, <4>1, RunningCases
        <5> QED
          BY <1>1, <1>5, <3>3, <4>1, <5>1 DEF OtherExact, u
      <4>2. CASE t.then # "asleep"
        <5>1. state[r] # "SLEEPING"
          BY <1>1, <2>1, <3>3, <4>2, RunningCases
        <5> QED
          BY <1>1, <1>5, <3>1, <3>3, <4>2, <5>1 DEF OtherExact, u
      <4> QED
        BY <4>1, <4>2
    <3> QED
      BY <3>2, <3>3
  <2> QED
    BY <2>1 DEF OthersExact
<1>13. RunningExact'
  <2>1. CASE r = 0
    BY <1>1, <2>1 DEF RunningExact
  <2>2. CASE r # 0
    <3>1. state[r] = "DEFUNCT" => t.then # "asleep"
      BY <2>2, RunningCases
    <3> QED
      BY <1>1, <1>2, <1>5, <2>2, <3>1 DEF RunningExact, u
  <2> QED
    BY <2>1, <2>2
<1> QED
  BY <1>6, <1>7, <1>10, <1>11, <1>12, <1>13 DEF IInv

\* The handler queues a sleeper behind what the shell is about to leave.
LEMMA WakeIInv ==
  ASSUME IInv, NEW p \in Pcb, Wake(p)
  PROVE  IInv'
<1>1. /\ handler /\ p \in due /\ due' = due \ {p}
      /\ state' = [state EXCEPT ![p] = "READY"]
      /\ q' = AddToReady(q, p)
      /\ wild' = AddFaults(q)
      /\ running' = running /\ thread' = thread /\ handler' = handler
  BY DEF Wake
<1>2. TypeOK /\ StatesExact /\ ShellExact /\ ListSettled /\ OthersExact /\ RunningExact
  BY DEF IInv
<1>3. /\ state[p] = "SLEEPING" /\ p # running /\ p # 0 /\ ~Undisturbed
      /\ q \in Queue /\ handler = TRUE
  BY <1>1, <1>2 DEF StatesExact, Undisturbed, TypeOK
<1>4. /\ state'[p] = "READY"
      /\ \A x \in Pcb : x # p => state'[x] = state[x]
      /\ state' \in [Pcb -> {"DEFUNCT", "STARTING", "READY", "RUNNING", "SLEEPING"}]
  BY <1>1, <1>2 DEF TypeOK
<1>5. Shell' = Shell
  BY <1>1 DEF Shell
<1>6. /\ ~AddFaults(q)
      /\ q.head # NULL => q.tail \in Listed /\ q.tail \notin Cleared(Shell)
  <2>1. Cleared(Shell) \cap Listed = {}
    BY <1>3, AwayFacts
  <2> QED
    BY <1>3, <2>1, AwayFacts
<1>7. Shell.todo # <<>> =>
        Shell.pcb \in Pcb /\ Shell.pcb # p /\ Shell.pcb # running
  <2>1. Away(Shell)
    BY <1>3, ShellAway
  <2>2. ASSUME Shell.todo = <<"add">> PROVE state[Shell.pcb] = "STARTING"
    <3>1. Step(Shell) = "add"
      BY <2>2, TodoFacts DEF Step
    <3> QED
      BY <1>3, <3>1, ShellAway DEF ShellAdds
  <2>3. Shell.todo \in Clearing => state[Shell.pcb] = "DEFUNCT"
    BY <1>3, ShellAway
  <2> QED
    BY <1>3, <2>1, <2>2, <2>3, ShellCases DEF Away
<1>8. p \notin Cleared(Shell)
  BY <1>7, TodoFacts DEF Cleared
<1>9. q' \in Queue
  BY <1>1, <1>3, <1>6, AddToReadyFields
<1>10. TypeOK'
  BY <1>1, <1>2, <1>4, <1>6, <1>9 DEF TypeOK
<1>11. StatesExact'
  BY <1>1, <1>2, <1>3, <1>4 DEF StatesExact, TypeOK
<1>12. ShellExact'
  BY <1>1, <1>3, <1>4, <1>5, <1>7, ShellKeptAway
<1>13. ListSettled'
  <2>1. PICK s \in Seq(Pcb) : ListedAs(s)
    BY <1>2 DEF ListSettled
  <2>2. Represents(Settled, s) /\ NoDuplicates(s) /\ Elements(s) = Listed
    BY <2>1 DEF ListedAs
  <2>3. Settled' = AddToReady(Settled, p) /\ Settled \in Queue
    <3>1. Away(Shell)
      BY <1>3, ShellAway
    <3>2. Settles(Shell, AddToReady(q, p)) = AddToReady(Settles(Shell, q), p)
      BY <1>3, <1>6, <1>8, <3>1, SettlesAdd
    <3> QED
      BY <1>1, <1>2, <1>5, <3>2 DEF Settled, ListSettled
  <2>4. Listed' = Listed \cup {p} /\ p \notin Listed
    <3>1. CASE Step(Shell) = "add"
      <4>1. Listed = {x \in Pcb : state[x] \in {"READY", "STARTING"}} \ {Shell.pcb}
        BY <3>1, ListedFacts
      <4>2. Listed' = {x \in Pcb : state'[x] \in {"READY", "STARTING"}} \ {Shell.pcb}
        BY <1>5, <3>1 DEF Listed
      <4>3. Shell.pcb # p
        BY <1>7, <3>1, ShellCases
      <4> QED
        BY <1>3, <1>4, <4>1, <4>2, <4>3
    <3>2. CASE Step(Shell) # "add"
      <4>1. Step(Shell) \notin {"add", "where"}
        BY <1>3, <3>2, ShellAway
      <4>2. Listed = {x \in Pcb : state[x] \in {"READY", "STARTING"}}
        BY <4>1, ListedFacts
      <4>3. Listed' = {x \in Pcb : state'[x] \in {"READY", "STARTING"}}
        BY <1>5, <4>1 DEF Listed
      <4> QED
        BY <1>3, <1>4, <4>2, <4>3
    <3> QED
      BY <3>1, <3>2
  <2>5. \A i \in 1 .. Len(s) : s[i] # p
    BY <2>2, <2>4 DEF Elements
  <2>6. /\ AddToReady(Settled, p) \in Queue
        /\ Represents(AddToReady(Settled, p), Append(s, p))
        /\ NoDuplicates(Append(s, p))
    BY <2>2, <2>3, <2>5, AddToReadyAppends
  <2>7. Append(s, p) \in Seq(Pcb) /\ Elements(Append(s, p)) = Listed \cup {p}
    BY <2>2, AppendSet, AppendElements
  <2> QED
    BY <2>3, <2>4, <2>6, <2>7, ListBecomes
<1>14. OthersExact'
  <2>1. ASSUME NEW x \in Pcb \ {0} PROVE OtherExact(x)'
    <3>1. OtherExact(x)
      BY <1>2, <2>1 DEF OthersExact
    <3>2. CASE x # p
      BY <1>1, <1>4, <2>1, <3>1, <3>2, OtherKept
    <3>3. CASE x = p
      BY <1>1, <1>3, <1>4, <3>1, <3>3 DEF OtherExact
    <3> QED
      BY <3>2, <3>3
  <2> QED
    BY <2>1 DEF OthersExact
<1>15. RunningExact'
  <2>1. CASE running = 0
    BY <1>1, <2>1 DEF RunningExact
  <2>2. CASE running # 0
    <3>1. 0 \in Listed /\ running \notin Listed /\ running \in Pcb \ {0} /\ running \in Pcb
      BY <1>2, <2>2, ListedFacts DEF TypeOK
    <3>2. q.head # NULL
      BY <1>3, <3>1, AwayFacts
    <3>3. q'.head = q.head /\ q'.next[running] = q.next[running]
      <4>1. q'.head = q.head /\ q'.next = [q.next EXCEPT ![q.tail] = p]
        BY <1>1, <1>3, <1>6, <3>2, AddToReadyFields
      <4>2. q.tail # running /\ q.next \in [Pcb -> PcbPtr]
        BY <1>3, <1>6, <3>1, <3>2 DEF Queue
      <4> QED
        BY <3>1, <4>1, <4>2
    <3>4. thread[running].todo # <<>> => thread[running].was = NULL
      BY <1>2, <1>3, <3>1 DEF OthersExact, OtherExact
    <3>5. state'[running] = state[running]
      BY <1>3, <1>4, <3>1
    <3> QED
      BY <1>1, <1>2, <2>2, <3>3, <3>4, <3>5 DEF RunningExact
  <2> QED
    BY <2>1, <2>2
<1> QED
  BY <1>10, <1>11, <1>12, <1>13, <1>14, <1>15 DEF IInv

\* The list once the handler has queued the running process, if that still
\* runs: the shell is in it.
LEMMA SwitchQueues ==
  ASSUME IInv, handler, due = {}
  PROVE  LET r == IF KeepsRunning THEN AddToReady(q, running) ELSE q
             waiting == Listed \cup (IF KeepsRunning THEN {running} ELSE {})
         IN  /\ KeepsRunning <=> state[running] = "RUNNING"
             /\ KeepsRunning => ~AddFaults(q)
             /\ 0 \in waiting /\ Cleared(Shell) \cap waiting = {}
             /\ r \in Queue /\ Settles(Shell, r) \in Queue
             /\ \E s \in Seq(Pcb) : /\ Represents(Settles(Shell, r), s)
                                    /\ NoDuplicates(s)
                                    /\ Elements(s) = waiting
<1> DEFINE r == IF KeepsRunning THEN AddToReady(q, running) ELSE q
           waiting == Listed \cup (IF KeepsRunning THEN {running} ELSE {})
<1>1. TypeOK /\ StatesExact /\ ListSettled
  BY DEF IInv
<1>2. running \in Pcb /\ q \in Queue /\ ~Undisturbed /\ 0 \in Pcb
  BY <1>1, PoolAssumption DEF TypeOK, Undisturbed
<1>3. KeepsRunning <=> state[running] = "RUNNING"
  <2>1. running # Idle
    BY <1>2, IdleIsNoPcb DEF PcbPtr
  <2> QED
    BY <1>1, <2>1 DEF KeepsRunning, StatesExact
<1>4. 0 \in waiting
  <2>1. CASE running = 0
    BY <1>3, <2>1, ListedFacts
  <2>2. CASE running # 0
    BY <2>2, ListedFacts
  <2> QED
    BY <2>1, <2>2
<1>5. Cleared(Shell) \cap waiting = {} /\ ~AddFaults(q)
  BY <1>2, AwayFacts
<1>6. PICK s \in Seq(Pcb) : ListedAs(s)
  BY <1>1 DEF ListSettled
<1>7. /\ Settled = Settles(Shell, q) /\ Settled \in Queue
      /\ Represents(Settled, s) /\ NoDuplicates(s) /\ Elements(s) = Listed
  BY <1>1, <1>6 DEF ListedAs, ListSettled, Settled
<1>8. CASE ~KeepsRunning
  <2>1. r = q /\ waiting = Listed
    BY <1>8
  <2> HIDE DEF r, waiting
  <2>2. Settles(Shell, r) = Settled
    BY <1>7, <2>1
  <2> QED
    BY <1>2, <1>3, <1>4, <1>5, <1>7, <1>8, <2>1, <2>2 DEF r, waiting
<1>9. CASE KeepsRunning
  <2>1. r = AddToReady(q, running) /\ waiting = Listed \cup {running}
    BY <1>9
  <2>2. r \in Queue
    BY <1>2, <1>5, <2>1, AddToReadyFields
  <2>3. running \notin Listed /\ running \notin Cleared(Shell)
    BY <1>2, AwayFacts, ListedFacts
  <2>4. q.head # NULL => q.tail \notin Cleared(Shell)
    <3>1. Cleared(Shell) \cap Listed = {}
      BY <1>2, AwayFacts
    <3> QED
      BY <1>2, <3>1, AwayFacts
  <2>5. Settles(Shell, r) = AddToReady(Settled, running)
    <3>1. Away(Shell)
      BY <1>2, ShellAway
    <3>2. Settles(Shell, AddToReady(q, running)) = AddToReady(Settles(Shell, q), running)
      BY <1>2, <1>5, <2>3, <2>4, <3>1, SettlesAdd
    <3> QED
      BY <1>7, <2>1, <3>2
  <2>6. \A i \in 1 .. Len(s) : s[i] # running
    BY <1>7, <2>3 DEF Elements
  <2>7. /\ AddToReady(Settled, running) \in Queue
        /\ Represents(AddToReady(Settled, running), Append(s, running))
        /\ NoDuplicates(Append(s, running))
    BY <1>2, <1>7, <2>6, AddToReadyAppends
  <2>8. /\ Append(s, running) \in Seq(Pcb)
        /\ Elements(Append(s, running)) = Listed \cup {running}
    BY <1>2, <1>7, AppendSet, AppendElements
  <2> HIDE DEF r, waiting
  <2>9. /\ Settles(Shell, r) \in Queue
        /\ Represents(Settles(Shell, r), Append(s, running))
        /\ NoDuplicates(Append(s, running))
        /\ Elements(Append(s, running)) = waiting
    BY <2>1, <2>5, <2>7, <2>8
  <2> QED
    BY <1>3, <1>4, <1>5, <2>2, <2>8, <2>9 DEF r, waiting
<1> QED
  BY <1>8, <1>9

\* The first of the list runs.
LEMMA SwitchIInv ==
  ASSUME IInv, Switch
  PROVE  IInv'
<1> DEFINE r == IF KeepsRunning THEN AddToReady(q, running) ELSE q
           h == r.head
           waiting == Listed \cup (IF KeepsRunning THEN {running} ELSE {})
<1>1. /\ handler /\ due = {} /\ handler' = FALSE /\ thread' = thread /\ due' = due
      /\ q' = RemoveFromReady(r)
      /\ wild' = (RemoveFaults(r) \/ (KeepsRunning /\ AddFaults(q)))
      /\ running' = IF h = NULL THEN Idle ELSE h
      /\ state' = [x \in Pcb |-> IF x = h THEN "RUNNING"
                                 ELSE IF x = running /\ KeepsRunning THEN "READY"
                                 ELSE state[x]]
  BY DEF Switch, RemovedFromReady
<1>2. TypeOK /\ StatesExact /\ ShellExact /\ ListSettled /\ OthersExact
  BY DEF IInv
<1>3. /\ KeepsRunning <=> state[running] = "RUNNING"
      /\ KeepsRunning => ~AddFaults(q)
      /\ 0 \in waiting /\ Cleared(Shell) \cap waiting = {}
      /\ r \in Queue /\ Settles(Shell, r) \in Queue
      /\ \E s \in Seq(Pcb) : /\ Represents(Settles(Shell, r), s)
                             /\ NoDuplicates(s)
                             /\ Elements(s) = waiting
  BY <1>1, SwitchQueues
<1>4. Shell' = Shell /\ ~Undisturbed /\ 0 \in Pcb /\ running \in Pcb
  BY <1>1, <1>2, PoolAssumption DEF Shell, Undisturbed, TypeOK
<1>5. Away(Shell)
  BY <1>4, ShellAway
<1>6. waiting \subseteq Pcb
  BY <1>4, ListedFacts
<1>7. running \notin Listed
  BY ListedFacts
<1> DEFINE z == Settles(Shell, r)
<1>8. /\ z \in Queue
      /\ z.head = r.head /\ z.tail = r.tail
      /\ \A x \in Pcb : x \notin Cleared(Shell) => z.next[x] = r.next[x]
  <2> HIDE DEF r
  <2> QED
    BY <1>3, <1>5, SettlesFields
<1> HIDE DEF r, waiting
<1>9. PICK s \in Seq(Pcb) : /\ Represents(z, s) /\ NoDuplicates(s)
                            /\ Elements(s) = waiting
  BY <1>3
<1>10. /\ s # <<>> /\ Len(s) > 0 /\ z.head = s[1] /\ z.head \in waiting
       /\ z.head \in Pcb
  <2>1. Elements(s) # {}
    BY <1>3, <1>9
  <2> HIDE DEF z
  <2> QED
    BY <1>8, <1>9, <2>1, ListFacts
<1>11. h = s[1] /\ h \in waiting /\ h \in Pcb /\ h # NULL /\ h \notin Cleared(Shell)
  BY <1>3, <1>8, <1>10, NullAssumption
<1>12. /\ RemoveFromReady(z) \in Queue
       /\ Represents(RemoveFromReady(z), Tail(s))
       /\ NoDuplicates(Tail(s))
       /\ Len(s) > 1 => RemoveFromReady(z).next[s[1]] = Tail(s)[1]
       /\ ~RemoveFaults(z)
  <2> HIDE DEF z
  <2> QED
    BY <1>8, <1>9, <1>10, RemoveFromReadyTakesHead
<1>13. r.head # r.tail => r.next[r.head] \in Pcb /\ r.next[r.head] \notin Cleared(Shell)
  <2>1. SUFFICES ASSUME r.head # r.tail
                 PROVE  r.next[r.head] \in Pcb /\ r.next[r.head] \notin Cleared(Shell)
    OBVIOUS
  <2>2. z.tail = s[Len(s)]
    BY <1>9, <1>10 DEF Represents
  <2>3. Len(s) # 1
    BY <1>8, <1>10, <2>1, <2>2
  <2>4. 1 \in 1 .. Len(s) - 1 /\ 2 \in 1 .. Len(s)
    <3> DEFINE n == Len(s)
    <3>1. n \in Nat /\ n > 0 /\ n # 1
      BY <1>10, <2>3
    <3> HIDE DEF n
    <3>2. 1 \in 1 .. n - 1 /\ 2 \in 1 .. n
      BY <3>1
    <3> QED
      BY <3>2 DEF n
  <2>5. z.next[s[1]] = s[2]
    <3>1. z.next[s[1]] = s[1 + 1]
      BY <1>9, <2>4 DEF Represents
    <3> QED
      BY <3>1
  <2>6. s[2] \in waiting
    BY <1>9, <2>4 DEF Elements
  <2>7. r.next[r.head] = s[2]
    BY <1>8, <1>11, <2>5
  <2> QED
    BY <1>3, <1>6, <2>6, <2>7
<1>14. /\ RemoveFromReady(r) \in Queue
       /\ Settles(Shell, RemoveFromReady(r)) = RemoveFromReady(z)
       /\ ~RemoveFaults(r)
  BY <1>3, <1>5, <1>11, <1>12, <1>13, SettlesRemove
<1>15. q' \in Queue /\ wild' = FALSE /\ running' = h
  <2>1. ~RemoveFaults(r) /\ ~(KeepsRunning /\ AddFaults(q))
    BY <1>3, <1>14
  <2> QED
    BY <1>1, <1>11, <1>14, <2>1
<1>16. Settled' = RemoveFromReady(z)
  <2>1. Settled' = Settles(Shell, RemoveFromReady(r))
    BY <1>1, <1>4 DEF Settled
  <2> QED
    BY <1>14, <2>1
<1> HIDE DEF h, z
<1>17. /\ state'[h] = "RUNNING"
       /\ \A x \in Pcb : x # h /\ x = running /\ KeepsRunning => state'[x] = "READY"
       /\ \A x \in Pcb : x # h /\ ~(x = running /\ KeepsRunning) => state'[x] = state[x]
       /\ state' \in [Pcb -> {"DEFUNCT", "STARTING", "READY", "RUNNING", "SLEEPING"}]
  BY <1>1, <1>2, <1>11 DEF TypeOK
<1>18. /\ h \notin {running} => h \in Listed
       /\ h = running => KeepsRunning
  BY <1>7, <1>11 DEF waiting
<1>19. Shell.todo # <<>> =>
         /\ Shell.pcb \in Pcb /\ Shell.pcb # running /\ Shell.pcb \notin Listed
         /\ state[Shell.pcb] \in {"STARTING", "DEFUNCT"}
  <2>1. SUFFICES ASSUME Shell.todo # <<>>
                 PROVE  /\ Shell.pcb \in Pcb /\ Shell.pcb # running
                        /\ Shell.pcb \notin Listed
                        /\ state[Shell.pcb] \in {"STARTING", "DEFUNCT"}
    OBVIOUS
  <2>2. Shell.pcb \in Pcb /\ Shell.pcb # running
    BY <2>1, ShellCases
  <2>3. CASE Shell.todo = <<"add">>
    <3>1. Step(Shell) = "add"
      BY <2>3, TodoFacts DEF Step
    <3>2. state[Shell.pcb] = "STARTING"
      BY <1>4, <3>1, ShellAway DEF ShellAdds
    <3> QED
      BY <2>2, <3>1, <3>2, ListedFacts
  <2>4. CASE Shell.todo \in Clearing
    <3>1. state[Shell.pcb] = "DEFUNCT" /\ Step(Shell) \in {"clearNext", "clearPrev"}
      BY <1>4, <2>4, ShellAway
    <3>2. Listed = {p \in Pcb : state[p] \in {"READY", "STARTING"}}
      BY <3>1, ListedFacts
    <3> QED
      BY <2>2, <3>1, <3>2
  <2> QED
    BY <1>5, <2>1, <2>3, <2>4 DEF Away
<1>20. TypeOK'
  BY <1>1, <1>2, <1>11, <1>15, <1>17 DEF TypeOK
<1>21. StatesExact'
  <2>1. state'[0] \in {"RUNNING", "READY"}
    <3>1. CASE h = 0
      BY <1>17, <3>1
    <3>2. CASE h # 0 /\ running = 0
      <4>1. KeepsRunning
        BY <1>3, <3>2, ListedFacts
      <4> QED
        BY <1>4, <1>17, <3>2, <4>1
    <3>3. CASE h # 0 /\ running # 0
      BY <1>4, <1>17, <3>3, ListedFacts
    <3> QED
      BY <3>1, <3>2, <3>3
  <2>2. \A x \in Pcb : state'[x] = "RUNNING" => x = h
    BY <1>2, <1>3, <1>17 DEF StatesExact
  <2> QED
    BY <1>1, <1>15, <1>17, <2>1, <2>2 DEF StatesExact
<1>22. Shell.todo # <<>> => Shell.pcb # h /\ state'[Shell.pcb] = state[Shell.pcb]
  BY <1>17, <1>18, <1>19
<1>23. ShellExact'
  BY <1>4, <1>15, <1>22, ShellKeptAway
<1>24. Listed' = waiting \ {h}
  <2>1. ASSUME NEW x \in Pcb
        PROVE  state'[x] \in {"READY", "STARTING"} <=>
                 x # h /\ (state[x] \in {"READY", "STARTING"} \/ (x = running /\ KeepsRunning))
    BY <1>3, <1>17, <2>1
  <2>2. CASE Step(Shell) = "add"
    <3>1. Listed = {x \in Pcb : state[x] \in {"READY", "STARTING"}} \ {Shell.pcb}
      BY <2>2, ListedFacts
    <3>2. Listed' = {x \in Pcb : state'[x] \in {"READY", "STARTING"}} \ {Shell.pcb}
      BY <1>4, <2>2 DEF Listed
    <3>3. Shell.pcb # running
      BY <1>19, <2>2, ShellCases
    <3> QED
      BY <1>4, <2>1, <3>1, <3>2, <3>3 DEF waiting
  <2>3. CASE Step(Shell) # "add"
    <3>1. Step(Shell) \notin {"add", "where"}
      BY <1>4, <2>3, ShellAway
    <3>2. Listed = {x \in Pcb : state[x] \in {"READY", "STARTING"}}
      BY <3>1, ListedFacts
    <3>3. Listed' = {x \in Pcb : state'[x] \in {"READY", "STARTING"}}
      BY <1>4, <3>1 DEF Listed
    <3> QED
      BY <1>4, <2>1, <3>2, <3>3 DEF waiting
  <2> QED
    BY <2>2, <2>3
<1>25. Tail(s) \in Seq(Pcb) /\ Elements(Tail(s)) = waiting \ {h}
  BY <1>9, <1>10, <1>11, TailSet, TailElements
<1>26. ListSettled'
  BY <1>12, <1>16, <1>24, <1>25, ListBecomes
<1>27. OthersExact'
  <2>1. ASSUME NEW x \in Pcb \ {0} PROVE OtherExact(x)'
    <3>1. OtherExact(x)
      BY <1>2, <2>1 DEF OthersExact
    <3>2. state'[x] \in {"STARTING", "READY", "RUNNING"} =>
            state[x] \in {"STARTING", "READY", "RUNNING"}
      <4>1. CASE x = h
        <5>1. h \in Listed => state[h] \in {"STARTING", "READY"}
          <6>1. Step(Shell) # "where"
            BY <1>4, ShellAway
          <6> QED
            BY <6>1, ListedFacts
        <5> QED
          BY <1>3, <1>18, <4>1, <5>1
      <4>2. CASE x # h
        BY <1>3, <1>17, <2>1, <4>2
      <4> QED
        BY <4>1, <4>2
    <3>3. state'[x] = "SLEEPING" => state[x] = "SLEEPING" /\ x # h
      BY <1>17, <2>1
    <3> QED
      BY <1>1, <1>15, <3>1, <3>2, <3>3 DEF OtherExact
  <2> QED
    BY <2>1 DEF OthersExact
<1>28. RunningExact'
  <2>1. CASE h = 0
    BY <1>15, <2>1 DEF RunningExact
  <2>2. CASE h # 0
    <3>1. Tail(s) # <<>>
      <4>1. 0 \in Elements(Tail(s))
        BY <1>3, <1>25, <2>2
      <4>2. Elements(<<>>) = {}
        BY DEF Elements
      <4> QED
        BY <4>1, <4>2
    <3>2. Len(s) > 1
      <4>1. Len(s) # 1
        BY <1>10, <3>1, TailElements
      <4> DEFINE n == Len(s)
      <4>2. n \in Nat /\ n > 0 /\ n # 1
        BY <1>10, <4>1
      <4> HIDE DEF n
      <4>3. n > 1
        BY <4>2
      <4> QED
        BY <4>3 DEF n
    <3>3. /\ RemoveFromReady(z).next[h] = Tail(s)[1]
          /\ RemoveFromReady(z).head = Tail(s)[1]
      BY <1>11, <1>12, <3>1, <3>2 DEF Represents
    <3>4. q'.next[h] = q'.head
      <4>1. /\ Settles(Shell, q').head = q'.head
            /\ Settles(Shell, q').next[h] = q'.next[h]
        BY <1>5, <1>11, <1>15, SettlesFields
      <4>2. Settles(Shell, q') = RemoveFromReady(z)
        BY <1>1, <1>14
      <4> QED
        BY <3>3, <4>1, <4>2
    <3>5. thread[h].todo # <<>> => thread[h].was = NULL
      BY <1>1, <1>2, <1>11, <2>2 DEF OthersExact, OtherExact
    <3> QED
      BY <1>1, <1>15, <1>17, <3>4, <3>5 DEF RunningExact
  <2> QED
    BY <2>1, <2>2
<1> QED
  BY <1>20, <1>21, <1>23, <1>26, <1>27, <1>28 DEF IInv

LEMMA StepIInv == IInv /\ [Next]_vars => IInv'
<1> SUFFICES ASSUME IInv, [Next]_vars PROVE IInv'
  OBVIOUS
<1>1. ASSUME NEW p \in Pcb, Launch(p) PROVE IInv'
  BY <1>1, LaunchIInv
<1>2. ASSUME NEW p \in Pcb, Kill(p) PROVE IInv'
  BY <1>2, KillIInv
<1>3. CASE Terminate
  BY <1>3, TerminateIInv
<1>4. CASE Sleep
  BY <1>4, SleepIInv
<1>5. CASE AddTest
  BY <1>5, AddTestIInv
<1>6. CASE ReleaseState
  <2>1. CASE running = 0
    BY <1>6, <2>1, ShellReleaseStateIInv
  <2>2. CASE running # 0
    BY <1>6, <2>2, OtherReleaseStateIInv
  <2> QED
    BY <2>1, <2>2
<1>7. CASE ReleaseTest
  <2>1. CASE running = 0
    BY <1>7, <2>1, ShellReleaseTestIInv
  <2>2. CASE running # 0
    BY <1>7, <2>2, OtherReleaseTestIInv
  <2> QED
    BY <2>1, <2>2
<1>8. CASE Statement
  <2>1. CASE running = 0
    BY <1>8, <2>1, ShellStatementIInv
  <2>2. CASE running # 0
    BY <1>8, <2>2, OtherStatementIInv
  <2> QED
    BY <2>1, <2>2
<1>9. ASSUME NEW sleepers \in SUBSET Pcb, Tick(sleepers) PROVE IInv'
  BY <1>9, TickIInv
<1>10. ASSUME NEW p \in Pcb, Wake(p) PROVE IInv'
  BY <1>10, WakeIInv
<1>11. CASE Switch
  BY <1>11, SwitchIInv
<1>12. CASE UNCHANGED vars
  <2>1. /\ q' = q /\ state' = state /\ running' = running /\ thread' = thread
        /\ wild' = wild /\ handler' = handler /\ due' = due
    BY <1>12 DEF vars
  <2>2. Shell' = Shell
    BY <2>1 DEF Shell
  <2>3. TypeOK /\ StatesExact /\ ShellExact /\ ListSettled /\ OthersExact /\ RunningExact
    BY DEF IInv
  <2>4. TypeOK' /\ StatesExact'
    BY <2>1, <2>3 DEF TypeOK, StatesExact
  <2>5. ShellExact'
    BY <2>1, <2>2, <2>3, Zenon
       DEF ShellExact, ShellAdds, ShellLinks, ShellReleases, ShellUnlinks, Undisturbed, Located
  <2>6. ListSettled'
    <3>1. Settled' = Settled
      BY <2>1, <2>2, Zenon DEF Settled
    <3>2. Listed' = Listed
      BY <2>1, <2>2 DEF Listed
    <3> QED
      BY <2>3, <3>1, <3>2, ListKept
  <2>7. OthersExact'
    BY <2>1, <2>3, OtherKept DEF OthersExact
  <2>8. RunningExact'
    BY <2>1, <2>3 DEF RunningExact
  <2> QED
    BY <2>4, <2>5, <2>6, <2>7, <2>8 DEF IInv
<1> QED
  BY <1>1, <1>2, <1>3, <1>4, <1>5, <1>6, <1>7, <1>8, <1>9, <1>10, <1>11, <1>12
     DEF Next, Invoke

-----------------------------------------------------------------------------
(* The theorems.                                                           *)

\* Wherever the harmless ticks fall, every thread in addToReady or releasePCB
\* has the statements left that its call needs, and with those of the shell
\* the memory is a list of the waiting processes (proc.c:100-148).
THEOREM Invariance == Spec => []IInv
<1>1. Init => IInv
  BY InitIInv
<1>2. IInv /\ [Next]_vars => IInv'
  BY StepIInv
<1> QED
  BY <1>1, <1>2, PTL DEF Spec

\* The processor is never idle and every variable stays in its range
\* (kernel.c:72-108).
THEOREM TypeCorrect == Spec => []TypeOK
<1>1. IInv => TypeOK
  BY DEF IInv
<1> QED
  BY <1>1, Invariance, PTL

\* No such tick makes addToReady, releasePCB or the handler follow a NULL
\* pointer (proc.c:107-117, 137-144).
THEOREM NoNullFollowed == Spec => []NoNullDereference
<1>1. IInv => NoNullDereference
  BY DEF IInv, TypeOK, NoNullDereference
<1> QED
  BY <1>1, Invariance, PTL

\* Once no process is inside the two functions, the links hold every waiting
\* process once, however often the timer struck inside a call
\* (proc.c:100-148).
THEOREM ListIsExact == Spec => []ListExact
<1>1. ASSUME IInv, Quiet
      PROVE  /\ Represents(q, Contents(q))
             /\ NoDuplicates(Contents(q))
             /\ {Contents(q)[i] : i \in DOMAIN Contents(q)}
                  = {p \in Pcb : state[p] \in {"READY", "STARTING"}}
  <2>1. 0 \in Pcb /\ IsFiniteSet(Pcb) /\ q \in Queue
    BY <1>1, PoolAssumption DEF IInv, TypeOK
  <2>2. state[0] # "DEFUNCT"
    BY <1>1 DEF IInv, StatesExact
  <2>3. Shell.todo = <<>>
    BY <1>1, <2>1, <2>2 DEF Quiet, Shell
  <2>4. Settled = q
    BY <2>3, SettledNow DEF Settled
  <2>5. Listed = {p \in Pcb : state[p] \in {"READY", "STARTING"}}
    <3>1. Step(Shell) = "user"
      BY <1>1, <2>3, ShellCases
    <3> QED
      BY <1>1, <3>1, ListedFacts
  <2>6. PICK s \in Seq(Pcb) : ListedAs(s)
    BY <1>1 DEF IInv, ListSettled
  <2>7. Represents(q, s) /\ NoDuplicates(s) /\ Elements(s) = Listed
    BY <2>4, <2>6 DEF ListedAs
  <2>8. Contents(q) = s
    BY <2>1, <2>7, ContentsOfList
  <2>9. DOMAIN s = 1 .. Len(s)
    OBVIOUS
  <2> QED
    BY <2>5, <2>7, <2>8, <2>9 DEF Elements
<1>2. IInv => ListExact
  <2>1. IInv => ~wild
    BY DEF IInv, TypeOK
  <2> QED
    BY <1>1, <2>1 DEF ListExact
<1> QED
  BY <1>2, Invariance, PTL

\* What the last statement of an undisturbed call leaves is what the one-step
\* operators of ProcQueue say.
LEMMA LastStatementAgrees ==
  ASSUME IInv, [Next]_vars, NEW p \in Pcb,
         Len(thread[p].todo) = 1, thread'[p].todo = <<>>, thread[p].was # NULL
  PROVE  q' = IF Step(thread[p]) = "clearPrev"
                THEN ReleaseLinks(thread[p].was, thread[p].pcb)
                ELSE AddToReady(thread[p].was, thread[p].pcb)
<1> DEFINE t == thread[p]
<1>1. TypeOK /\ OthersExact /\ RunningExact /\ StatesExact
  BY DEF IInv
<1>2. running \in Pcb /\ t.todo # <<>> /\ p \in DOMAIN thread /\ t \in Thread
  <2>1. running \in Pcb /\ p \in DOMAIN thread /\ t \in Thread
    BY <1>1 DEF TypeOK
  <2>2. Len(<<>>) # 1
    OBVIOUS
  <2>3. t.todo # <<>>
    BY <2>2, Zenon
  <2> QED
    BY <2>1, <2>3
<1>3. p = running /\ Statement
  <2>1. ASSUME thread'[p] = thread[p] PROVE FALSE
    BY <1>2, <2>1
  <2>2. ASSUME NEW x \in Pcb, Launch(x) PROVE FALSE
    <3>1. /\ running = 0 /\ Shell.todo = <<>> /\ state[x] = "DEFUNCT"
          /\ thread' = [thread EXCEPT ![x] = Doing("user"),
                                      ![running] = Call("add", x, "user")]
      <4>1. Invokes("execute")
        BY <2>2 DEF Launch
      <4>2. running = 0
        BY <4>1, CallsFacts
      <4> QED
        BY <2>2, <4>1, <4>2, CallsFacts DEF Launch
    <3>2. p # 0
      BY <1>2, <3>1 DEF Shell
    <3>3. p = x
      BY <1>2, <2>1, <3>1, <3>2
    <3> QED
      BY <1>1, <1>2, <3>1, <3>2, <3>3 DEF OthersExact, OtherExact
  <2>3. ASSUME NEW call, Invokes(call), p = running PROVE FALSE
    <3>1. CASE running = 0
      BY <1>2, <2>3, <3>1, CallsFacts DEF Shell
    <3>2. CASE running # 0
      BY <1>2, <2>3, <3>2, CallsFacts
    <3> QED
      BY <3>1, <3>2
  <2>4. p # running => thread'[p] = thread[p] \/ \E x \in Pcb : Launch(x)
    <3>1. ASSUME p # running, NEW e, thread' = [thread EXCEPT ![running] = e]
          PROVE  thread'[p] = thread[p]
      BY <1>2, <3>1
    <3>2. CASE \E x \in Pcb : Launch(x)
      BY <3>2
    <3>3. CASE \E x \in Pcb : Kill(x)
      BY <3>1, <3>3 DEF Kill
    <3>4. CASE Terminate
      BY <3>1, <3>4 DEF Terminate
    <3>5. CASE Sleep
      BY <3>1, <3>5 DEF Sleep
    <3>6. CASE AddTest \/ ReleaseState \/ ReleaseTest
      BY <1>2, <3>6 DEF AddTest, ReleaseState, ReleaseTest
    <3>7. CASE Statement
      BY <3>1, <3>7 DEF Statement
    <3>8. CASE \E sleepers \in SUBSET Pcb : Tick(sleepers)
      BY <1>2, <3>8 DEF Tick
    <3>9. CASE (\E x \in Pcb : Wake(x)) \/ Switch \/ UNCHANGED vars
      BY <3>9 DEF Wake, Switch, vars
    <3> QED
      BY <3>2, <3>3, <3>4, <3>5, <3>6, <3>7, <3>8, <3>9 DEF Next, Invoke
  <2>5. p = running
    BY <2>1, <2>2, <2>4
  <2>6. CASE Invoke
    <3>1. \E call : Invokes(call)
      BY <2>6 DEF Invoke, Launch, Kill, Terminate, Sleep
    <3> QED
      BY <2>3, <2>5, <3>1
  <2>7. CASE AddTest
    <3>1. running = 0 /\ Step(Shell) = "add"
      <4>1. Step(thread[running]) = "add"
        BY <2>7 DEF AddTest
      <4>2. running = 0
        BY <4>1, RunningCases
      <4> QED
        BY <4>1, <4>2 DEF Shell
    <3>2. thread'[p].todo = AddBranch(q)
      BY <1>2, <2>5, <2>7 DEF AddTest, Thread
    <3>3. AddBranch(q) # <<>>
      BY DEF AddBranch
    <3> QED
      BY <3>2, <3>3
  <2>8. CASE ReleaseState
    <3>1. thread'[p].todo = <<"where">>
      BY <1>2, <2>5, <2>8 DEF ReleaseState, Thread
    <3> QED
      BY <3>1, TodoFacts
  <2>9. CASE ReleaseTest
    <3>1. thread'[p].todo = ReleaseBranch(q, Arg)
      BY <1>2, <2>5, <2>9 DEF ReleaseTest, Thread
    <3>2. ReleaseBranch(q, Arg) # <<>>
      BY DEF ReleaseBranch
    <3> QED
      BY <3>1, <3>2
  <2>10. ASSUME NEW sleepers \in SUBSET Pcb, Tick(sleepers) PROVE FALSE
    <3>1. t.then # "asleep"
      <4>1. CASE running = 0
        BY <2>5, <4>1, ShellCases DEF Shell
      <4>2. CASE running # 0
        BY <1>2, <2>5, <4>2, RunningCases
      <4> QED
        BY <4>1, <4>2
    <3>2. thread'[p] = [t EXCEPT !.was = NULL]
      BY <1>2, <2>5, <2>10, <3>1 DEF Tick
    <3> QED
      BY <1>2, <3>2 DEF Thread
  <2>11. CASE (\E x \in Pcb : Wake(x)) \/ Switch \/ UNCHANGED vars
    BY <2>1, <2>11 DEF Wake, Switch, vars
  <2> QED
    BY <2>5, <2>6, <2>7, <2>8, <2>9, <2>10, <2>11 DEF Next
<1>4. CASE running = 0
  <2>1. t = Shell /\ q' = Assigned(Step(Shell), q, Shell.pcb)
        /\ Step(Shell) \notin {"add", "release", "where"}
    BY <1>3, <1>4 DEF Statement, Shell, Arg
  <2>2. Rest(Shell.todo, q, Shell.pcb) = q' /\ Step(Shell) = Head(Shell.todo)
    <3>1. Shell.todo \in Seq(Steps) /\ Len(Shell.todo) = 1
      BY <1>2, <2>1 DEF Thread
    <3>2. Step(Shell) = Head(Shell.todo)
      BY <1>2, <2>1 DEF Step
    <3>3. Len(Shell.todo) = 1 => Rest(Shell.todo, q, Shell.pcb)
                                    = Assigned(Head(Shell.todo), q, Shell.pcb)
      <4>1. Len(Shell.todo) \in 1 .. 4
        BY <3>1
      <4> QED
        BY <3>1, <4>1, RestAfterFirst
    <3> QED
      BY <2>1, <3>1, <3>2, <3>3
  <2>3. CASE Step(Shell) \in AddSteps /\ ShellLinks(Shell)
    <3>1. q' = AddToReady(t.was, t.pcb)
      BY <2>1, <2>2, <2>3 DEF ShellLinks
    <3>2. Step(Shell) # "clearPrev"
      BY <2>3 DEF AddSteps
    <3> QED
      BY <2>1, <3>1, <3>2
  <2>4. CASE Step(Shell) \in ReleaseSteps /\ ShellUnlinks(Shell)
    <3>1. q' = ReleaseLinks(t.was, t.pcb)
      BY <2>1, <2>2, <2>4 DEF ShellUnlinks
    <3>2. Step(Shell) = "clearPrev"
      <4>1. Len(Shell.todo) = 1 /\ 1 \in 1 .. 1 /\ Head(Shell.todo) = Shell.todo[1]
        BY <1>2, <2>1 DEF Thread
      <4>2. Shell.todo[1] = "clearPrev"
        BY <2>4, <4>1 DEF ShellUnlinks, ClearsLast
      <4> QED
        BY <2>2, <4>1, <4>2
    <3> QED
      BY <2>1, <3>1, <3>2
  <2> QED
    BY <1>2, <2>1, <2>3, <2>4, ShellCases
<1>5. CASE running # 0
  <2>1. /\ state[running] = "DEFUNCT" /\ t.pcb = running
        /\ \/ t.todo = <<"headNext", "headPrev", "clearNext", "clearPrev">>
           \/ t.todo = <<"headPrev", "clearNext", "clearPrev">>
           \/ t.todo = <<"clearNext", "clearPrev">>
           \/ t.todo = <<"clearPrev">> /\ q' = q
    BY <1>3, <1>5, OtherStatementDoes
  <2>2. t.todo = <<"clearPrev">> /\ q' = q
    <3>1. /\ Len(<<"headNext", "headPrev", "clearNext", "clearPrev">>) # 1
          /\ Len(<<"headPrev", "clearNext", "clearPrev">>) # 1
          /\ Len(<<"clearNext", "clearPrev">>) # 1
      OBVIOUS
    <3> HIDE DEF t
    <3>2. Len(t.todo) = 1
      BY DEF t
    <3> QED
      BY <2>1, <3>1, <3>2, Zenon
  <2>3. q = ReleaseLinks(t.was, running)
    BY <1>1, <1>2, <1>3, <1>5, <2>2 DEF RunningExact
  <2>4. Step(t) = "clearPrev"
    BY <2>2, TodoFacts DEF Step
  <2> QED
    BY <2>1, <2>2, <2>3, <2>4
<1> QED
  BY <1>4, <1>5

\* A call the timer did not interrupt does what AddToReady and ReleaseLinks
\* say, on which the proofs about the ready queue, the kernel and the two
\* handlers rest (proc.c:100-148).
THEOREM StatementsDoAsTheFunctions == Spec => StatementsAgree
<1> DEFINE Agree ==
      \A p \in Pcb :
        LET t == thread[p]
        IN  Len(t.todo) = 1 /\ thread'[p].todo = <<>> /\ t.was # NULL
              => q' = IF Step(t) = "clearPrev" THEN ReleaseLinks(t.was, t.pcb)
                                               ELSE AddToReady(t.was, t.pcb)
<1>1. IInv /\ [Next]_vars => [Agree]_vars
  BY LastStatementAgrees
<1>2. Spec => [][Agree]_vars
  BY <1>1, Invariance, PTL DEF Spec
<1> QED
  BY <1>2 DEF StatementsAgree
=============================================================================
