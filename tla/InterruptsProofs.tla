-------------------------- MODULE InterruptsProofs --------------------------
(***************************************************************************)
(* For any number of processes and keys: one handler of int 9 at a time,   *)
(* and every key in one place and in order, wherever the timer switches,   *)
(* up to the moment when no process is left to run; while one process      *)
(* neither sleeps, ends nor is killed, that moment does not come.          *)
(***************************************************************************)
EXTENDS Interrupts, SequenceTheorems, FiniteSetTheorems, TLAPS

\* What the controller asks for: the line it signals is requested, and the
\* keyboard's line is requested exactly while a key waits at the port, which
\* only a keyboard that may send has put there.
Requests ==
  /\ signal \in irr \cup {None}
  /\ Keyboard \in irr <=> port # None
  /\ port # None => enabled

Inv == TypeOK /\ Requests /\ OneKeyHandler /\ KeysInOrder

-----------------------------------------------------------------------------
(* The controller.                                                         *)

LEMMA NoneIsOther == None \notin Lines /\ None \notin Keys /\ None \notin Proc
  BY ProcAssumption

LEMMA MinIsMember == ASSUME NEW S \in SUBSET Lines, S # {} PROVE Min(S) \in S
<1>1. CASE Timer \in S
  <2>1. Timer \in S /\ \A y \in S : Timer <= y
    BY <1>1 DEF Lines, Timer, Keyboard
  <2>2. QED
    BY <2>1 DEF Min
<1>2. CASE Timer \notin S
  <2>1. S = {Keyboard}
    BY <1>2 DEF Lines
  <2>2. Keyboard \in S /\ \A y \in S : Keyboard <= y
    BY <2>1 DEF Keyboard
  <2>3. QED
    BY <2>2 DEF Min
<1>3. QED
  BY <1>1, <1>2

\* The controller signals only what is requested.
LEMMA ServiceRequested ==
  ASSUME NEW R \in SUBSET Lines, NEW I, NEW now \in R \cup {None}
  PROVE  Service(R, I, now) \in R \cup {None}
  BY MinIsMember DEF Service

LEMMA EoiLines == ASSUME NEW I \in SUBSET Lines PROVE Eoi(I) \in SUBSET Lines
  BY DEF Eoi

-----------------------------------------------------------------------------
(* The scheduler.                                                          *)

LEMMA WokenType ==
  ASSUME NEW A \in SUBSET Proc,
         NEW woken \in SetToAllKPermutations(A)
  PROVE  woken \in Seq(Proc)
<1>1. PICK S \in SUBSET A : woken \in SetToSeqs(S)
  BY DEF SetToAllKPermutations
<1>2. Cardinality(S) \in Nat
  BY ProcAssumption, FS_Subset, FS_CardinalityType
<1>3. woken \in [1 .. Cardinality(S) -> S]
  BY <1>1 DEF SetToSeqs
<1>4. QED
  BY <1>2, <1>3

LEMMA SwitchType ==
  ASSUME TypeOK, Runs, Switch
  PROVE  /\ queue' \in Seq(Proc) /\ asleep' \subseteq Proc
         /\ running' \in Proc \cup {None}
<1> DEFINE last == IF Stays THEN <<running>> ELSE <<>>
<1>0. running \in Proc
  BY DEF TypeOK, Runs
<1>1. last \in Seq(Proc)
  BY <1>0
<1> HIDE DEF last
<1>2. PICK woken \in SetToAllKPermutations(asleep \ {running}) :
        /\ asleep' = asleep \ Range(woken)
        /\ queue' = IF queue \o woken \o last = <<>> THEN <<>>
                                                   ELSE Tail(queue \o woken \o last)
        /\ running' = IF queue \o woken \o last = <<>> THEN None
                                                     ELSE Head(queue \o woken \o last)
  BY DEF Switch, last
<1>3. woken \in Seq(Proc)
  <2>1. asleep \ {running} \in SUBSET Proc
    BY DEF TypeOK
  <2>2. QED
    BY <1>2, <2>1, WokenType
<1> DEFINE all == queue \o woken \o last
<1>4. all \in Seq(Proc)
  <2>1. queue \in Seq(Proc)
    BY DEF TypeOK
  <2>2. QED
    BY <1>1, <1>3, <2>1, ConcatProperties
<1>5. asleep' \subseteq Proc
  BY <1>2 DEF TypeOK
<1>6. CASE all = <<>>
  BY <1>2, <1>5, <1>6
<1>7. CASE all # <<>>
  <2>1. Tail(all) \in Seq(Proc) /\ Head(all) \in Proc
    BY <1>4, <1>7, HeadTailProperties
  <2>2. QED
    BY <1>2, <1>5, <1>7, <2>1
<1>8. QED
  BY <1>6, <1>7

-----------------------------------------------------------------------------
(* The keys.                                                               *)

\* A sequence that is not empty is its head and its tail.
LEMMA HeadAndTail ==
  ASSUME NEW S, NEW s \in Seq(S), s # <<>>
  PROVE  /\ Head(s) \in S /\ Tail(s) \in Seq(S) /\ <<Head(s)>> \in Seq(S)
         /\ s = <<Head(s)>> \o Tail(s)
<1>1. Len(s) \in Nat \ {0} /\ Head(s) = s[1]
  BY EmptySeq
<1>2. s = SubSeq(s, 1, Len(s)) /\ Tail(s) = SubSeq(s, 2, Len(s))
  BY SubSeqFull, TailIsSubSeq
<1>3. 1 \in 1 .. Len(s) /\ Len(s) \in 1 .. Len(s)
  BY <1>1
<1>4. SubSeq(s, 1, Len(s)) = <<s[1]>> \o SubSeq(s, 1 + 1, Len(s))
  BY <1>3, SubSeqRecursiveFirst
<1>5. QED
  BY <1>1, <1>2, <1>4, HeadTailProperties

\* A key passes from one end of a middle part to the other place.
LEMMA Handed ==
  ASSUME NEW S, NEW a \in Seq(S), NEW b \in Seq(S), NEW x \in S
  PROVE  /\ a \o (<<x>> \o b) = Append(a, x) \o b
         /\ a \o <<x>> = Append(a, x)
         /\ <<x>> \in Seq(S)
<1>1. <<x>> \in Seq(S)
  OBVIOUS
<1>2. Append(a, x) = a \o <<x>>
  BY AppendIsConcat
<1>3. (a \o <<x>>) \o b = a \o (<<x>> \o b)
  BY <1>1, ConcatAssociative
<1>4. QED
  BY <1>1, <1>2, <1>3

\* The keys typed so far and one more.
LEMMA OneMoreTyped ==
  ASSUME NEW n \in Nat
  PROVE  Append([k \in 1 .. n |-> k], n + 1) = [k \in 1 .. n + 1 |-> k]
<1> DEFINE s == [k \in 1 .. n |-> k]
           t == [k \in 1 .. n + 1 |-> k]
<1>1. s \in Seq(Nat) /\ t \in Seq(Nat) /\ Len(s) = n /\ Len(t) = n + 1
  OBVIOUS
<1>2. /\ Append(s, n + 1) \in Seq(Nat) /\ Len(Append(s, n + 1)) = n + 1
      /\ \A i \in 1 .. n : Append(s, n + 1)[i] = s[i]
      /\ Append(s, n + 1)[n + 1] = n + 1
  BY <1>1, AppendProperties
<1>3. \A i \in 1 .. n + 1 : Append(s, n + 1)[i] = t[i]
  BY <1>2
<1>4. QED
  BY <1>1, <1>2, <1>3, SeqEqual
LEMMA KeyInHandType == TypeOK => KeyInHand \in Seq(Keys)
<1> SUFFICES ASSUME TypeOK PROVE KeyInHand \in Seq(Keys)
  OBVIOUS
<1>1. CASE Holders = {}
  BY <1>1 DEF KeyInHand
<1>2. CASE Holders # {}
  <2>1. PICK p : p = CHOOSE r \in Holders : TRUE
    OBVIOUS
  <2>2. p \in Proc /\ handler[p] # <<>>
    BY <1>2, <2>1 DEF Holders
  <2>3. handler[p] \in Seq(Handler)
    BY <2>2 DEF TypeOK
  <2>4. Len(handler[p]) \in Nat \ {0}
    BY <2>2, <2>3, EmptySeq
  <2>5. handler[p][1] \in Handler
    BY <2>3, <2>4, ElementOfSeq
  <2>6. handler[p][1].key \in Keys
    BY <2>5 DEF Handler
  <2>7. KeyInHand = <<handler[p][1].key>>
    BY <1>2, <2>1 DEF KeyInHand
  <2>8. QED
    BY <2>6, <2>7
<1>3. QED
  BY <1>1, <1>2

LEMMA KeyAtPortType == TypeOK => KeyAtPort \in Seq(Keys)
<1> SUFFICES ASSUME TypeOK, port # None PROVE <<port>> \in Seq(Keys)
  BY DEF KeyAtPort
<1>1. port \in Keys
  BY DEF TypeOK
<1>2. QED
  BY <1>1

\* The parts that the keys pass through, from the left.
LEMMA PartTypes ==
  ASSUME TypeOK
  PROVE  /\ delivered \in Seq(Keys) /\ ring \in Seq(Keys)
         /\ KeyInHand \in Seq(Keys) /\ KeyAtPort \in Seq(Keys)
         /\ inKeyboard \in Seq(Keys)
         /\ delivered \o ring \in Seq(Keys)
         /\ delivered \o ring \o KeyInHand \in Seq(Keys)
         /\ delivered \o ring \o KeyInHand \o KeyAtPort \in Seq(Keys)
<1>1. /\ delivered \in Seq(Keys) /\ ring \in Seq(Keys)
      /\ inKeyboard \in Seq(Keys)
  BY DEF TypeOK
<1>2. KeyInHand \in Seq(Keys) /\ KeyAtPort \in Seq(Keys)
  BY KeyInHandType, KeyAtPortType
<1>3. QED
  BY <1>1, <1>2, ConcatProperties

-----------------------------------------------------------------------------
(* What most actions leave alone.                                          *)

LEMMA HandlersKept ==
  ASSUME OneKeyHandler, UNCHANGED <<handler, enabled>>
  PROVE  OneKeyHandler'
  BY DEF OneKeyHandler, HandledBy

LEMMA KeysKept ==
  ASSUME KeysInOrder, UNCHANGED <<typed, inKeyboard, port, bios>>
  PROVE  KeysInOrder'
  BY DEF KeysInOrder, KeyInHand, KeyAtPort, Holders, bios

-----------------------------------------------------------------------------
LEMMA InitInv == Init => Inv
<1> SUFFICES ASSUME Init PROVE Inv
  OBVIOUS
<1>1. PICK all \in SetToSeqs(Proc) : running = Head(all) /\ queue = Tail(all)
  BY DEF Init
<1>2. all \in Seq(Proc) /\ all # <<>>
  <2>1. Cardinality(Proc) \in Nat /\ Cardinality(Proc) # 0
    BY ProcAssumption, FS_CardinalityType, FS_EmptySet
  <2>2. all \in [1 .. Cardinality(Proc) -> Proc]
    BY DEF SetToSeqs
  <2>3. all \in Seq(Proc) /\ Len(all) = Cardinality(Proc)
    BY <2>1, <2>2
  <2>4. QED
    BY <2>1, <2>3
<1>3. queue \in Seq(Proc) /\ running \in Proc
  BY <1>1, <1>2, HeadTailProperties
<1>4. TypeOK
  BY <1>3, BoundAssumption DEF Init, TypeOK, Lines
<1>5. Requests
  BY DEF Init, Requests
<1>6. OneKeyHandler
  BY DEF Init, OneKeyHandler
<1>7. KeysInOrder
  <2>1. Holders = {}
    BY DEF Init, Holders
  <2>2. KeyInHand = <<>> /\ KeyAtPort = <<>>
    BY <2>1 DEF Init, KeyInHand, KeyAtPort
  <2>3. <<>> = [k \in 1 .. 0 |-> k]
    OBVIOUS
  <2>4. <<>> \o <<>> \o <<>> \o <<>> \o <<>> = <<>>
    BY ConcatEmptySeq, EmptySeq
  <2>5. QED
    BY <2>2, <2>3, <2>4 DEF Init, KeysInOrder
<1>8. QED
  BY <1>4, <1>5, <1>6, <1>7 DEF Inv

-----------------------------------------------------------------------------
(* The devices.                                                            *)

LEMMA TickInv == Inv /\ Tick => Inv'
<1> SUFFICES ASSUME Inv, Tick PROVE Inv'
  OBVIOUS
<1>1. irr' = irr \cup {Timer} /\ irr' \in SUBSET Lines /\ signal \in irr' \cup {None}
  BY DEF Inv, TypeOK, Requests, Tick, Raise, Lines
<1>2. signal' \in irr' \cup {None}
  BY <1>1, ServiceRequested DEF Tick, Raise
<1>3. TypeOK'
  BY <1>1, <1>2 DEF Inv, TypeOK, Tick, Raise, keyb, bios, sched
<1>4. Requests'
  BY <1>1, <1>2 DEF Inv, Requests, Tick, keyb, Timer, Keyboard
<1>5. OneKeyHandler'
  BY HandlersKept DEF Inv, Tick, keyb, bios
<1>6. KeysInOrder'
  BY KeysKept DEF Inv, Tick, keyb
<1>7. QED
  BY <1>3, <1>4, <1>5, <1>6 DEF Inv

LEMMA PressInv == Inv /\ Press => Inv'
<1> SUFFICES ASSUME Inv, Press PROVE Inv'
  OBVIOUS
<1>1. typed \in Nat /\ typed' = typed + 1 /\ typed' \in Keys /\ typed' \in 0 .. MaxKeys
  BY BoundAssumption DEF Inv, TypeOK, Press, Keys
<1>2. inKeyboard' = Append(inKeyboard, typed + 1) /\ inKeyboard' \in Seq(Keys)
  BY <1>1, AppendProperties DEF Inv, TypeOK, Press
<1>3. TypeOK'
  BY <1>1, <1>2 DEF Inv, TypeOK, Press, pic, bios, sched
<1>4. Requests'
  BY DEF Inv, Requests, Press, pic
<1>5. OneKeyHandler'
  BY HandlersKept DEF Inv, Press, bios
<1>6. KeysInOrder'
  <2> DEFINE before == delivered \o ring \o KeyInHand \o KeyAtPort
  <2>1. before \in Seq(Keys) /\ inKeyboard \in Seq(Keys)
    BY PartTypes DEF Inv
  <2>2. before' = before
    BY DEF Press, KeyInHand, KeyAtPort, Holders, bios
  <2>3. before \o inKeyboard = [k \in 1 .. typed |-> k]
    BY DEF Inv, KeysInOrder
  <2> HIDE DEF before
  <2>4. before \o Append(inKeyboard, typed + 1) = Append(before \o inKeyboard, typed + 1)
    <3>1. <<typed + 1>> \in Seq(Keys)
      BY <1>1
    <3>2. Append(inKeyboard, typed + 1) = inKeyboard \o <<typed + 1>>
      BY <1>1, <2>1, AppendIsConcat
    <3>3. before \o inKeyboard \in Seq(Keys)
      BY <2>1, ConcatProperties
    <3>4. Append(before \o inKeyboard, typed + 1) = (before \o inKeyboard) \o <<typed + 1>>
      BY <1>1, <3>3, AppendIsConcat
    <3>5. QED
      BY <2>1, <3>1, <3>2, <3>4, ConcatAssociative
  <2>5. (before \o inKeyboard)' = [k \in 1 .. typed + 1 |-> k]
    BY <1>1, <1>2, <2>2, <2>3, <2>4, OneMoreTyped
  <2>6. QED
    BY <1>1, <2>5 DEF KeysInOrder, before
<1>7. QED
  BY <1>3, <1>4, <1>5, <1>6 DEF Inv

LEMMA SendKeyInv == Inv /\ SendKey => Inv'
<1> SUFFICES ASSUME Inv, SendKey PROVE Inv'
  OBVIOUS
<1>1. /\ Head(inKeyboard) \in Keys /\ Tail(inKeyboard) \in Seq(Keys)
      /\ inKeyboard = <<Head(inKeyboard)>> \o Tail(inKeyboard)
  BY HeadAndTail DEF Inv, TypeOK, SendKey
<1>2. port' = Head(inKeyboard) /\ inKeyboard' = Tail(inKeyboard) /\ port' # None
  BY <1>1, NoneIsOther DEF SendKey
<1>3. irr' = irr \cup {Keyboard} /\ irr' \in SUBSET Lines /\ signal \in irr' \cup {None}
  BY DEF Inv, TypeOK, Requests, SendKey, Raise, Lines
<1>4. signal' \in irr' \cup {None}
  BY <1>3, ServiceRequested DEF SendKey, Raise
<1>5. TypeOK'
  BY <1>1, <1>2, <1>3, <1>4 DEF Inv, TypeOK, SendKey, Raise, bios, sched
<1>6. Requests'
  BY <1>2, <1>3, <1>4 DEF Requests, SendKey
<1>7. OneKeyHandler'
  BY HandlersKept DEF Inv, SendKey, bios
<1>8. KeysInOrder'
  <2> DEFINE before == delivered \o ring \o KeyInHand
  <2>1. before \in Seq(Keys)
    BY PartTypes DEF Inv
  <2>2. before' = before
    BY DEF SendKey, KeyInHand, Holders, bios
  <2>3. KeyAtPort = <<>> /\ KeyAtPort' = <<Head(inKeyboard)>>
    BY <1>2 DEF KeyAtPort, SendKey
  <2>4. before \o KeyAtPort \o inKeyboard = [k \in 1 .. typed |-> k]
    BY DEF Inv, KeysInOrder
  <2> HIDE DEF before
  <2>5. before \o KeyAtPort = before
    BY <2>1, <2>3, ConcatEmptySeq
  <2>6. before \o (<<Head(inKeyboard)>> \o Tail(inKeyboard))
        = (before \o <<Head(inKeyboard)>>) \o Tail(inKeyboard)
    BY <1>1, <2>1, Handed
  <2>7. (before \o KeyAtPort \o inKeyboard)' = before \o KeyAtPort \o inKeyboard
    BY <1>1, <1>2, <2>2, <2>3, <2>5, <2>6
  <2>8. typed' = typed
    BY DEF SendKey
  <2>9. QED
    BY <2>4, <2>7, <2>8 DEF KeysInOrder, before
<1>9. QED
  BY <1>5, <1>6, <1>7, <1>8 DEF Inv

-----------------------------------------------------------------------------
(* The handlers.                                                           *)

LEMMA TakeTickInv == Inv /\ TakeTick => Inv'
<1> SUFFICES ASSUME Inv, TakeTick PROVE Inv'
  OBVIOUS
<1>1. irr' = irr \ {Timer} /\ irr' \in SUBSET Lines
  BY DEF Inv, TypeOK, TakeTick, Taken
<1>2. Acknowledged \in SUBSET Lines
  BY DEF Inv, TypeOK, TakeTick, Acknowledged, Lines
<1>3. isr' \in SUBSET Lines
  BY <1>2, EoiLines DEF TakeTick
<1>4. signal' \in irr' \cup {None}
  BY <1>1, ServiceRequested DEF TakeTick
<1>5. /\ queue' \in Seq(Proc) /\ asleep' \subseteq Proc
      /\ running' \in Proc \cup {None}
  BY SwitchType DEF Inv, TakeTick
<1>9. TypeOK'
  BY <1>1, <1>3, <1>4, <1>5 DEF Inv, TypeOK, TakeTick, keyb, bios
<1>10. Requests'
  BY <1>1, <1>4 DEF Inv, Requests, TakeTick, keyb, Timer, Keyboard
<1>11. OneKeyHandler'
  BY HandlersKept DEF Inv, TakeTick, keyb, bios
<1>12. KeysInOrder'
  BY KeysKept DEF Inv, TakeTick, keyb
<1>13. QED
  BY <1>9, <1>10, <1>11, <1>12 DEF Inv

\* The keyboard was on, so no other handler is under way.
LEMMA TakeKeyInv == Inv /\ TakeKey => Inv'
<1> SUFFICES ASSUME Inv, TakeKey PROVE Inv'
  OBVIOUS
<1> DEFINE taken == [key |-> port, stored |-> FALSE]
<1>1. /\ Keyboard \in irr /\ port # None /\ port \in Keys /\ enabled
      /\ running \in Proc
  BY NoneIsOther DEF Inv, TypeOK, Requests, TakeKey, Runs, Lines
<1>2. /\ \A p \in Proc : handler[p] = <<>>
      /\ handler \in [Proc -> Seq(Handler)]
  BY <1>1 DEF Inv, TypeOK, OneKeyHandler
<1>3. taken \in Handler /\ <<taken>> \in Seq(Handler)
  BY <1>1 DEF Handler
<1>4. handler' = [handler EXCEPT ![running] = <<taken>>]
  <2>1. <<taken>> \o handler[running] = <<taken>>
    BY <1>1, <1>2, <1>3, ConcatEmptySeq
  <2>2. QED
    BY <2>1 DEF TakeKey
<1>5. /\ handler'[running] = <<taken>>
      /\ \A p \in Proc \ {running} : handler'[p] = <<>>
      /\ handler' \in [Proc -> Seq(Handler)]
  BY <1>1, <1>2, <1>3, <1>4
<1>6. irr' = irr \ {Keyboard} /\ irr' \in SUBSET Lines /\ isr' \in SUBSET Lines
  BY DEF Inv, TypeOK, TakeKey, Taken, Acknowledged, Lines
<1>7. signal' \in irr' \cup {None}
  BY <1>6, ServiceRequested DEF TakeKey
<1>8. ~enabled' /\ enabled' \in BOOLEAN /\ port' = None
  BY DEF TakeKey, TurnedOff
<1>9. TypeOK'
  BY <1>5, <1>6, <1>7, <1>8 DEF Inv, TypeOK, TakeKey, sched
<1>10. Requests'
  BY <1>6, <1>7, <1>8 DEF Requests
<1>11. OneKeyHandler'
  <2>1. Len(handler'[running]) = 1
    BY <1>5
  <2>2. QED
    BY <1>1, <1>5, <1>8, <2>1 DEF OneKeyHandler, HandledBy
<1>12. KeysInOrder'
  <2> DEFINE before == delivered \o ring
  <2>1. before \in Seq(Keys) /\ before' = before
    BY PartTypes DEF Inv, TakeKey
  <2>2. KeyInHand = <<>> /\ KeyAtPort = <<port>>
    <3>1. Holders = {}
      BY <1>2 DEF Holders
    <3>2. QED
      BY <1>1, <3>1 DEF KeyInHand, KeyAtPort
  <2>3. KeyInHand' = <<port>> /\ KeyAtPort' = <<>>
    <3>1. /\ handler'[running] # <<>> /\ handler'[running][1] = taken
      BY <1>5
    <3>2. Holders' = {running}
      BY <1>1, <1>5, <3>1 DEF Holders
    <3>3. (CHOOSE p \in {running} : TRUE) = running
      OBVIOUS
    <3>4. KeyInHand' = <<handler'[running][1].key>>
      BY <3>2, <3>3 DEF KeyInHand
    <3>5. QED
      BY <1>8, <3>1, <3>4 DEF KeyAtPort
  <2>4. before \o KeyInHand \o KeyAtPort \o inKeyboard = [k \in 1 .. typed |-> k]
    BY DEF Inv, KeysInOrder
  <2> HIDE DEF before
  <2>5. before \o KeyInHand = before
    BY <2>1, <2>2, ConcatEmptySeq
  <2>6. (before \o <<port>>) \o <<>> = before \o <<port>>
    <3>1. before \o <<port>> \in Seq(Keys)
      BY <1>1, <2>1, Handed, AppendProperties
    <3>2. QED
      BY <3>1, ConcatEmptySeq
  <2>7. (before \o KeyInHand \o KeyAtPort)' = before \o KeyInHand \o KeyAtPort
    BY <2>1, <2>2, <2>3, <2>5, <2>6
  <2>8. inKeyboard' = inKeyboard /\ typed' = typed
    BY DEF TakeKey
  <2>9. QED
    BY <2>4, <2>7, <2>8 DEF KeysInOrder, before
<1>13. QED
  BY <1>9, <1>10, <1>11, <1>12 DEF Inv

\* Who is in the handler is the only one, and once only.
LEMMA OnlyHandler ==
  ASSUME Inv, InHandler
  PROVE  /\ ~enabled /\ running \in Proc /\ Len(handler[running]) = 1
         /\ handler[running] \in Seq(Handler) /\ handler[running][1] \in Handler
         /\ \A p \in Proc \ {running} : handler[p] = <<>>
<1>1. running \in Proc /\ handler[running] # <<>> /\ handler[running] \in Seq(Handler)
  BY DEF Inv, TypeOK, InHandler, Runs
<1>2. ~enabled
  BY <1>1 DEF Inv, OneKeyHandler
<1>3. PICK p \in Proc : HandledBy(p)
  BY <1>2 DEF Inv, OneKeyHandler
<1>4. p = running
  BY <1>1, <1>3 DEF HandledBy
<1>5. Len(handler[running]) = 1
  BY <1>3, <1>4 DEF HandledBy
<1>6. handler[running][1] \in Handler
  BY <1>1, <1>5, ElementOfSeq
<1>7. QED
  BY <1>1, <1>2, <1>3, <1>4, <1>5, <1>6 DEF HandledBy

LEMMA StoreKeyInv == Inv /\ StoreKey => Inv'
<1> SUFFICES ASSUME Inv, StoreKey PROVE Inv'
  OBVIOUS
<1> DEFINE hand == handler[running]
<1>1. /\ ~enabled /\ running \in Proc /\ Len(hand) = 1
      /\ hand \in Seq(Handler) /\ hand[1] \in Handler
      /\ \A p \in Proc \ {running} : handler[p] = <<>>
  BY OnlyHandler DEF StoreKey
<1>2. ~hand[1].stored /\ hand[1].key \in Keys
  BY <1>1 DEF StoreKey, Handler
<1> DEFINE put == [hand[1] EXCEPT !.stored = TRUE]
<1>3. put \in Handler /\ put.stored
  BY <1>1 DEF Handler
<1> DEFINE left == [hand EXCEPT ![1] = put]
<1>4. left \in Seq(Handler) /\ Len(left) = 1 /\ left[1] = put
  BY <1>1, <1>3, ExceptSeq
<1>5. handler' = [handler EXCEPT ![running] = left]
  BY DEF StoreKey
<1>6. handler \in [Proc -> Seq(Handler)]
  BY DEF Inv, TypeOK
<1> HIDE DEF put, left
<1>7. /\ handler' \in [Proc -> Seq(Handler)]
      /\ handler'[running] = left
      /\ \A p \in Proc \ {running} : handler'[p] = <<>>
  BY <1>1, <1>4, <1>5, <1>6
<1>8. ring' = Append(ring, hand[1].key) /\ ring' \in Seq(Keys)
  BY <1>2, AppendProperties DEF Inv, TypeOK, StoreKey
<1>9. TypeOK'
  BY <1>7, <1>8 DEF Inv, TypeOK, StoreKey, pic, keyb, sched
<1>10. Requests'
  BY DEF Inv, Requests, StoreKey, pic, keyb
<1>11. OneKeyHandler'
  BY <1>1, <1>4, <1>7 DEF OneKeyHandler, HandledBy, StoreKey, keyb
<1>12. KeysInOrder'
  <2> DEFINE x == hand[1].key
  <2>1. /\ delivered \in Seq(Keys) /\ ring \in Seq(Keys) /\ x \in Keys
        /\ delivered' = delivered /\ ring' = Append(ring, x)
        /\ KeyAtPort' = KeyAtPort /\ inKeyboard' = inKeyboard /\ typed' = typed
    BY <1>2, <1>8 DEF Inv, TypeOK, StoreKey, keyb, KeyAtPort
  <2>2. KeyInHand = <<x>>
    <3>1. hand # <<>>
      BY <1>1
    <3>2. Holders = {running}
      BY <1>1, <1>2, <3>1 DEF Holders
    <3>3. (CHOOSE p \in {running} : TRUE) = running
      OBVIOUS
    <3>4. QED
      BY <3>2, <3>3 DEF KeyInHand
  <2>3. KeyInHand' = <<>>
    <3>1. Holders' = {}
      BY <1>3, <1>4, <1>7 DEF Holders
    <3>2. QED
      BY <3>1 DEF KeyInHand
  <2> HIDE DEF x
  <2>4. (delivered \o ring) \o <<x>> = delivered \o Append(ring, x)
    <3>1. <<x>> \in Seq(Keys) /\ ring \o <<x>> = Append(ring, x)
      BY <2>1, Handed
    <3>2. (delivered \o ring) \o <<x>> = delivered \o (ring \o <<x>>)
      BY <2>1, <3>1, ConcatAssociative
    <3>3. QED
      BY <3>1, <3>2
  <2>5. delivered \o Append(ring, x) \in Seq(Keys)
    BY <2>1, AppendProperties, ConcatProperties
  <2>6. (delivered \o Append(ring, x)) \o <<>> = delivered \o Append(ring, x)
    BY <2>5, ConcatEmptySeq
  <2>7. (delivered \o ring \o KeyInHand)' = delivered \o ring \o KeyInHand
    BY <2>1, <2>2, <2>3, <2>4, <2>6
  <2>8. QED
    BY <2>1, <2>7 DEF Inv, KeysInOrder
<1>13. QED
  BY <1>9, <1>10, <1>11, <1>12 DEF Inv

LEMMA EndKeyInv == Inv /\ EndKey => Inv'
<1> SUFFICES ASSUME Inv, EndKey PROVE Inv'
  OBVIOUS
<1>1. /\ ~enabled /\ running \in Proc /\ Len(handler[running]) = 1
      /\ handler[running] \in Seq(Handler)
      /\ \A p \in Proc \ {running} : handler[p] = <<>>
  BY OnlyHandler DEF EndKey
<1>2. Tail(handler[running]) = <<>>
  <2>1. handler[running] # <<>>
    BY DEF EndKey, InHandler
  <2>2. Tail(handler[running]) \in Seq(Handler) /\ Len(Tail(handler[running])) = 0
    BY <1>1, <2>1, HeadTailProperties
  <2>3. QED
    BY <2>2, EmptySeq
<1>3. handler \in [Proc -> Seq(Handler)]
  BY DEF Inv, TypeOK
<1>4. handler' = [handler EXCEPT ![running] = <<>>]
  BY <1>2 DEF EndKey
<1>5. /\ \A p \in Proc : handler'[p] = <<>>
      /\ handler' \in [Proc -> Seq(Handler)]
  BY <1>1, <1>3, <1>4
<1>6. isr' \in SUBSET Lines
  BY EoiLines DEF Inv, TypeOK, EndKey
<1>7. signal' \in irr \cup {None} /\ irr' = irr
  BY ServiceRequested DEF Inv, TypeOK, Requests, EndKey
<1>8. enabled' = TRUE
  BY DEF EndKey
<1>9. TypeOK'
  BY <1>5, <1>6, <1>7, <1>8 DEF Inv, TypeOK, EndKey, sched
<1>10. Requests'
  BY <1>7, <1>8 DEF Inv, Requests, EndKey
<1>11. OneKeyHandler'
  BY <1>5, <1>8 DEF OneKeyHandler
<1>12. KeysInOrder'
  <2>0. handler[running][1].stored
    BY DEF EndKey
  <2>1. Holders = {} /\ Holders' = {}
    BY <2>0, <1>1, <1>5 DEF Holders
  <2>2. KeyInHand' = KeyInHand
    BY <2>1 DEF KeyInHand
  <2>3. QED
    BY <2>2 DEF Inv, KeysInOrder, KeyAtPort, EndKey
<1>13. QED
  BY <1>9, <1>10, <1>11, <1>12 DEF Inv

-----------------------------------------------------------------------------
(* The programs.                                                           *)

LEMMA ReadKeyInv == Inv /\ ReadKey => Inv'
<1> SUFFICES ASSUME Inv, ReadKey PROVE Inv'
  OBVIOUS
<1> DEFINE x == Head(ring)
           rest == Tail(ring)
<1>1. /\ delivered \in Seq(Keys) /\ ring \in Seq(Keys)
      /\ x \in Keys /\ rest \in Seq(Keys) /\ ring = <<x>> \o rest
  BY HeadAndTail DEF Inv, TypeOK, ReadKey
<1>2. delivered' = Append(delivered, x) /\ ring' = rest
  BY DEF ReadKey
<1> HIDE DEF x, rest
<1>3. delivered' \in Seq(Keys) /\ ring' \in Seq(Keys)
  BY <1>1, <1>2, AppendProperties
<1>4. TypeOK'
  BY <1>3 DEF Inv, TypeOK, ReadKey, pic, keyb, sched
<1>5. Requests'
  BY DEF Inv, Requests, ReadKey, pic, keyb
<1>6. OneKeyHandler'
  BY HandlersKept DEF Inv, ReadKey, keyb
<1>7. KeysInOrder'
  <2>1. /\ KeyInHand' = KeyInHand /\ KeyAtPort' = KeyAtPort
        /\ inKeyboard' = inKeyboard /\ typed' = typed
    BY DEF ReadKey, KeyInHand, KeyAtPort, Holders, keyb
  <2>2. delivered \o (<<x>> \o rest) = Append(delivered, x) \o rest
    BY <1>1, Handed
  <2>3. (delivered \o ring)' = delivered \o ring
    BY <1>1, <1>2, <2>2
  <2>4. QED
    BY <2>1, <2>3 DEF Inv, KeysInOrder
<1>8. QED
  BY <1>4, <1>5, <1>6, <1>7 DEF Inv

LEMMA FallAsleepInv == Inv /\ FallAsleep => Inv'
<1> SUFFICES ASSUME Inv, FallAsleep PROVE Inv'
  OBVIOUS
<1>1. asleep' \subseteq Proc
  BY ProcAssumption DEF Inv, TypeOK, FallAsleep
<1>2. phase' \in [Proc -> {"program", "falling", "dead"}]
  BY DEF Inv, TypeOK, FallAsleep
<1>3. TypeOK'
  BY <1>1, <1>2 DEF Inv, TypeOK, FallAsleep, pic, keyb, bios
<1>4. Requests'
  BY DEF Inv, Requests, FallAsleep, pic, keyb
<1>5. OneKeyHandler'
  BY HandlersKept DEF Inv, FallAsleep, keyb, bios
<1>6. KeysInOrder'
  BY KeysKept DEF Inv, FallAsleep, keyb
<1>7. QED
  BY <1>3, <1>4, <1>5, <1>6 DEF Inv

LEMMA RaiseTickInv == Inv /\ RaiseTick => Inv'
<1> SUFFICES ASSUME Inv, RaiseTick PROVE Inv'
  OBVIOUS
<1>1. isr' \in SUBSET Lines
  BY EoiLines DEF Inv, TypeOK, RaiseTick
<1>2. signal' \in irr \cup {None} /\ irr' = irr
  BY ServiceRequested DEF Inv, TypeOK, Requests, RaiseTick
<1>3. /\ queue' \in Seq(Proc) /\ asleep' \subseteq Proc
      /\ running' \in Proc \cup {None}
  BY SwitchType DEF Inv, RaiseTick, Does, InProgram
<1>4. phase' \in [Proc -> {"program", "falling", "dead"}]
  BY DEF Inv, TypeOK, RaiseTick
<1>5. TypeOK'
  BY <1>1, <1>2, <1>3, <1>4 DEF Inv, TypeOK, RaiseTick, keyb, bios
<1>6. Requests'
  BY <1>2 DEF Inv, Requests, RaiseTick, keyb
<1>7. OneKeyHandler'
  BY HandlersKept DEF Inv, RaiseTick, keyb, bios
<1>8. KeysInOrder'
  BY KeysKept DEF Inv, RaiseTick, keyb
<1>9. QED
  BY <1>5, <1>6, <1>7, <1>8 DEF Inv

LEMMA TerminateInv == Inv /\ Terminate => Inv'
<1> SUFFICES ASSUME Inv, Terminate PROVE Inv'
  OBVIOUS
<1>1. phase' \in [Proc -> {"program", "falling", "dead"}]
  BY DEF Inv, TypeOK, Terminate
<1>2. TypeOK'
  BY <1>1 DEF Inv, TypeOK, Terminate, pic, keyb, bios
<1>3. Requests'
  BY DEF Inv, Requests, Terminate, pic, keyb
<1>4. OneKeyHandler'
  BY HandlersKept DEF Inv, Terminate, keyb, bios
<1>5. KeysInOrder'
  BY KeysKept DEF Inv, Terminate, keyb
<1>6. QED
  BY <1>2, <1>3, <1>4, <1>5 DEF Inv

LEMMA KillInv == ASSUME Inv, NEW p \in Victims, Kill(p) PROVE Inv'
<1>1. queue' \in Seq(Proc)
  <2>1. queue \in Seq(Proc)
    BY DEF Inv, TypeOK
  <2>2. ASSUME NEW k \in DOMAIN queue, queue' = RemoveAt(queue, k)
        PROVE  queue' \in Seq(Proc)
    <3>1. k \in 1 .. Len(queue) /\ Len(queue) \in Nat
      BY <2>1, LenProperties
    <3>2. SubSeq(queue, 1, k - 1) \in Seq(Proc)
      BY <2>1, <3>1
    <3>3. SubSeq(queue, k + 1, Len(queue)) \in Seq(Proc)
      BY <2>1, <3>1
    <3>4. QED
      BY <2>2, <3>2, <3>3, ConcatProperties DEF RemoveAt
  <2>3. QED
    BY <2>1, <2>2 DEF Kill
<1>2. TypeOK'
  BY <1>1 DEF Inv, TypeOK, Kill, pic, keyb, bios
<1>3. Requests'
  BY DEF Inv, Requests, Kill, pic, keyb
<1>4. OneKeyHandler'
  BY HandlersKept DEF Inv, Kill, keyb, bios
<1>5. KeysInOrder'
  BY KeysKept DEF Inv, Kill, keyb
<1>6. QED
  BY <1>2, <1>3, <1>4, <1>5 DEF Inv

LEMMA NextInv == Inv /\ [Next]_vars => Inv'
<1> SUFFICES ASSUME Inv, [Next]_vars PROVE Inv'
  OBVIOUS
<1>1. CASE Tick
  BY <1>1, TickInv
<1>2. CASE Press
  BY <1>2, PressInv
<1>3. CASE SendKey
  BY <1>3, SendKeyInv
<1>4. CASE TakeTick
  BY <1>4, TakeTickInv
<1>5. CASE TakeKey
  BY <1>5, TakeKeyInv
<1>6. CASE StoreKey
  BY <1>6, StoreKeyInv
<1>7. CASE EndKey
  BY <1>7, EndKeyInv
<1>8. CASE ReadKey
  BY <1>8, ReadKeyInv
<1>9. CASE FallAsleep
  BY <1>9, FallAsleepInv
<1>10. CASE RaiseTick
  BY <1>10, RaiseTickInv
<1>11. CASE Terminate
  BY <1>11, TerminateInv
<1>12. ASSUME NEW p \in Victims, Kill(p) PROVE Inv'
  BY <1>12, KillInv
<1>13. CASE UNCHANGED vars
  <2>1. TypeOK' /\ Requests'
    BY <1>13 DEF vars, pic, keyb, bios, sched, Inv, TypeOK, Requests
  <2>2. OneKeyHandler'
    BY <1>13, HandlersKept DEF vars, keyb, bios, Inv
  <2>3. KeysInOrder'
    BY <1>13, KeysKept DEF vars, keyb, Inv
  <2>4. QED
    BY <2>1, <2>2, <2>3 DEF Inv
<1>14. QED
  BY <1>1, <1>2, <1>3, <1>4, <1>5, <1>6, <1>7, <1>8, <1>9, <1>10, <1>11, <1>12,
     <1>13 DEF Next

-----------------------------------------------------------------------------
\* The invariant that the theorems below are read off: a key is at the port
\* exactly while its line is requested, and only a keyboard that is on puts
\* one there, so no second handler begins before the first has ended.
THEOREM Invariance == Spec => []Inv
  BY InitInv, NextInv, PTL DEF Spec

\* The queues of the processes and of the keys hold processes and keys, for
\* any number of both.
THEOREM TypeCorrect == Spec => []TypeOK
<1>1. Inv => TypeOK
  BY DEF Inv
<1>2. QED
  BY <1>1, Invariance, PTL

\* int 9 is on the stack of one process at most, wherever the timer, a sleep
\* or a kill switches (rombios.c:10972-11029, kernel.asm:145-222).
THEOREM KeyHandlerIsUnique == Spec => []OneKeyHandler
<1>1. Inv => OneKeyHandler
  BY DEF Inv
<1>2. QED
  BY <1>1, Invariance, PTL

\* Every key that was typed is in one place, none twice and none overtaken,
\* from the keyboard to the programs (keyboard.cc:436-460, rombios.c:
\* 10984-11029), up to the moment when no process is left to run (see
\* SomebodyRuns).  One place is the hand of a process that does not come
\* back, where a key stays.
THEOREM KeysStayInOrder == Spec => []KeysInOrder
<1>1. Inv => KeysInOrder
  BY DEF Inv
<1>2. QED
  BY <1>1, Invariance, PTL

-----------------------------------------------------------------------------
(* While there is a process that stays, the processor has one to run.      *)

\* A process that does not sleep, does not end and is not killed: the shell,
\* when nobody ends or kills it.
Lasting == Proc \ (Sleepers \cup Enders \cup Victims)

Remains(p) ==
  /\ Runs /\ p \notin asleep /\ phase[p] = "program"
  /\ p \in Range(queue) \cup {running}

\* Every process is in the first queue or on the processor.
LEMMA AllAreIn ==
  ASSUME NEW all \in SetToSeqs(Proc), NEW p \in Proc
  PROVE  all \in Seq(Proc) /\ all # <<>> /\ p \in Range(all)
<1> DEFINE n == Cardinality(Proc)
<1>1. n \in Nat /\ n # 0
  BY ProcAssumption, FS_CardinalityType, FS_EmptySet
<1>2. all \in [1 .. n -> Proc] /\ \A i, j \in 1 .. n : i # j => all[i] # all[j]
  BY DEF SetToSeqs
<1>3. all \in Seq(Proc) /\ Len(all) = n
  BY <1>1, <1>2
<1>4. all # <<>>
  BY <1>1, <1>3
<1>5. all \in Injection(1 .. n, Proc)
  BY <1>2 DEF Injection, IsInjective
<1>6. Cardinality(1 .. n) = n
  BY <1>1, FS_Interval
<1>7. all \in Surjection(1 .. n, Proc)
  BY <1>5, <1>6, ProcAssumption, FS_Injection
<1>8. PICK i \in 1 .. n : all[i] = p
  BY <1>7 DEF Surjection
<1>9. Range(all) = {all[j] : j \in 1 .. Len(all)}
  BY <1>3, RangeEquality
<1>10. QED
  BY <1>3, <1>4, <1>8, <1>9

\* Who is in a sequence is its head or in its tail.
LEMMA HeadOrTail ==
  ASSUME NEW s \in Seq(Proc), NEW p \in Range(s)
  PROVE  s # <<>> /\ p \in Range(Tail(s)) \cup {Head(s)}
<1>1. PICK i \in 1 .. Len(s) : s[i] = p
  BY RangeEquality
<1>2. Len(s) \in Nat /\ Len(s) # 0 /\ s # <<>>
  BY <1>1, LenProperties
<1>3. CASE i = 1
  BY <1>1, <1>2, <1>3, HeadTailProperties
<1>4. CASE i # 1
  <2>1. /\ Tail(s) \in Seq(Proc) /\ Len(Tail(s)) = Len(s) - 1
        /\ \A j \in 1 .. Len(Tail(s)) : Tail(s)[j] = s[j + 1]
    BY <1>2, HeadTailProperties
  <2>2. i - 1 \in 1 .. Len(Tail(s)) /\ Tail(s)[i - 1] = p
    BY <1>1, <1>2, <1>4, <2>1
  <2>3. QED
    BY <1>2, <2>1, <2>2, RangeEquality
<1>5. QED
  BY <1>3, <1>4

LEMMA SwitchRemains ==
  ASSUME TypeOK, Runs, Switch, NEW p \in Proc, Remains(p)
  PROVE  Runs' /\ p \notin asleep' /\ p \in Range(queue') \cup {running'}
<1> DEFINE last == IF Stays THEN <<running>> ELSE <<>>
<1>0. queue \in Seq(Proc) /\ running \in Proc
  BY DEF TypeOK, Runs
<1>1. last \in Seq(Proc) /\ (p = running => p \in Range(last))
  <2>1. CASE p = running
    <3>1. last = <<p>> /\ last \in Seq(Proc) /\ Len(last) = 1 /\ last[1] = p
      BY <2>1 DEF Remains, Stays
    <3> HIDE DEF last
    <3>2. p \in Range(last)
      BY <3>1 DEF Range
    <3>3. QED
      BY <3>1, <3>2
  <2>2. CASE p # running
    BY <1>0, <2>2
  <2>3. QED
    BY <2>1, <2>2
<1> HIDE DEF last
<1>2. PICK woken \in SetToAllKPermutations(asleep \ {running}) :
        /\ asleep' = asleep \ Range(woken)
        /\ queue' = IF queue \o woken \o last = <<>> THEN <<>>
                                                   ELSE Tail(queue \o woken \o last)
        /\ running' = IF queue \o woken \o last = <<>> THEN None
                                                     ELSE Head(queue \o woken \o last)
  BY DEF Switch, last
<1>3. woken \in Seq(Proc)
  <2>1. asleep \ {running} \in SUBSET Proc
    BY DEF TypeOK
  <2>2. QED
    BY <1>2, <2>1, WokenType
<1> DEFINE all == queue \o woken \o last
<1>4. all \in Seq(Proc) /\ queue \o woken \in Seq(Proc)
  BY <1>0, <1>1, <1>3, ConcatProperties
<1>5. Range(all) = Range(queue) \cup Range(woken) \cup Range(last)
  <2>1. Range(queue \o woken) = Range(queue) \cup Range(woken)
    BY <1>0, <1>3, RangeConcatenation
  <2>2. Range(all) = Range(queue \o woken) \cup Range(last)
    <3> DEFINE front == queue \o woken
    <3>1. front \in Seq(Proc) /\ all = front \o last
      BY <1>4
    <3> HIDE DEF front
    <3>2. Range(front \o last) = Range(front) \cup Range(last)
      BY <1>1, <3>1, RangeConcatenation
    <3>3. QED
      BY <3>1, <3>2 DEF front
  <2>3. QED
    BY <2>1, <2>2
<1>6. p \in Range(all)
  BY <1>1, <1>5 DEF Remains
<1> HIDE DEF all
<1>7. all # <<>> /\ p \in Range(Tail(all)) \cup {Head(all)}
  BY <1>4, <1>6, HeadOrTail
<1>8. queue' = Tail(all) /\ running' = Head(all)
  BY <1>2, <1>7 DEF all
<1>9. Head(all) \in Proc
  BY <1>4, <1>7, HeadTailProperties
<1>10. QED
  BY <1>2, <1>7, <1>8, <1>9, NoneIsOther DEF Remains, Runs

LEMMA InitRemains == ASSUME Init, NEW p \in Lasting PROVE Remains(p)
<1>1. PICK all \in SetToSeqs(Proc) : running = Head(all) /\ queue = Tail(all)
  BY DEF Init
<1>2. p \in Proc
  BY DEF Lasting
<1>3. all \in Seq(Proc) /\ all # <<>> /\ p \in Range(all)
  BY <1>1, <1>2, AllAreIn
<1>4. p \in Range(Tail(all)) \cup {Head(all)}
  BY <1>3, HeadOrTail
<1>5. running \in Proc /\ running # None
  BY <1>1, <1>3, HeadTailProperties, NoneIsOther
<1>6. asleep = {} /\ phase[p] = "program"
  BY <1>2 DEF Init
<1>7. QED
  BY <1>1, <1>4, <1>5, <1>6 DEF Remains, Runs

\* A kill takes another process out of the queue.
LEMMA KillRemains ==
  ASSUME TypeOK, NEW p \in Proc, NEW q \in Proc, p # q, Remains(p), Kill(q)
  PROVE  Remains(p)'
<1>1. Runs' /\ p \notin asleep' /\ phase' = phase /\ running' = running
  BY DEF Kill, Remains, Runs
<1>2. ASSUME p \in Range(queue) PROVE p \in Range(queue')
  <2>1. queue \in Seq(Proc) /\ Len(queue) \in Nat
    BY DEF TypeOK
  <2>2. ASSUME NEW k \in DOMAIN queue, queue[k] = q, queue' = RemoveAt(queue, k)
        PROVE  p \in Range(queue')
    <3> DEFINE front == SubSeq(queue, 1, k - 1)
               back == SubSeq(queue, k + 1, Len(queue))
    <3>1. PICK i \in 1 .. Len(queue) : queue[i] = p
      BY <1>2, <2>1, RangeEquality
    <3>2. k \in 1 .. Len(queue) /\ i # k
      BY <2>1, <2>2, <3>1, LenProperties
    <3>3. /\ front \in Seq(Proc) /\ Len(front) = k - 1
          /\ \A j \in 1 .. k - 1 : front[j] = queue[j]
      BY <2>1, <3>2
    <3>4. /\ back \in Seq(Proc) /\ Len(back) = Len(queue) - k
          /\ \A j \in 1 .. Len(queue) - k : back[j] = queue[k + j]
      BY <2>1, <3>2
    <3> HIDE DEF front, back
    <3>5. Range(front) = {front[j] : j \in 1 .. Len(front)}
      BY <3>3, RangeEquality
    <3>6. Range(back) = {back[j] : j \in 1 .. Len(back)}
      BY <3>4, RangeEquality
    <3>7. p \in Range(front) \cup Range(back)
      <4>1. CASE i < k
        <5>1. i \in 1 .. k - 1
          BY <2>1, <3>2, <4>1
        <5>2. QED
          BY <3>1, <3>3, <3>5, <5>1
      <4>2. CASE k < i
        <5>1. i - k \in 1 .. Len(queue) - k /\ k + (i - k) = i
          BY <2>1, <3>2, <4>2
        <5>2. QED
          BY <3>1, <3>4, <3>6, <5>1
      <4>3. QED
        BY <3>2, <4>1, <4>2
    <3>8. queue' = front \o back
      BY <2>2 DEF RemoveAt, front, back
    <3>9. QED
      BY <3>3, <3>4, <3>7, <3>8, RangeConcatenation
  <2>3. QED
    BY <1>2, <2>2 DEF Kill
<1>3. QED
  BY <1>1, <1>2 DEF Remains

LEMMA NextRemains ==
  ASSUME NEW p \in Lasting, Inv, Remains(p), [Next]_vars
  PROVE  Remains(p)'
<1> USE DEF Remains
<1>0. p \in Proc /\ p \notin Sleepers \cup Enders \cup Victims
  BY DEF Lasting
<1>1. ASSUME UNCHANGED sched PROVE Remains(p)'
  BY <1>1 DEF sched, Runs
<1>2. CASE TakeTick
  BY <1>0, <1>2, SwitchRemains DEF Inv, TakeTick
<1>3. CASE FallAsleep
  BY <1>0, <1>3 DEF FallAsleep, Inv, TypeOK, Runs
<1>4. CASE RaiseTick
  <2>1. Runs' /\ p \notin asleep' /\ p \in Range(queue') \cup {running'}
    BY <1>0, <1>4, SwitchRemains DEF Inv, RaiseTick, Does, InProgram
  <2>2. phase'[p] = "program"
    BY <1>0, <1>4 DEF RaiseTick, Inv, TypeOK
  <2>3. QED
    BY <2>1, <2>2
<1>5. CASE Terminate
  BY <1>0, <1>5 DEF Terminate, Inv, TypeOK, Runs
<1>6. ASSUME NEW q \in Victims, Kill(q) PROVE Remains(p)'
  BY <1>0, <1>6, ProcAssumption, KillRemains DEF Inv
<1>7. QED
  BY <1>1, <1>2, <1>3, <1>4, <1>5, <1>6
     DEF Next, vars, Tick, Press, SendKey, TakeKey, StoreKey, EndKey, ReadKey

\* While one process neither sleeps, ends nor is killed, the processor always
\* has a process to run, and the case that idleProc would be resumed at a
\* stack pointer nobody prepared (kernel.c:101, proc.c:44) does not come.
THEOREM SomebodyRuns == ASSUME NEW p \in Lasting PROVE Spec => []Runs
<1>1. Init => Remains(p)
  BY InitRemains
<1>2. Inv /\ Remains(p) /\ [Next]_vars => Remains(p)'
  BY NextRemains
<1>3. Remains(p) => Runs
  BY DEF Remains
<1>4. QED
  BY <1>1, <1>2, <1>3, Invariance, PTL DEF Spec
=============================================================================
