----------------------------- MODULE Interrupts -----------------------------
(***************************************************************************)
(* The timer switches processes in the middle of the keyboard handler.     *)
(*                                                                         *)
(* The handler of int 9 (the BIOS of Bochs, rombios.c) runs on the stack   *)
(* of the process it interrupts, with interrupts on while it works on the  *)
(* key; its end of interrupt comes when that process gets the processor    *)
(* back.  timer_ISR (kernel.asm) sends one before it switches, and sleep   *)
(* reaches timer_ISR by an int instruction, without a request of the       *)
(* interrupt controller.  The controller is bx_pic_c (iodev/pic.cc): a     *)
(* request waits while one of the same or a higher priority is in service. *)
(*                                                                         *)
(* Whatever runs with interrupts off is one step.  Only the two lines in   *)
(* use are modelled, with none masked, and a tick is accepted before the   *)
(* timer takes it back half a period later.  At most 15 keys, what the     *)
(* BIOS keeps unread, are ever typed.                                      *)
(*                                                                         *)
(* When no process is ready, the processor resumes idleProc at a stack     *)
(* pointer nobody prepared (proc.c:44): nobody runs then, and what the     *)
(* machine does is not modelled.                                           *)
(***************************************************************************)
EXTENDS Integers, FiniteSets, Sequences, SequencesExt, FiniteSetsExt

CONSTANTS
  Proc,       \* processes
  Sleepers,   \* those whose programs sleep
  Enders,     \* those whose programs terminate
  Victims,    \* those that other processes kill
  MaxKeys,    \* keys that are typed
  KeyboardSize,   \* keys the keyboard keeps, 16 in keyboard.h:30
  None

ASSUME BoundAssumption == MaxKeys \in 1 .. 15

Timer == 0
Keyboard == 1
Lines == {Timer, Keyboard}
Keys == 1 .. MaxKeys

ASSUME ProcAssumption ==
  /\ IsFiniteSet(Proc) /\ Proc # {}
  /\ Sleepers \subseteq Proc /\ Enders \subseteq Proc /\ Victims \subseteq Proc
  /\ None \notin Lines \cup Keys \cup Proc

VARIABLES
  irr, isr,    \* lines requested and lines in service
  signal,      \* the line the controller has signalled to the processor
  typed,       \* how many keys were typed
  inKeyboard,  \* keys still in the keyboard
  port,        \* the key at port 0x60
  enabled,     \* the keyboard may send
  ring,        \* the keys of the BIOS that no program has read
  delivered,   \* history: the keys programs have read
  handler,     \* for each process the int 9 handlers on its stack
  phase,       \* what each process is doing when it is not in int 9
  queue, asleep, running   \* the scheduler; None: nobody runs

pic == <<irr, isr, signal>>
keyb == <<typed, inKeyboard, port, enabled>>
bios == <<ring, delivered, handler>>
sched == <<phase, queue, asleep, running>>
vars == <<pic, keyb, bios, sched>>

Init ==
  /\ irr = {} /\ isr = {} /\ signal = None
  /\ typed = 0 /\ inKeyboard = <<>> /\ port = None /\ enabled = TRUE
  /\ ring = <<>> /\ delivered = <<>>
  /\ handler = [p \in Proc |-> <<>>]
  /\ phase = [p \in Proc |-> "program"]
  /\ \E all \in SetToSeqs(Proc) : running = Head(all) /\ queue = Tail(all)
  /\ asleep = {}

-----------------------------------------------------------------------------
(* The interrupt controller.                                               *)

\* The line to signal next; one that is signalled stays.
Service(requested, inService, now) ==
  IF now # None THEN now
  ELSE IF requested # {} /\ \A line \in inService : Min(requested) < line
    THEN Min(requested)
    ELSE None

\* Faulty: an end of interrupt that changes nothing.
EoiIgnored(inService) == inService

\* A non-specific end of interrupt: the highest priority is served.
Eoi(inService) ==
  IF inService = {} THEN {} ELSE inService \ {Min(inService)}

Raise(line) ==
  /\ irr' = irr \cup {line}
  /\ signal' = Service(irr', isr, signal)
  /\ UNCHANGED isr

\* When the processor takes the signalled line, it is in service ...
Acknowledged == isr \cup {signal}

\* Faulty: the request stays.
NotTaken(line) == irr

\* ... and no longer requested.
Taken(line) == irr \ {line}

-----------------------------------------------------------------------------
(* The scheduler, which also wakes sleepers.                               *)

\* Neither a sleeper nor a process that has terminated is queued again.
Stays == running \notin asleep /\ phase[running] # "dead"

\* handleTimerInterrupt: who is due wakes, and the running process goes to the
\* end of the queue.  A sleep lasts two ticks at least, so the process on the
\* processor does not wake at this one.
Switch ==
  \E woken \in SetToAllKPermutations(asleep \ {running}) :
    LET all == queue \o woken \o (IF Stays THEN <<running>> ELSE <<>>)
    IN  /\ asleep' = asleep \ Range(woken)
        /\ queue' = IF all = <<>> THEN <<>> ELSE Tail(all)
        /\ running' = IF all = <<>> THEN None ELSE Head(all)

Runs == running # None

\* On the processor and not in int 9.
InProgram == Runs /\ handler[running] = <<>>

InHandler == Runs /\ handler[running] # <<>>

Does(what) == InProgram /\ phase[running] = what

-----------------------------------------------------------------------------
(* The devices.                                                            *)

Tick ==
  /\ Raise(Timer)
  /\ UNCHANGED <<keyb, bios, sched>>

\* A key finds room in the keyboard; without it nothing changes.
Press ==
  /\ typed < MaxKeys /\ Len(inKeyboard) < KeyboardSize
  /\ typed' = typed + 1
  /\ inKeyboard' = Append(inKeyboard, typed')
  /\ UNCHANGED <<pic, port, enabled, bios, sched>>

\* The keyboard sends a key when it may and the last one was read.
SendKey ==
  /\ enabled /\ port = None /\ inKeyboard # <<>>
  /\ port' = Head(inKeyboard)
  /\ inKeyboard' = Tail(inKeyboard)
  /\ Raise(Keyboard)
  /\ UNCHANGED <<typed, enabled, bios, sched>>

-----------------------------------------------------------------------------
(* The handlers.                                                           *)

\* timer_ISR ends the service of its own line and switches.
TakeTick ==
  /\ Runs /\ signal = Timer
  /\ irr' = Taken(Timer)
  /\ isr' = Eoi(Acknowledged)
  /\ signal' = Service(irr', isr', None)
  /\ Switch
  /\ UNCHANGED <<keyb, bios, phase>>

\* Faulty: the keyboard may send all the while.
LeftOn == TRUE

TurnedOff == FALSE

\* int09_handler turns the keyboard off, reads the key, which takes the
\* request back, and turns interrupts on.
TakeKey ==
  /\ Runs /\ signal = Keyboard
  /\ isr' = Acknowledged
  /\ irr' = Taken(Keyboard)
  /\ signal' = Service(irr', isr', None)
  /\ enabled' = TurnedOff
  /\ handler' = [handler EXCEPT ![running] = <<[key |-> port, stored |-> FALSE]>> \o @]
  /\ port' = None
  /\ UNCHANGED <<typed, inKeyboard, ring, delivered, sched>>

\* It puts the key into the ring ...
StoreKey ==
  /\ InHandler /\ ~handler[running][1].stored
  /\ ring' = Append(ring, handler[running][1].key)
  /\ handler' = [handler EXCEPT ![running][1].stored = TRUE]
  /\ UNCHANGED <<pic, keyb, delivered, sched>>

\* ... and ends its service, with interrupts off again.
EndKey ==
  /\ InHandler /\ handler[running][1].stored
  /\ isr' = Eoi(isr)
  /\ signal' = Service(irr, isr', signal)
  /\ enabled' = TRUE
  /\ handler' = [handler EXCEPT ![running] = Tail(@)]
  /\ UNCHANGED <<irr, typed, inKeyboard, port, ring, delivered, sched>>

-----------------------------------------------------------------------------
(* The programs.                                                           *)

ReadKey ==
  /\ Does("program") /\ ring # <<>>
  /\ delivered' = Append(delivered, Head(ring))
  /\ ring' = Tail(ring)
  /\ UNCHANGED <<pic, keyb, handler, sched>>

\* sleep marks the process, with interrupts on ...
FallAsleep ==
  /\ running \in Sleepers /\ Does("program")
  /\ asleep' = asleep \cup {running}
  /\ phase' = [phase EXCEPT ![running] = "falling"]
  /\ UNCHANGED <<pic, keyb, bios, queue, running>>

\* ... and executes int 8: timer_ISR ends a service though none of its own
\* began.  A tick may have come before, and the process have woken since.
RaiseTick ==
  /\ Does("falling")
  /\ isr' = Eoi(isr)
  /\ signal' = Service(irr, isr', signal)
  /\ Switch
  /\ phase' = [phase EXCEPT ![running] = "program"]
  /\ UNCHANGED <<irr, keyb, bios>>

\* terminate: the process spins until a tick, and takes interrupts.
Terminate ==
  /\ running \in Enders /\ Does("program")
  /\ phase' = [phase EXCEPT ![running] = "dead"]
  /\ UNCHANGED <<pic, keyb, bios, queue, asleep, running>>

\* A process kills another one, which may be in the middle of int 9.
Kill(p) ==
  /\ Does("program") /\ p # running
  /\ \/ p \in asleep /\ UNCHANGED queue
     \/ \E k \in DOMAIN queue : queue[k] = p /\ queue' = RemoveAt(queue, k)
  /\ asleep' = asleep \ {p}
  /\ UNCHANGED <<pic, keyb, bios, phase, running>>

Next ==
  \/ Tick \/ Press \/ SendKey
  \/ TakeTick \/ TakeKey \/ StoreKey \/ EndKey
  \/ ReadKey \/ FallAsleep \/ RaiseTick \/ Terminate
  \/ \E p \in Victims : Kill(p)

Spec == Init /\ [][Next]_vars

Wakes(p) == TakeTick /\ p \in asleep /\ p \notin asleep'

\* The timer goes on; the processor takes what is signalled; a process that
\* gets the processor again and again gets on with the handler on its stack;
\* ticks wake every sleeper at last (SleeperWakes of Kernel).
Fairness ==
  /\ WF_vars(Tick) /\ WF_vars(SendKey)
  /\ WF_vars(TakeTick) /\ WF_vars(TakeKey)
  /\ SF_vars(StoreKey) /\ SF_vars(EndKey)
  /\ \A p \in Sleepers : SF_vars(Wakes(p))

FairSpec == Spec /\ Fairness

-----------------------------------------------------------------------------
Handler == [key : Keys, stored : BOOLEAN]

TypeOK ==
  /\ irr \subseteq Lines /\ isr \subseteq Lines /\ signal \in Lines \cup {None}
  /\ typed \in 0 .. MaxKeys /\ port \in Keys \cup {None} /\ enabled \in BOOLEAN
  /\ inKeyboard \in Seq(Keys) /\ ring \in Seq(Keys) /\ delivered \in Seq(Keys)
  /\ handler \in [Proc -> Seq(Handler)]
  /\ phase \in [Proc -> {"program", "falling", "dead"}]
  /\ queue \in Seq(Proc) /\ asleep \subseteq Proc /\ running \in Proc \cup {None}

\* The process that is in int 9, when there is one only.
HandledBy(p) ==
  Len(handler[p]) = 1 /\ \A other \in Proc \ {p} : handler[other] = <<>>

\* Never two handlers of int 9, though sleep ends the service of a key that
\* another process has in hand: the keyboard stays off until that process
\* comes back (rombios.c:10972-11029, kernel.asm:161-163).
OneKeyHandler ==
  IF enabled THEN \A p \in Proc : handler[p] = <<>>
             ELSE \E p \in Proc : HandledBy(p)

Holders == {p \in Proc : handler[p] # <<>> /\ ~handler[p][1].stored}

KeyInHand ==
  IF Holders = {} THEN <<>>
                  ELSE LET p == CHOOSE p \in Holders : TRUE
                       IN  <<handler[p][1].key>>

KeyAtPort == IF port = None THEN <<>> ELSE <<port>>

\* Every key is in one place, and in the order they were typed
\* (rombios.c:10984-11029, keyboard.cc:436-460, 1266-1280).
KeysInOrder ==
  delivered \o ring \o KeyInHand \o KeyAtPort \o inKeyboard
  = [k \in 1 .. typed |-> k]

\* The process that has a key in hand will not run again: it was killed, or it
\* had terminated and took the key while it waited for the tick (kernel.c:251,
\* 308-327).  int 9 is never ended, and the keyboard never turned on again.
KeyboardLost ==
  \E p \in Proc : /\ handler[p] # <<>>
                  /\ p \notin Range(queue) \cup asleep \cup {running}

\* A key that is typed reaches the programs, whichever process has it in hand
\* when the timer switches, a sleeper included (kernel.asm:145-222,
\* kernel.c:63-110), unless that process does not run again.
KeysArrive ==
  \A k \in Keys :
    typed >= k ~> k \in Range(ring) \cup Range(delivered) \/ KeyboardLost

\* No kill and no terminate costs the system its keyboard (kernel.c:251,
\* 308-327).
KeyboardWorks == ~KeyboardLost
=============================================================================
