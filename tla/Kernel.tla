------------------------------- MODULE Kernel -------------------------------
(***************************************************************************)
(* The multitasking kernel of project6: the process calls of kernel.c, the *)
(* process structures of proc.c and the context switch of kernel.asm.      *)
(*                                                                         *)
(* One processor runs one thread of control at a time, whose registers are *)
(* the variable cpu; the threads that wait lie as saved frames on their    *)
(* stacks.  A step is a call to a function of proc.c or kernel.asm, or the *)
(* accesses between two such calls.  The service routine of interrupt 0x21 *)
(* enables interrupts before it calls the kernel (kernel.asm:83), so the   *)
(* timer may strike between any two steps of a call; Windows is the set of *)
(* steps before which an instance lets it.  Between calls, and while a     *)
(* terminated process spins, the timer may strike in every instance.       *)
(*                                                                         *)
(* What the programs do besides calling the kernel is not modelled: at     *)
(* "user" the program in the current segment may make any of its Calls,    *)
(* and the timer may strike.  A program starts with interrupts off         *)
(* (kernel.asm:247); it turns them on itself (enableInterrupts, lib.asm)   *)
(* or has them on while it prints or reads through interrupt 0x21, which   *)
(* changes nothing modelled here and belongs to "user".                    *)
(***************************************************************************)
EXTENDS ProcQueue, FiniteSets, FiniteSetsExt

CONSTANTS
  Idle,             \* idleProc
  Segs,             \* the entries of memoryMap the instance leaves free
  Files,            \* the programs on the disk
  Names,            \* the names a program may ask executeProgram for
  Calls,            \* the kernel calls each program on the disk makes
  SleepArgs,        \* the seconds a program may ask sleep for
  KillArgs,         \* the segment indexes a program may give to kill
  TicksPerSecond,   \* 125 in kernel.c:64
  Windows           \* the steps before which the timer may strike in a call

NPcb == Cardinality(Pcb)

CallNames == {"execute", "terminate", "yield", "kill", "sleep"}

ASSUME PcbAssumption == IsFiniteSet(Pcb) /\ Pcb = 0 .. NPcb - 1
ASSUME IdleIsNoPcb == Idle \notin PcbPtr
ASSUME SegsAssumption == Segs \subseteq 0 .. 7
ASSUME CallsAssumption == Calls \in [Files -> SUBSET CallNames]

VARIABLES
  state, name, segment, sleepCounter,   \* the fields of the PCBs
  q,            \* readyHead, readyTail and the links of the PCBs
  memoryMap,    \* "FREE" or "USED" for every segment index
  running,      \* the current PCB
  image,        \* the program loaded in each segment
  cpu,          \* the thread on the processor
  saved,        \* the frame each PCB's stack pointer leads to
  timerOn,      \* makeTimerInterrupt has installed the handler
  irq,          \* Off, or how far handleTimerInterrupt has come
  wild,         \* a NULL pointer was followed or memory outside memoryMap hit
  owed          \* history: the ticks a sleeper has been promised still

vars == <<state, name, segment, sleepCounter, q, memoryMap, running, image,
          cpu, saved, timerOn, irq, wild, owed>>

pcbVars == <<state, name, segment, sleepCounter>>
swapVars == <<saved, timerOn, irq>>

-----------------------------------------------------------------------------
(* Numbers: int is 16 bits wide and division rounds towards zero.          *)

ToInt16(n) == ((n + 32768) % 65536) - 32768

Quotient(n, m) == IF n >= 0 THEN n \div m ELSE -((-n) \div m)

SegmentOf(i) == ToInt16(4096 * (i + 2))

\* Faulty: the segment is taken for the index.
IndexOfUnscaled(s) == s - 2

IndexOf(s) == Quotient(s, 4096) - 2

KernelSegment == 4096

-----------------------------------------------------------------------------
(* Threads.  A thread is the stack segment it runs on, the step it is at   *)
(* and the local variables that step needs.                                *)

Off == -1

\* Local variables that are not in use hold NULL.
Thread(ss, pc) ==
  [ss |-> ss, pc |-> pc, file |-> NULL, seg |-> NULL, proc |-> NULL,
   secs |-> NULL, ax |-> 0]

\* What runs when a frame is restored that nobody saved.
Garbage(ss) == Thread(ss, "garbage")

\* Back from a kernel call with result r: to the program, or to main.
Return(r) ==
  [Thread(cpu.ss, IF cpu.ss = KernelSegment THEN "installTimer" ELSE "user")
     EXCEPT !.ax = r]

\* The processor executes step l outside the timer handler.
At(l) == ~wild /\ irq = Off /\ cpu.pc = l

Goto(l) == cpu' = [cpu EXCEPT !.pc = l]

Lowest(S) == CHOOSE i \in S : \A j \in S : i <= j

-----------------------------------------------------------------------------
(* main and initializeProcStructures.                                      *)

Init ==
  /\ state = [p \in Pcb |-> "DEFUNCT"]
  /\ name = [p \in Pcb |-> NULL]
  /\ segment = [p \in Pcb |-> 0]
  /\ sleepCounter = [p \in Pcb |-> 0]
  /\ q = EmptyQueue
  /\ memoryMap = [i \in 0 .. 7 |-> IF i \in Segs THEN "FREE" ELSE "USED"]
  /\ running = Idle
  /\ image = [i \in Segs |-> NULL]
  /\ cpu = Thread(KernelSegment, "boot")
  /\ saved = [p \in Pcb \cup {Idle} |-> Garbage(0)]
  /\ timerOn = FALSE
  /\ irq = Off
  /\ wild = FALSE
  /\ owed = [p \in Pcb |-> 0]

\* main starts the shell from the kernel's own stack, with the timer off.
BootShell ==
  /\ At("boot")
  /\ IF "shell" \in Files
       THEN cpu' = [cpu EXCEPT !.pc = "findSegment", !.file = "shell"]
       ELSE cpu' = Return(-1)
  /\ UNCHANGED <<pcbVars, q, memoryMap, running, image, swapVars, wild, owed>>

\* main then installs the timer handler and loops forever.
MakeTimerInterrupt ==
  /\ At("installTimer")
  /\ timerOn' = TRUE
  /\ Goto("spin")
  /\ UNCHANGED <<pcbVars, q, memoryMap, running, image, saved, irq, wild, owed>>

-----------------------------------------------------------------------------
(* The calls of a program, from interrupt 0x21.                            *)

Invokes(call) ==
  /\ At("user")
  /\ \E i \in Segs : SegmentOf(i) = cpu.ss /\ call \in Calls[image[i]]

\* executeProgram, step by step.

ExecuteMissing ==
  /\ Invokes("execute")
  /\ Names \ Files # {}
  /\ cpu' = Return(-1)
  /\ UNCHANGED <<pcbVars, q, memoryMap, running, image, swapVars, wild, owed>>

ExecuteProgram(f) ==
  /\ Invokes("execute")
  /\ f \in Files
  /\ cpu' = [cpu EXCEPT !.pc = "findSegment", !.file = f, !.ax = 0]
  /\ UNCHANGED <<pcbVars, q, memoryMap, running, image, swapVars, wild, owed>>

\* Faulty: the search goes one entry too far.
FindSegmentBeyond ==
  /\ At("findSegment")
  /\ LET free == {i \in 0 .. 8 : i = 8 \/ memoryMap[i] = "FREE"}
     IN  cpu' = [cpu EXCEPT !.pc = "takeSegment", !.seg = Lowest(free)]
  /\ UNCHANGED <<pcbVars, q, memoryMap, running, image, swapVars, wild, owed>>

\* getFreeMemorySegment, the test ...
FindSegment ==
  /\ At("findSegment")
  /\ LET free == {i \in 0 .. 7 : memoryMap[i] = "FREE"}
     IN  IF free = {}
           THEN cpu' = Return(-2)
           ELSE cpu' = [cpu EXCEPT !.pc = "takeSegment", !.seg = Lowest(free)]
  /\ UNCHANGED <<pcbVars, q, memoryMap, running, image, swapVars, wild, owed>>

\* Faulty: the segment is not marked.
TakeSegmentUnmarked ==
  /\ At("takeSegment")
  /\ Goto("load")
  /\ UNCHANGED <<pcbVars, q, memoryMap, running, image, swapVars, wild, owed>>

\* ... and the mark.
TakeSegment ==
  /\ At("takeSegment")
  /\ memoryMap' = [memoryMap EXCEPT ![cpu.seg] = "USED"]
  /\ Goto("load")
  /\ UNCHANGED <<pcbVars, q, running, image, swapVars, wild, owed>>

LoadProgram ==
  /\ At("load")
  /\ image' = [image EXCEPT ![cpu.seg] = cpu.file]
  /\ Goto("findPcb")
  /\ UNCHANGED <<pcbVars, q, memoryMap, running, swapVars, wild, owed>>

\* getFreePCB, the test (without a free PCB the call fails and the segment
\* stays USED) ...
FindPcb ==
  /\ At("findPcb")
  /\ LET free == {p \in Pcb : state[p] = "DEFUNCT"}
     IN  IF free = {}
           THEN cpu' = Return(-2)
           ELSE cpu' = [cpu EXCEPT !.pc = "takePcb", !.proc = Lowest(free)]
  /\ UNCHANGED <<pcbVars, q, memoryMap, running, image, swapVars, wild, owed>>

\* ... and the mark.
TakePcb ==
  /\ At("takePcb")
  /\ state' = [state EXCEPT ![cpu.proc] = "STARTING"]
  /\ Goto("initPcb")
  /\ UNCHANGED <<name, segment, sleepCounter, q, memoryMap, running, image,
                 swapVars, wild, owed>>

\* The stack pointer is set to 0xFF00, where there is no frame yet.
InitPcb ==
  /\ At("initPcb")
  /\ name' = [name EXCEPT ![cpu.proc] = cpu.file]
  /\ state' = [state EXCEPT ![cpu.proc] = "STARTING"]
  /\ segment' = [segment EXCEPT ![cpu.proc] = SegmentOf(cpu.seg)]
  /\ saved' = [saved EXCEPT ![cpu.proc] = Garbage(SegmentOf(cpu.seg))]
  /\ Goto("publish")
  /\ UNCHANGED <<sleepCounter, q, memoryMap, running, image, timerOn, irq,
                 wild, owed>>

PublishPcb ==
  /\ At("publish")
  /\ q' = AddToReady(q, cpu.proc)
  /\ wild' = AddFaults(q)
  /\ Goto("initFrame")
  /\ UNCHANGED <<pcbVars, memoryMap, running, image, swapVars, owed>>

\* Faulty: the frame is forgotten.
InitializeProgramNoFrame ==
  /\ At("initFrame")
  /\ cpu' = Return(1)
  /\ UNCHANGED <<pcbVars, q, memoryMap, running, image, swapVars, wild, owed>>

\* initializeProgram builds the frame that starts the program.
InitializeProgram ==
  /\ At("initFrame")
  /\ saved' = [saved EXCEPT ![cpu.proc] = Thread(SegmentOf(cpu.seg), "user")]
  /\ cpu' = Return(1)
  /\ UNCHANGED <<pcbVars, q, memoryMap, running, image, timerOn, irq, wild,
                 owed>>

\* Faulty: nothing is released.
FreeSegmentNever(i) == UNCHANGED <<memoryMap, wild>>

\* releaseMemorySegment, which does not check the index.
FreeSegment(i) ==
  /\ memoryMap' = [j \in 0 .. 7 |-> IF j = i THEN "FREE" ELSE memoryMap[j]]
  /\ wild' = (i \notin 0 .. 7)

\* terminate gives the segment back, ...
Terminate ==
  /\ Invokes("terminate")
  /\ FreeSegment(IndexOf(segment[running]))
  /\ Goto("releasePcb")
  /\ UNCHANGED <<pcbVars, q, running, image, swapVars, owed>>

\* ... then the PCB, and loops until the timer takes the processor away.
ReleaseRunning ==
  /\ At("releasePcb")
  /\ state' = [state EXCEPT ![running] = "DEFUNCT"]
  /\ name' = [name EXCEPT ![running] = NULL]
  /\ q' = ReleaseLinks(q, running)
  /\ cpu' = Thread(cpu.ss, "spin")
  /\ UNCHANGED <<segment, sleepCounter, memoryMap, running, image, swapVars,
                 wild, owed>>

\* yield only queues the running process; it does not switch.
Yield ==
  /\ Invokes("yield")
  /\ q' = AddToReady(q, running)
  /\ wild' = AddFaults(q)
  /\ cpu' = Return(1)
  /\ UNCHANGED <<pcbVars, memoryMap, running, image, swapVars, owed>>

\* kill looks for the PCB by its segment, whatever the state of that PCB, and
\* gives the segment back ...
KillNone(i) ==
  /\ Invokes("kill")
  /\ \A p \in Pcb : segment[p] # SegmentOf(i)
  /\ cpu' = Return(-1)
  /\ UNCHANGED <<pcbVars, q, memoryMap, running, image, swapVars, wild, owed>>

Kill(i) ==
  /\ Invokes("kill")
  /\ LET hits == {p \in Pcb : segment[p] = SegmentOf(i)}
     IN  /\ hits # {}
         /\ cpu' = [cpu EXCEPT !.pc = "killPcb", !.proc = Lowest(hits), !.ax = 0]
  /\ FreeSegment(i)
  /\ UNCHANGED <<pcbVars, q, running, image, swapVars, owed>>

\* ... then the PCB.
KillPcb ==
  /\ At("killPcb")
  /\ state' = [state EXCEPT ![cpu.proc] = "DEFUNCT"]
  /\ name' = [name EXCEPT ![cpu.proc] = NULL]
  /\ q' = ReleaseLinks(q, cpu.proc)
  /\ cpu' = Return(1)
  /\ UNCHANGED <<segment, sleepCounter, memoryMap, running, image, swapVars,
                 wild, owed>>

\* sleep marks the process, ...
Sleep(n) ==
  /\ Invokes("sleep")
  /\ state' = [state EXCEPT ![running] = "SLEEPING"]
  /\ owed' = [owed EXCEPT ![running] = n * TicksPerSecond]
  /\ cpu' = [cpu EXCEPT !.pc = "setCounter", !.secs = n, !.ax = 0]
  /\ UNCHANGED <<name, segment, sleepCounter, q, memoryMap, running, image,
                 swapVars, wild>>

\* ... sets its counter ...
SetCounter ==
  /\ At("setCounter")
  /\ sleepCounter' =
       [sleepCounter EXCEPT ![running] = ToInt16(cpu.secs * TicksPerSecond)]
  /\ Goto("int8")
  /\ UNCHANGED <<state, name, segment, q, memoryMap, running, image, swapVars,
                 wild, owed>>

\* ... and raises the timer interrupt itself.
RaiseTimer ==
  /\ At("int8")
  /\ irq' = 0
  /\ cpu' = Return(1)
  /\ UNCHANGED <<pcbVars, q, memoryMap, running, image, saved, timerOn, wild,
                 owed>>

-----------------------------------------------------------------------------
(* The timer.                                                              *)

TimerInterrupt ==
  /\ ~wild /\ irq = Off /\ timerOn
  /\ cpu.pc \in {"user", "spin"} \cup Windows
  /\ irq' = 0
  /\ UNCHANGED <<pcbVars, q, memoryMap, running, image, cpu, saved, timerOn,
                 wild, owed>>

\* The loop of handleTimerInterrupt over the PCBs, with interrupts off.

InLoop == ~wild /\ irq \in Pcb

\* Faulty: the counter never runs down.
OneTickLessNever(p) == sleepCounter[p]

OneTickLess(p) == ToInt16(sleepCounter[p] - 1)

SkipPcb ==
  /\ InLoop
  /\ state[irq] # "SLEEPING"
  /\ irq' = irq + 1
  /\ UNCHANGED <<pcbVars, q, memoryMap, running, image, cpu, saved, timerOn,
                 wild, owed>>

CountDown ==
  /\ InLoop
  /\ state[irq] = "SLEEPING"
  /\ sleepCounter' = [sleepCounter EXCEPT ![irq] = OneTickLess(irq)]
  /\ owed' = [owed EXCEPT ![irq] = IF @ > 0 THEN @ - 1 ELSE 0]
  /\ IF OneTickLess(irq) <= 0
       THEN /\ state' = [state EXCEPT ![irq] = "READY"]
            /\ q' = AddToReady(q, irq)
            /\ wild' = AddFaults(q)
       ELSE UNCHANGED <<state, q, wild>>
  /\ irq' = irq + 1
  /\ UNCHANGED <<name, segment, memoryMap, running, image, cpu, saved, timerOn>>

\* The rest of handleTimerInterrupt and returnFromTimer: the interrupted
\* thread is saved, its process queued unless it is the idle process, or
\* named like it, or sleeps, or is gone, and the head of the queue runs.

\* Faulty: the comparison with the name of the idle process is inverted.
KeepsRunningInverted ==
  /\ running = Idle \/ name[running] = "IDLE"
  /\ running # Idle => state[running] \notin {"DEFUNCT", "SLEEPING"}

\* Faulty: the dead are queued again.
KeepsRunningDead ==
  /\ running # Idle
  /\ name[running] # "IDLE"
  /\ state[running] # "SLEEPING"

\* Faulty: sleepers are queued again.
KeepsRunningAsleep ==
  /\ running # Idle
  /\ name[running] # "IDLE"
  /\ state[running] # "DEFUNCT"

KeepsRunning ==
  /\ running # Idle
  /\ name[running] # "IDLE"
  /\ state[running] \notin {"DEFUNCT", "SLEEPING"}

StackSegment(p) == IF p = Idle THEN 0 ELSE segment[p]

\* What is on the stack of p: the frame saved last, if it was saved there.
Restored(frames, p) ==
  IF frames[p].ss = StackSegment(p) THEN frames[p]
                                    ELSE Garbage(StackSegment(p))

SwitchProcess ==
  /\ ~wild /\ irq = NPcb
  /\ LET q1 == IF KeepsRunning THEN AddToReady(q, running) ELSE q
         p == RemovedFromReady(q1)
         next == IF p = NULL THEN Idle ELSE p
         frames == [saved EXCEPT ![running] = cpu]
     IN  /\ q' = RemoveFromReady(q1)
         /\ wild' = ((KeepsRunning /\ AddFaults(q)) \/ RemoveFaults(q1))
         /\ running' = next
         /\ state' = [r \in Pcb |-> IF r = p THEN "RUNNING"
                                    ELSE IF r = running /\ KeepsRunning
                                    THEN "READY" ELSE state[r]]
         /\ saved' = frames
         /\ cpu' = Restored(frames, next)
  /\ irq' = Off
  /\ UNCHANGED <<name, segment, sleepCounter, memoryMap, image, timerOn, owed>>

-----------------------------------------------------------------------------
Invoke ==
  \/ ExecuteMissing
  \/ \E f \in Names : ExecuteProgram(f)
  \/ Terminate
  \/ Yield
  \/ \E i \in KillArgs : KillNone(i) \/ Kill(i)
  \/ \E n \in SleepArgs : Sleep(n)

Execute == FindSegment \/ TakeSegment \/ LoadProgram \/ FindPcb \/ TakePcb
           \/ InitPcb \/ PublishPcb \/ InitializeProgram

\* The processor goes on with the thread it executes.
Proceed ==
  \/ BootShell
  \/ MakeTimerInterrupt
  \/ Execute
  \/ ReleaseRunning
  \/ KillPcb
  \/ SetCounter
  \/ RaiseTimer

HandleTimer == SkipPcb \/ CountDown \/ SwitchProcess

Next == Invoke \/ Proceed \/ TimerInterrupt \/ HandleTimer

Spec == Init /\ [][Next]_vars

\* The processor never stops in the kernel.  The timer strikes for ever, and
\* a tick that falls into a step with interrupts off stays pending in the
\* interrupt controller until they are on again: strong fairness.  Nothing
\* makes a program call the kernel.
FairSpec ==
  /\ Spec
  /\ WF_vars(Proceed)
  /\ WF_vars(HandleTimer)
  /\ SF_vars(TimerInterrupt)
=============================================================================
