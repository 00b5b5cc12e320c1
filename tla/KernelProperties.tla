-------------------------- MODULE KernelProperties --------------------------
(***************************************************************************)
(* What must hold of Kernel.                                               *)
(***************************************************************************)
EXTENDS Kernel

-----------------------------------------------------------------------------
(* Views of the state.                                                     *)

Queued(p) == \E k \in DOMAIN Contents(q) : Contents(q)[k] = p

\* A PCB executeProgram has taken but not queued yet is STARTING outside the
\* queue: the process does not exist yet.
Exists(p) == state[p] # "DEFUNCT" /\ (state[p] = "STARTING" => Queued(p))

\* The threads there are: the one on the processor and those that will get
\* it again.
Threads == {cpu} \cup {saved[p] : p \in {r \in Pcb : Exists(r) /\ r # running}}

\* The loads under way in segment i, of which the process does not exist yet.
Loaders(i) == {t \in Threads :
                 /\ t.pc \in {"load", "findPcb", "takePcb", "initPcb", "publish"}
                 /\ t.seg = i}

Residents(i) == {p \in Pcb : Exists(p) /\ segment[p] = SegmentOf(i)}

\* The thread of process p.
ThreadOf(p) == IF p = running THEN cpu ELSE saved[p]

\* Processes half way through terminate or kill, their segment given back.
Leaving(p) == ThreadOf(p).pc = "releasePcb"
              \/ \E t \in Threads : t.pc = "killPcb" /\ t.proc = p

-----------------------------------------------------------------------------
(* Invariants.                                                             *)

MaxInt == 32767

Int16 == -MaxInt - 1 .. MaxInt

ThreadType ==
  [ss : Int, pc : {"boot", "installTimer", "spin", "user", "garbage",
                   "findSegment", "takeSegment", "load", "findPcb", "takePcb",
                   "initPcb", "publish", "initFrame", "releasePcb", "killPcb",
                   "setCounter", "int8"},
   file : Files \cup {NULL}, seg : 0 .. 7 \cup {NULL}, proc : PcbPtr,
   secs : SleepArgs \cup {NULL}, ax : {-2, -1, 0, 1}]

TypeOK ==
  /\ state \in [Pcb -> {"DEFUNCT", "RUNNING", "READY", "STARTING", "SLEEPING"}]
  /\ name \in [Pcb -> Files \cup {NULL}]
  /\ segment \in [Pcb -> Int16]
  /\ sleepCounter \in [Pcb -> Int16]
  /\ q \in Queue
  /\ memoryMap \in [0 .. 7 -> {"FREE", "USED"}]
  /\ running \in Pcb \cup {Idle}
  /\ image \in [Segs -> Files \cup {NULL}]
  /\ DOMAIN saved = Pcb \cup {Idle}
  /\ cpu.pc # "garbage" => cpu \in ThreadType
  /\ timerOn \in BOOLEAN
  /\ irq \in {Off} \cup 0 .. NPcb
  /\ wild \in BOOLEAN
  /\ owed \in [Pcb -> Nat]

\* The links hold a list without repetition, and the processes on it are
\* exactly those that wait for the processor: none is lost, none is queued
\* twice, none that is dead or asleep is queued (kernel.c:78-104, proc.c).
QueueExact ==
  ~wild => /\ Represents(q, Contents(q))
           /\ NoDuplicates(Contents(q))
           /\ \A p \in Pcb : state[p] = "READY" => Queued(p)
           /\ \A p \in Pcb : Queued(p) => state[p] \in {"READY", "STARTING"}

\* The process on the processor is the only RUNNING one (kernel.c:99-107).
OneRunning ==
  /\ \A p \in Pcb : state[p] = "RUNNING" => p = running
  /\ running \in Pcb => state[running] \in {"RUNNING", "SLEEPING", "DEFUNCT"}
                        \/ irq # Off

\* No segment is given to two processes, nor to a process and a load under
\* way (kernel.c:190-205, 242-248).
SegmentExclusive ==
  \A i \in Segs : Cardinality(Residents(i)) + Cardinality(Loaders(i)) <= 1

\* The memory map is exact: USED where a process lives or is being loaded,
\* FREE elsewhere, so that no segment leaks (proc.c:58-76, kernel.c:213-216).
MemoryAccounted ==
  \A i \in Segs :
    memoryMap[i] = "USED" <=>
      Loaders(i) # {} \/ \E p \in Residents(i) : ~Leaving(p)

\* No NULL pointer is followed and no entry outside memoryMap is written.
NoWildAccess == ~wild

\* The context switch resumes only what was saved or prepared by
\* initializeProgram (kernel.asm:187-265, kernel.c:100-108).
FrameValid == cpu.pc # "garbage"

\* The kernel does nothing that the code leaves undefined: neither of both.
WellDefined == NoWildAccess /\ FrameValid

\* A process that waits for the processor can be reached from readyHead: a
\* sleeper that wakes is returned to the queue and stays there
\* (kernel.c:61-62, 78-86).
ReadyIsQueued ==
  ~wild /\ irq = Off => \A p \in Pcb : state[p] = "READY" => Queued(p)

-----------------------------------------------------------------------------
(* Steps.                                                                  *)

\* The dead stay dead: a DEFUNCT PCB comes back only as a new process
\* (kernel.c:303-305, proc.c:83-93).
DeadStayDead ==
  [][\A p \in Pcb : state[p] = "DEFUNCT" /\ state'[p] # "DEFUNCT"
       => state'[p] = "STARTING"]_vars

\* A sleeper stays off the processor for as many ticks as it asked for, and
\* not one longer (kernel.c:61-70, 78-86).
SleepLasts ==
  [][\A p \in Pcb : state[p] = "SLEEPING" /\ state'[p] # "SLEEPING"
       => owed[p] = 1 /\ owed'[p] = 0]_vars

-----------------------------------------------------------------------------
(* Liveness.                                                               *)

\* Round robin starves nobody: whoever waits for the processor gets it.
ReadyRuns == \A p \in Pcb : state[p] = "READY" ~> state[p] = "RUNNING"

\* Every sleep ends.
SleeperWakes == \A p \in Pcb : state[p] = "SLEEPING" ~> state[p] = "READY"

-----------------------------------------------------------------------------
(* The kernel implements the scheduler it promises.                        *)

S == INSTANCE Scheduler WITH
       Seg <- {SegmentOf(i) : i \in Segs},
       NoSeg <- 0,
       state <- [p \in Pcb |-> IF Exists(p) THEN state[p] ELSE "DEFUNCT"],
       home <- [p \in Pcb |-> IF Exists(p) THEN segment[p] ELSE 0],
       ready <- Contents(q)

ImplementsScheduler == S!Spec
=============================================================================
