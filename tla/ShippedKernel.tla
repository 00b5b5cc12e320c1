--------------------------- MODULE ShippedKernel ---------------------------
(***************************************************************************)
(* The kernel with programs like those of project6, and the invariant that *)
(* holds of it for any number of processes, segments, programs and names.  *)
(*                                                                         *)
(* The assumptions say what the programs and the machine must be like: a   *)
(* shell that starts others and never leaves; others that sleep and        *)
(* terminate; segments whose numbers are positive, and no more of them     *)
(* than PCBs; and a timer that may strike before any step of a call except *)
(* three, which are steps that the code must not be interrupted at.  What  *)
(* happens outside each of them is a run of Kernel of its own.             *)
(***************************************************************************)
EXTENDS KernelProperties

LoadSteps == {"findSegment", "takeSegment", "load", "findPcb", "takePcb",
              "initPcb", "publish", "initFrame"}

ASSUME SegmentsAssumption ==
  Segs # {} /\ Segs \subseteq 0 .. 5 /\ Cardinality(Segs) <= NPcb

ASSUME ProgramsAssumption ==
  /\ "shell" \in Files /\ "shell" \notin Names
  /\ Calls["shell"] \subseteq {"execute"}
  /\ \A f \in Files \cap Names : Calls[f] \subseteq {"sleep", "terminate"}

\* No program is named like the idle process or by the null pointer.
ASSUME FilesAssumption == "IDLE" \notin Files /\ NULL \notin Files

\* Every sleep lasts at least two ticks and fits a counter.
ASSUME SleepAssumption ==
  /\ TicksPerSecond \in Nat /\ SleepArgs \subseteq Nat
  /\ \A n \in SleepArgs : 2 <= n * TicksPerSecond /\ n * TicksPerSecond <= 32767

ASSUME WindowsAssumption ==
  Windows \subseteq (LoadSteps \ {"initFrame"}) \cup {"int8"}

-----------------------------------------------------------------------------
(* The shell is the process of the first PCB.  Nobody else loads programs  *)
(* but main, which loads the shell.                                        *)

Shell == 0

Loader == IF running = Idle THEN cpu ELSE ThreadOf(Shell)

Loading == {"load", "findPcb", "takePcb", "initPcb", "publish"}

\* main has not queued the shell yet.
Booting ==
  running = Idle /\ cpu.pc \in {"boot"} \cup (LoadSteps \ {"initFrame"})

\* The process p is between the two halves of terminate.
Ending(p) == p = running /\ cpu.pc = "releasePcb"

Programs(p) == IF p = Shell THEN {"shell"} ELSE Files \cap Names

-----------------------------------------------------------------------------
(* The parts of the invariant.                                             *)

Typed ==
  /\ TypeOK
  /\ cpu \in ThreadType
  /\ saved \in [Pcb \cup {Idle} -> ThreadType]
  /\ ~wild

\* Where the thread on the processor can be, by who runs and in which state.
ProcessorExact ==
  /\ \A p \in Pcb : state[p] = "RUNNING" => p = running
  /\ running = Idle =>
       /\ cpu.ss = KernelSegment
       /\ cpu.pc \in {"boot", "installTimer", "spin"} \cup LoadSteps
       /\ timerOn => cpu.pc = "spin"
       /\ irq # Off => timerOn
  /\ running \in Pcb =>
       /\ cpu.ss = segment[running]
       /\ \/ /\ running = Shell
             /\ state[running] = "RUNNING"
             /\ cpu.pc \in {"user"} \cup LoadSteps
          \/ /\ running # Shell
             /\ state[running] = "RUNNING"
             /\ cpu.pc \in {"user", "releasePcb", "int8"}
          \/ /\ running # Shell
             /\ state[running] = "SLEEPING"
             /\ \/ cpu.pc = "setCounter"
                     /\ owed[running] = cpu.secs * TicksPerSecond
                     /\ cpu.secs \in SleepArgs
                \/ cpu.pc = "int8"
                \/ cpu.pc = "user" /\ irq # Off
          \/ /\ running # Shell
             /\ state[running] = "DEFUNCT"
             /\ cpu.pc = "spin"
  /\ irq # Off => cpu.pc \in {"user", "spin"} \cup Windows

\* The shell always exists once it is queued, and is queued when it does not
\* run; so the idle process never gets the processor back.
ShellExact ==
  IF Booting
    THEN /\ Contents(q) = <<>>
         /\ \A p \in Pcb : state[p] = IF p = Shell /\ cpu.pc \in {"initPcb", "publish"}
                                      THEN "STARTING" ELSE "DEFUNCT"
    ELSE /\ state[Shell] \in {"STARTING", "READY", "RUNNING"}
         /\ running # Shell => Queued(Shell)

\* What the load under way has found, taken and filled in so far.
LoaderExact ==
  /\ Loader.pc \in LoadSteps =>
       Loader.file \in IF running = Idle THEN {"shell"} ELSE Files \cap Names
  /\ Loader.pc \in LoadSteps \ {"findSegment"} => Loader.seg \in Segs
  /\ Loader.pc = "takeSegment" => memoryMap[Loader.seg] = "FREE"
  /\ Loader.pc \in Loading =>
       /\ memoryMap[Loader.seg] = "USED"
       /\ \A p \in Pcb : Exists(p) => segment[p] # SegmentOf(Loader.seg)
  /\ Loader.pc \in {"findPcb", "takePcb", "initPcb", "publish", "initFrame"} =>
       image[Loader.seg] = Loader.file
  /\ Loader.pc \in {"takePcb", "initPcb", "publish", "initFrame"} =>
       /\ Loader.proc \in Pcb /\ Loader.proc # running
       /\ Loader.proc = Shell <=> running = Idle
  /\ Loader.pc = "takePcb" => state[Loader.proc] = "DEFUNCT"
  /\ Loader.pc \in {"initPcb", "publish"} =>
       state[Loader.proc] = "STARTING" /\ ~Queued(Loader.proc)
  /\ Loader.pc \in {"publish", "initFrame"} =>
       /\ name[Loader.proc] = Loader.file
       /\ segment[Loader.proc] = SegmentOf(Loader.seg)
       /\ saved[Loader.proc].pc = "garbage"
  /\ Loader.pc = "initFrame" =>
       /\ state[Loader.proc] = "STARTING" /\ Queued(Loader.proc)
  /\ \A p \in Pcb : state[p] = "STARTING" /\ ~Queued(p) =>
       p = Loader.proc /\ Loader.pc \in {"initPcb", "publish"}

\* Every process has a segment of its own that holds its program.
ResidentsExact ==
  /\ \A p \in Pcb : Exists(p) =>
       /\ name[p] \in Programs(p)
       /\ \E i \in Segs : /\ segment[p] = SegmentOf(i)
                          /\ image[i] = name[p]
                          /\ memoryMap[i] = IF Ending(p) THEN "FREE" ELSE "USED"
  /\ \A p, r \in Pcb : Exists(p) /\ Exists(r) /\ segment[p] = segment[r] => p = r

\* A segment that is USED is the loader's or a process's; those the machine
\* does not have stay USED.
MemoryExact ==
  /\ \A i \in Segs : memoryMap[i] = "USED" =>
       \/ Loader.pc \in Loading /\ Loader.seg = i
       \/ \E p \in Pcb : Exists(p) /\ segment[p] = SegmentOf(i) /\ ~Ending(p)
  /\ \A i \in (0 .. 7) \ Segs : memoryMap[i] = "USED"

\* Every process off the processor has a frame on its own stack to go on with,
\* but for the one whose frame is just being built; the shell is not loading
\* before it has run.
FramesExact ==
  \A p \in Pcb : Exists(p) /\ p # running
                 /\ ~(cpu.pc = "initFrame" /\ p = cpu.proc) =>
    /\ saved[p].ss = segment[p]
    /\ saved[p].pc \in IF p # Shell THEN {"user", "int8"}
                       ELSE IF running = Idle THEN {"user"}
                       ELSE {"user"} \cup (LoadSteps \ {"initFrame"})

\* The list is a list of the waiting processes, and the stale link of the
\* process on the processor leads to its head.
ListExact ==
  /\ Contents(q) \in Seq(Pcb)
  /\ Represents(q, Contents(q))
  /\ NoDuplicates(Contents(q))
  /\ \A p \in Pcb : state[p] = "READY" => Queued(p)
  /\ \A p \in Pcb : Queued(p) => state[p] \in {"READY", "STARTING"}
  /\ running \in Pcb \ {Shell} /\ state[running] # "DEFUNCT"
       => q.next[running] = Contents(q)[1]

\* The counter of a sleeper is what it is owed; on the processor it has at
\* least one tick left after the one that takes it away.
SleepExact ==
  \A p \in Pcb : state[p] = "SLEEPING" /\ ~(p = running /\ cpu.pc = "setCounter") =>
    /\ owed[p] = sleepCounter[p]
    /\ sleepCounter[p] > 0
    /\ p = running /\ irq <= p => sleepCounter[p] >= 2

IInv ==
  /\ Typed
  /\ ProcessorExact
  /\ ShellExact
  /\ LoaderExact
  /\ ResidentsExact
  /\ MemoryExact
  /\ FramesExact
  /\ ListExact
  /\ SleepExact
=============================================================================
