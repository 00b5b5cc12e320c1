--------------------------- MODULE ShippedProofs ---------------------------
(***************************************************************************)
(* Proofs about the kernel with programs like those of project6: the       *)
(* invariant of ShippedKernel is inductive, and what the runs check of     *)
(* this kernel follows from it, for any number of PCBs, segments, programs *)
(* and names.                                                              *)
(***************************************************************************)
EXTENDS ShippedKernel, ProcQueueProofs

-----------------------------------------------------------------------------
(* Constants and numbers.                                                  *)

\* What the assumptions say of the constants, in the form the proofs use.
LEMMA ConstantFacts ==
  /\ IsFiniteSet(Pcb) /\ NPcb \in Nat /\ NPcb > 0 /\ Pcb = 0 .. NPcb - 1
  /\ Shell \in Pcb /\ NULL \notin Pcb /\ Idle \notin Pcb /\ Idle # NULL
  /\ Shell # Idle
  /\ Segs \subseteq 0 .. 5 /\ Segs # {} /\ IsFiniteSet(Segs)
  /\ Cardinality(Segs) \in Nat /\ Cardinality(Segs) <= NPcb
  /\ "shell" \in Files /\ "shell" \notin Names
  /\ NULL \notin Files /\ "IDLE" \notin Files
  /\ Windows \subseteq {"findSegment", "takeSegment", "load", "findPcb",
                        "takePcb", "initPcb", "publish", "int8"}
<1>1. IsFiniteSet(Segs)
  <2>1. PICK n \in Nat : n = 5
    OBVIOUS
  <2>2. IsFiniteSet(0 .. n)
    BY FS_Interval
  <2>3. Segs \subseteq 0 .. n
    BY <2>1, SegmentsAssumption
  <2> QED
    BY <2>2, <2>3, FS_Subset
<1>2. Cardinality(Segs) \in Nat /\ Cardinality(Segs) # 0
  <2>1. Segs # {}
    BY SegmentsAssumption
  <2>2. Cardinality(Segs) \in Nat
    BY <1>1, FS_CardinalityType
  <2>3. Cardinality(Segs) = 0 <=> Segs = {}
    BY <1>1, FS_EmptySet
  <2> QED
    BY <2>1, <2>2, <2>3
<1>3. NPcb \in Nat
  BY PcbAssumption, FS_CardinalityType DEF NPcb
<1>4. Cardinality(Segs) <= NPcb
  BY SegmentsAssumption
<1>5. NPcb > 0
  BY <1>2, <1>3, <1>4
<1>6. Windows \subseteq {"findSegment", "takeSegment", "load", "findPcb",
                         "takePcb", "initPcb", "publish", "int8"}
  BY WindowsAssumption DEF LoadSteps
<1>7. /\ "shell" \in Files /\ "shell" \notin Names
      /\ NULL \notin Files /\ "IDLE" \notin Files
      /\ Segs # {} /\ Segs \subseteq 0 .. 5
  BY SegmentsAssumption, ProgramsAssumption, FilesAssumption
<1>8. /\ IsFiniteSet(Pcb) /\ Pcb = 0 .. NPcb - 1
      /\ NULL \notin Pcb /\ Idle \notin Pcb /\ Idle # NULL
  BY PcbAssumption, IdleIsNoPcb, NullAssumption DEF PcbPtr
<1>9. Shell \in Pcb /\ Shell # Idle
  BY <1>3, <1>5, <1>8 DEF Shell
<1> QED
  BY <1>1, <1>2, <1>3, <1>4, <1>5, <1>6, <1>7, <1>8, <1>9

\* The same in smaller parts.
LEMMA Pointers ==
  /\ Shell \in Pcb /\ NULL \notin Pcb /\ Idle \notin Pcb /\ Idle # NULL
  /\ Shell # Idle
BY ConstantFacts

LEMMA FileNames ==
  /\ "shell" \in Files /\ "shell" \notin Names
  /\ NULL \notin Files /\ "IDLE" \notin Files
BY ConstantFacts

LEMMA WindowNames ==
  Windows \subseteq {"findSegment", "takeSegment", "load", "findPcb",
                     "takePcb", "initPcb", "publish", "int8"}
BY ConstantFacts

\* The width of int: the range as bounds, and numbers in it are not changed.
LEMMA Width ==
  ASSUME NEW n
  PROVE  n \in Int16 <=> n \in Int /\ n >= -32768 /\ n <= 32767
<1>1. MaxInt = 32767
  BY DEF MaxInt
<1>2. MaxInt \in Int
  BY <1>1
<1>3. n \in Int16 <=> n \in Int /\ n >= -MaxInt - 1 /\ n <= MaxInt
  BY <1>2 DEF Int16
<1> QED
  BY <1>1, <1>3

LEMMA Fits ==
  ASSUME NEW n \in Int, n >= -32768, n <= 32767
  PROVE  ToInt16(n) = n
BY DEF ToInt16

\* A segment's number is positive, no other segment's and not the kernel's,
\* and leads back to the index.
LEMMA SegmentNumber ==
  ASSUME NEW i \in Segs
  PROVE  /\ SegmentOf(i) \in Int16 /\ SegmentOf(i) \in Int
         /\ IndexOf(SegmentOf(i)) = i
         /\ SegmentOf(i) # KernelSegment /\ SegmentOf(i) # 0
<1>1. i \in 0 .. 5
  BY ConstantFacts
<1>2. /\ SegmentOf(i) \in Int
      /\ SegmentOf(i) >= -32768 /\ SegmentOf(i) <= 32767
      /\ IndexOf(SegmentOf(i)) = i
      /\ SegmentOf(i) # KernelSegment /\ SegmentOf(i) # 0
  BY <1>1 DEF SegmentOf, ToInt16, IndexOf, Quotient, KernelSegment
<1> QED
  BY <1>2, Width

LEMMA SegmentsDiffer ==
  ASSUME NEW i \in Segs, NEW j \in Segs, SegmentOf(i) = SegmentOf(j)
  PROVE  i = j
<1>1. i \in 0 .. 5 /\ j \in 0 .. 5
  BY ConstantFacts
<1> QED
  BY <1>1 DEF SegmentOf, ToInt16

\* A nonempty set of PCBs has a lowest one.
LEMMA LowestPcb ==
  ASSUME NEW T \in SUBSET Pcb, T # {}
  PROVE  Lowest(T) \in T /\ \A p \in T : Lowest(T) <= p
<1>1. T \in SUBSET Nat
  BY ConstantFacts
<1>2. \E p \in T : \A r \in T : p <= r
  BY <1>1, LeastNatural
<1> QED
  BY <1>2 DEF Lowest

\* The search for a free segment finds the lowest one.
LEMMA LowestIndex ==
  ASSUME NEW T \in SUBSET (0 .. 7), T # {}
  PROVE  Lowest(T) \in T
<1>1. T \in SUBSET Nat
  OBVIOUS
<1>2. \E p \in T : \A r \in T : p <= r
  BY <1>1, LeastNatural
<1> QED
  BY <1>2 DEF Lowest

-----------------------------------------------------------------------------
(* Threads.                                                                *)

Pcs == {"boot", "installTimer", "spin", "user", "garbage",
        "findSegment", "takeSegment", "load", "findPcb", "takePcb",
        "initPcb", "publish", "initFrame", "releasePcb", "killPcb",
        "setCounter", "int8"}

LEMMA ThreadFields ==
  ASSUME NEW ss \in Int, NEW pc \in Pcs
  PROVE  /\ Thread(ss, pc) \in ThreadType
         /\ Thread(ss, pc).ss = ss /\ Thread(ss, pc).pc = pc
BY DEF Thread, ThreadType, Pcs, PcbPtr

LEMMA ReturnFields ==
  ASSUME cpu \in ThreadType, NEW r \in {-2, -1, 0, 1}
  PROVE  /\ Return(r) \in ThreadType
         /\ Return(r).ss = cpu.ss
         /\ Return(r).pc = IF cpu.ss = KernelSegment THEN "installTimer"
                           ELSE "user"
BY DEF Return, Thread, ThreadType, PcbPtr

LEMMA GotoFields ==
  ASSUME cpu \in ThreadType, NEW l \in Pcs, Goto(l)
  PROVE  /\ cpu' \in ThreadType
         /\ cpu'.ss = cpu.ss /\ cpu'.pc = l /\ cpu'.file = cpu.file
         /\ cpu'.seg = cpu.seg /\ cpu'.proc = cpu.proc
         /\ cpu'.secs = cpu.secs
BY DEF Goto, ThreadType, Pcs

-----------------------------------------------------------------------------
(* The ready queue.                                                        *)

In(p, s) == \E k \in DOMAIN s : s[k] = p

\* The memory r is a list of the PCBs of s, each once.
IsList(r, s) ==
  /\ r \in Queue
  /\ s \in Seq(Pcb)
  /\ Represents(r, s)
  /\ NoDuplicates(s)
  /\ Contents(r) = s

\* addToReady puts a PCB behind the others.
LEMMA Added ==
  ASSUME NEW r, NEW s, IsList(r, s), NEW p \in Pcb, ~In(p, s)
  PROVE  /\ IsList(AddToReady(r, p), Append(s, p))
         /\ ~AddFaults(r)
         /\ \A x : In(x, Append(s, p)) <=> In(x, s) \/ x = p
         /\ Append(s, p) # <<>>
         /\ s # <<>> =>
              /\ Append(s, p)[1] = s[1]
              /\ \A x \in Pcb : ~In(x, s) => AddToReady(r, p).next[x] = r.next[x]
<1> USE DEF IsList
<1>1. /\ Append(s, p) \in Seq(Pcb)
      /\ Len(Append(s, p)) = Len(s) + 1
      /\ \A j \in 1 .. Len(s) : Append(s, p)[j] = s[j]
      /\ Append(s, p)[Len(s) + 1] = p
      /\ Append(s, p) # <<>>
  BY AppendElements
<1>2. /\ Len(s) \in Nat /\ DOMAIN s = 1 .. Len(s)
      /\ DOMAIN Append(s, p) = 1 .. Len(s) + 1
      /\ s # <<>> => Len(s) > 0
      /\ s # <<>> => s[Len(s)] \in Pcb /\ s[1] \in Pcb
  BY <1>1, EmptySeq
<1>3. /\ AddToReady(r, p) \in Queue
      /\ Represents(AddToReady(r, p), Append(s, p))
      /\ NoDuplicates(Append(s, p))
      /\ ~AddFaults(r)
  BY <1>2, AddToReadyAppends DEF In
<1>4. Contents(AddToReady(r, p)) = Append(s, p)
  BY <1>1, <1>3, ContentsOfList, ConstantFacts
<1>5. ASSUME NEW x
      PROVE  In(x, Append(s, p)) <=> In(x, s) \/ x = p
  BY <1>1, <1>2 DEF In
<1>6. ASSUME s # <<>>
      PROVE  /\ Append(s, p)[1] = s[1]
             /\ \A x \in Pcb : ~In(x, s) => AddToReady(r, p).next[x] = r.next[x]
  <2>1. r.head # NULL /\ r.tail = s[Len(s)]
    BY <1>2, <1>6, ConstantFacts DEF Represents
  <2>2. AddToReady(r, p).next = [r.next EXCEPT ![r.tail] = p]
    BY <2>1, <1>3, AddToReadyFields
  <2>3. ASSUME NEW x \in Pcb, ~In(x, s)
        PROVE  AddToReady(r, p).next[x] = r.next[x]
    BY <2>1, <2>2, <2>3, <1>2, <1>6 DEF In, Queue
  <2> QED
    BY <2>3, <1>1, <1>2, <1>6
<1> QED
  BY <1>1, <1>3, <1>4, <1>5, <1>6

\* removeFromReady takes the first; its stale link leads to the second.
LEMMA Taken ==
  ASSUME NEW r, NEW s, IsList(r, s), s # <<>>
  PROVE  /\ RemovedFromReady(r) = s[1] /\ s[1] \in Pcb /\ In(s[1], s)
         /\ ~RemoveFaults(r)
         /\ IsList(RemoveFromReady(r), Tail(s))
         /\ \A x : In(x, Tail(s)) <=> In(x, s) /\ x # s[1]
         /\ \A x : In(x, Tail(s)) => RemoveFromReady(r).next[s[1]] = Tail(s)[1]
<1> USE DEF IsList
<1>1. /\ Tail(s) \in Seq(Pcb) /\ Len(Tail(s)) = Len(s) - 1
      /\ \A j \in 1 .. Len(s) - 1 : Tail(s)[j] = s[j + 1]
      /\ Len(s) > 0 /\ s[1] \in Pcb
  BY TailElements
<1>2. /\ Len(s) \in Nat /\ DOMAIN s = 1 .. Len(s)
      /\ DOMAIN Tail(s) = 1 .. Len(s) - 1
  BY <1>1
<1>3. /\ RemovedFromReady(r) = s[1]
      /\ RemoveFromReady(r) \in Queue
      /\ Represents(RemoveFromReady(r), Tail(s))
      /\ NoDuplicates(Tail(s))
      /\ \A i \in 1 .. Len(Tail(s)) : Tail(s)[i] # s[1]
      /\ Len(s) > 1 => RemoveFromReady(r).next[s[1]] = Tail(s)[1]
      /\ ~RemoveFaults(r)
  BY RemoveFromReadyTakesHead
<1>4. Contents(RemoveFromReady(r)) = Tail(s)
  BY <1>1, <1>3, ContentsOfList, ConstantFacts
<1>5. ASSUME NEW x
      PROVE  In(x, Tail(s)) <=> In(x, s) /\ x # s[1]
  <2>1. ASSUME In(x, Tail(s))
        PROVE  In(x, s) /\ x # s[1]
    <3>1. PICK k \in 1 .. Len(s) - 1 : Tail(s)[k] = x
      BY <2>1, <1>2 DEF In
    <3>2. k + 1 \in 1 .. Len(s) /\ s[k + 1] = x /\ k \in 1 .. Len(Tail(s))
      BY <3>1, <1>1, <1>2
    <3> QED
      BY <3>1, <3>2, <1>2, <1>3 DEF In
  <2>2. ASSUME In(x, s), x # s[1]
        PROVE  In(x, Tail(s))
    <3>1. PICK k \in 1 .. Len(s) : s[k] = x
      BY <2>2, <1>2 DEF In
    <3>2. k - 1 \in 1 .. Len(s) - 1 /\ Tail(s)[k - 1] = s[k]
      BY <2>2, <3>1, <1>1, <1>2
    <3> QED
      BY <3>1, <3>2, <1>2 DEF In
  <2> QED
    BY <2>1, <2>2
<1>6. ASSUME NEW x, In(x, Tail(s))
      PROVE  RemoveFromReady(r).next[s[1]] = Tail(s)[1]
  <2>1. Len(s) > 1
    BY <1>6, <1>2 DEF In
  <2> QED
    BY <2>1, <1>3
<1> QED
  BY <1>1, <1>2, <1>3, <1>4, <1>5, <1>6 DEF In

\* releasePCB of a PCB outside the list whose stale link leads to the head
\* leaves the list as it is.
LEMMA Kept ==
  ASSUME NEW r, NEW s, IsList(r, s), s # <<>>, NEW p \in Pcb, ~In(p, s),
         r.next[p] = s[1]
  PROVE  IsList(ReleaseLinks(r, p), s)
<1> USE DEF IsList
<1>1. DOMAIN s = 1 .. Len(s)
  OBVIOUS
<1>2. ReleaseLinks(r, p) \in Queue /\ Represents(ReleaseLinks(r, p), s)
  BY <1>1, ReleaseLinksKeepsList DEF In
<1> QED
  BY <1>2, ContentsOfList, ConstantFacts

-----------------------------------------------------------------------------
(* Who runs, and what follows from the invariant for it.                   *)

LEMMA QueueSame ==
  ASSUME q' = q
  PROVE  Contents(q)' = Contents(q) /\ \A p \in Pcb : Queued(p)' <=> Queued(p)
BY DEF Queued

LEMMA ExistsSame ==
  ASSUME q' = q, state' = state
  PROVE  \A p \in Pcb : Exists(p)' <=> Exists(p)
BY DEF Exists, Queued

\* The program at "user" is a process's, in its own segment, and makes one of
\* its calls: the shell executes, the others sleep and terminate.
LEMMA Caller ==
  ASSUME IInv, NEW call, Invokes(call)
  PROVE  /\ cpu.pc = "user" /\ irq = Off
         /\ running \in Pcb /\ state[running] = "RUNNING"
         /\ running = Shell => call = "execute"
         /\ running # Shell => call \in {"sleep", "terminate"}
         /\ \E i \in Segs : segment[running] = SegmentOf(i)
<1> USE DEF IInv
<1>1. cpu.pc = "user" /\ irq = Off
  BY DEF Invokes, At
<1>2. running \in Pcb
  BY <1>1 DEF Typed, TypeOK, ProcessorExact, LoadSteps
<1>3. state[running] = "RUNNING" /\ cpu.ss = segment[running]
  BY <1>1, <1>2 DEF ProcessorExact, LoadSteps
<1>4. Exists(running)
  BY <1>2, <1>3 DEF Exists
<1>5. PICK i \in Segs : /\ segment[running] = SegmentOf(i)
                        /\ image[i] = name[running]
                        /\ name[running] \in Programs(running)
  BY <1>2, <1>4 DEF ResidentsExact
<1>6. PICK j \in Segs : SegmentOf(j) = cpu.ss /\ call \in Calls[image[j]]
  BY DEF Invokes
<1>7. i = j
  BY <1>3, <1>5, <1>6, SegmentsDiffer
<1>8. call \in Calls[name[running]]
  BY <1>5, <1>6, <1>7
<1> QED
  BY <1>1, <1>2, <1>3, <1>5, <1>8, ProgramsAssumption DEF Programs

\* A load step is main's or the shell's.
LEMMA LoadStep ==
  ASSUME IInv, cpu.pc \in LoadSteps
  PROVE  /\ Loader = cpu
         /\ running \in {Idle, Shell}
         /\ running = Idle => cpu.ss = KernelSegment
         /\ running = Shell => cpu.ss # KernelSegment
         /\ running = Shell => state[Shell] = "RUNNING"
         /\ running # Idle => ~Booting
         /\ running = Idle => ~timerOn /\ irq = Off
<1> USE DEF IInv
<1>1. running \in {Idle, Shell}
  BY DEF Typed, TypeOK, ProcessorExact, LoadSteps
<1>2. ASSUME running = Shell
      PROVE  cpu.ss # KernelSegment /\ state[Shell] = "RUNNING"
  <2>1. cpu.ss = segment[Shell] /\ state[Shell] = "RUNNING"
    BY <1>2, Pointers DEF ProcessorExact, LoadSteps
  <2>2. Exists(Shell)
    BY <2>1 DEF Exists
  <2>3. PICK i \in Segs : segment[Shell] = SegmentOf(i)
    BY <2>2, Pointers DEF ResidentsExact
  <2> QED
    BY <2>1, <2>3, SegmentNumber
<1>3. Loader = cpu
  BY <1>1 DEF Loader, ThreadOf
<1>4. running = Idle => cpu.ss = KernelSegment /\ ~timerOn /\ irq = Off
  BY DEF ProcessorExact, LoadSteps
<1> QED
  BY <1>1, <1>2, <1>3, <1>4, Pointers DEF Booting

-----------------------------------------------------------------------------
(* The steps of main and of executeProgram keep the invariant.             *)

LEMMA BootShellKeeps ==
  ASSUME IInv, BootShell
  PROVE  IInv'
<1> USE DEF IInv
<1>1. cpu.pc = "boot" /\ irq = Off /\ running = Idle /\ cpu \in ThreadType
  BY DEF BootShell, At, ProcessorExact, Typed, TypeOK, LoadSteps
<1>2. /\ cpu' \in ThreadType
      /\ cpu'.pc = "findSegment" /\ cpu'.file = "shell" /\ cpu'.ss = cpu.ss
  BY <1>1, FileNames, ZenonT(40) DEF BootShell, ThreadType
<1>3. UNCHANGED <<state, name, segment, sleepCounter, q, memoryMap, running,
                  image, saved, timerOn, irq, wild, owed>>
  BY DEF BootShell, pcbVars, swapVars
<1>4. Typed'
  BY <1>2, <1>3 DEF Typed, TypeOK
<1>5. ProcessorExact'
  BY <1>1, <1>2, <1>3, Pointers DEF ProcessorExact, LoadSteps
<1>6. ShellExact'
  BY <1>1, <1>2, <1>3, Pointers, QueueSame DEF ShellExact, Booting, LoadSteps
<1>7. LoaderExact'
  BY <1>1, <1>2, <1>3, QueueSame
     DEF LoaderExact, ShellExact, Booting, Loader, LoadSteps, Loading
<1>8. ResidentsExact'
  BY <1>1, <1>2, <1>3, ExistsSame DEF ResidentsExact, Ending
<1>9. MemoryExact'
  BY <1>1, <1>2, <1>3, ExistsSame DEF MemoryExact, Ending, Loader, Loading
<1>10. FramesExact'
  BY <1>1, <1>2, <1>3, ExistsSame DEF FramesExact
<1>11. ListExact'
  BY <1>1, <1>2, <1>3, QueueSame DEF ListExact
<1>12. SleepExact'
  BY <1>1, <1>2, <1>3 DEF SleepExact
<1> QED
  BY <1>4, <1>5, <1>6, <1>7, <1>8, <1>9, <1>10, <1>11, <1>12

LEMMA MakeTimerInterruptKeeps ==
  ASSUME IInv, MakeTimerInterrupt
  PROVE  IInv'
<1> USE DEF IInv
<1>1. /\ cpu.pc = "installTimer" /\ irq = Off /\ running = Idle
      /\ cpu \in ThreadType
  BY DEF MakeTimerInterrupt, At, ProcessorExact, Typed, TypeOK, LoadSteps
<1>2. /\ cpu' \in ThreadType
      /\ cpu'.pc = "spin" /\ cpu'.ss = cpu.ss
  BY <1>1, GotoFields DEF MakeTimerInterrupt, Pcs
<1>3. /\ UNCHANGED <<state, name, segment, sleepCounter, q, memoryMap, running,
                     image, saved, irq, wild, owed>>
      /\ timerOn' = TRUE
  BY DEF MakeTimerInterrupt, pcbVars
<1>4. Typed'
  BY <1>2, <1>3 DEF Typed, TypeOK
<1>5. ProcessorExact'
  BY <1>1, <1>2, <1>3, Pointers DEF ProcessorExact, LoadSteps
<1>6. ShellExact'
  BY <1>1, <1>2, <1>3, Pointers, QueueSame DEF ShellExact, Booting, LoadSteps
<1>7. LoaderExact'
  BY <1>1, <1>2, <1>3, QueueSame
     DEF LoaderExact, ShellExact, Booting, Loader, LoadSteps, Loading
<1>8. ResidentsExact'
  BY <1>1, <1>2, <1>3, ExistsSame DEF ResidentsExact, Ending
<1>9. MemoryExact'
  BY <1>1, <1>2, <1>3, ExistsSame DEF MemoryExact, Ending, Loader, Loading
<1>10. FramesExact'
  BY <1>1, <1>2, <1>3, ExistsSame DEF FramesExact
<1>11. ListExact'
  BY <1>1, <1>2, <1>3, QueueSame DEF ListExact
<1>12. SleepExact'
  BY <1>1, <1>2, <1>3 DEF SleepExact
<1> QED
  BY <1>4, <1>5, <1>6, <1>7, <1>8, <1>9, <1>10, <1>11, <1>12

\* What executeProgram returns to the caller, with nothing else changed: main
\* goes on to install the timer, the shell to read the next command.  main
\* never gets an error.
LEMMA ReturnKeeps ==
  ASSUME IInv, NEW r \in {-2, -1, 0, 1}, cpu' = Return(r),
         running = Shell, cpu.pc \in {"user", "findSegment"}, irq = Off,
         UNCHANGED <<state, name, segment, sleepCounter, q, memoryMap, running,
                     image, saved, timerOn, irq, wild, owed>>
  PROVE  IInv'
<1> USE DEF IInv
<1>1. /\ cpu \in ThreadType
      /\ cpu.ss = segment[Shell] /\ state[Shell] = "RUNNING"
  BY Pointers DEF Typed, ProcessorExact, LoadSteps
<1>2. cpu.ss # KernelSegment
  <2>1. Exists(Shell)
    BY <1>1 DEF Exists
  <2>2. PICK i \in Segs : segment[Shell] = SegmentOf(i)
    BY <2>1, Pointers DEF ResidentsExact
  <2> QED
    BY <1>1, <2>2, SegmentNumber
<1>3. cpu' \in ThreadType /\ cpu'.pc = "user" /\ cpu'.ss = cpu.ss
  BY <1>1, <1>2, ReturnFields
<1>4. Typed'
  BY <1>3 DEF Typed, TypeOK
<1>5. ProcessorExact'
  BY <1>1, <1>3, Pointers DEF ProcessorExact, LoadSteps
<1>6. ShellExact'
  BY <1>3, Pointers, QueueSame DEF ShellExact, Booting
<1>7. LoaderExact'
  BY <1>3, Pointers, QueueSame
     DEF LoaderExact, Loader, ThreadOf, LoadSteps, Loading
<1>8. ResidentsExact'
  BY <1>3, ExistsSame DEF ResidentsExact, Ending
<1>9. MemoryExact'
  BY <1>3, Pointers, ExistsSame DEF MemoryExact, Ending, Loader, ThreadOf, Loading
<1>10. FramesExact'
  BY <1>3, ExistsSame DEF FramesExact
<1>11. ListExact'
  BY <1>3, QueueSame DEF ListExact
<1>12. SleepExact'
  BY <1>3 DEF SleepExact
<1> QED
  BY <1>4, <1>5, <1>6, <1>7, <1>8, <1>9, <1>10, <1>11, <1>12

LEMMA ExecuteMissingKeeps ==
  ASSUME IInv, ExecuteMissing
  PROVE  IInv'
<1>1. running = Shell /\ cpu.pc = "user" /\ irq = Off
  BY Caller DEF ExecuteMissing
<1>2. /\ UNCHANGED <<state, name, segment, sleepCounter, q, memoryMap, running,
                     image, saved, timerOn, irq, wild, owed>>
      /\ cpu' = Return(-1)
  BY DEF ExecuteMissing, pcbVars, swapVars
<1> QED
  BY <1>1, <1>2, ReturnKeeps

LEMMA ExecuteProgramKeeps ==
  ASSUME IInv, NEW f \in Names, ExecuteProgram(f)
  PROVE  IInv'
<1> USE DEF IInv
<1>1. /\ running = Shell /\ cpu.pc = "user" /\ irq = Off /\ f \in Files
      /\ state[Shell] = "RUNNING" /\ cpu \in ThreadType
  BY Caller DEF ExecuteProgram, Typed
<1>2. /\ cpu' \in ThreadType
      /\ cpu'.pc = "findSegment" /\ cpu'.file = f /\ cpu'.ss = cpu.ss
  BY <1>1 DEF ExecuteProgram, ThreadType
<1>3. UNCHANGED <<state, name, segment, sleepCounter, q, memoryMap, running,
                  image, saved, timerOn, irq, wild, owed>>
  BY DEF ExecuteProgram, pcbVars, swapVars
<1>4. Typed'
  BY <1>2, <1>3 DEF Typed, TypeOK
<1>5. ProcessorExact'
  BY <1>1, <1>2, <1>3, Pointers DEF ProcessorExact, LoadSteps
<1>6. ShellExact'
  BY <1>1, <1>2, <1>3, Pointers, QueueSame DEF ShellExact, Booting
<1>7. LoaderExact'
  BY <1>1, <1>2, <1>3, Pointers, QueueSame
     DEF LoaderExact, Loader, ThreadOf, LoadSteps, Loading
<1>8. ResidentsExact'
  BY <1>1, <1>2, <1>3, ExistsSame DEF ResidentsExact, Ending
<1>9. MemoryExact'
  BY <1>1, <1>2, <1>3, Pointers, ExistsSame
     DEF MemoryExact, Ending, Loader, ThreadOf, Loading
<1>10. FramesExact'
  BY <1>1, <1>2, <1>3, ExistsSame DEF FramesExact
<1>11. ListExact'
  BY <1>1, <1>2, <1>3, QueueSame DEF ListExact
<1>12. SleepExact'
  BY <1>1, <1>2, <1>3 DEF SleepExact
<1> QED
  BY <1>4, <1>5, <1>6, <1>7, <1>8, <1>9, <1>10, <1>11, <1>12

\* main, which loads the shell when no process exists, finds a segment.
LEMMA FindSegmentKeeps ==
  ASSUME IInv, FindSegment
  PROVE  IInv'
<1> USE DEF IInv
<1> DEFINE free == {i \in 0 .. 7 : memoryMap[i] = "FREE"}
<1>1. cpu.pc = "findSegment" /\ irq = Off /\ cpu \in ThreadType
  BY DEF FindSegment, At, Typed
<1>2. /\ running \in {Idle, Shell} /\ Loader = cpu
      /\ running = Idle => cpu.ss = KernelSegment
      /\ running = Shell => state[Shell] = "RUNNING"
      /\ running # Idle => ~Booting
      /\ running = Idle => ~timerOn
  BY <1>1, LoadStep DEF LoadSteps
<1>3. UNCHANGED <<state, name, segment, sleepCounter, q, memoryMap, running,
                  image, saved, timerOn, irq, wild, owed>>
  BY DEF FindSegment, pcbVars, swapVars
<1>4. CASE free = {}
  <2>1. running = Shell
    <3>1. SUFFICES ASSUME running = Idle PROVE FALSE
      BY <1>2
    <3>2. Booting
      BY <1>1, <3>1 DEF Booting, LoadSteps
    <3>3. \A p \in Pcb : ~Exists(p)
      BY <1>1, <3>2 DEF ShellExact, Exists
    <3>4. PICK i \in Segs : TRUE
      BY SegmentsAssumption
    <3>5. memoryMap[i] = "USED"
      <4>1. i \in 0 .. 7
        BY SegsAssumption
      <4>2. memoryMap[i] \in {"FREE", "USED"}
        BY <4>1 DEF Typed, TypeOK
      <4> QED
        BY <1>4, <4>1, <4>2
    <3> QED
      BY <1>1, <1>2, <3>3, <3>5 DEF MemoryExact, Loading
  <2>2. cpu' = Return(-2)
    BY <1>4 DEF FindSegment
  <2> QED
    BY <1>1, <1>3, <2>1, <2>2, ReturnKeeps
<1>5. CASE free # {}
  <2> DEFINE i == Lowest(free)
  <2>1. i \in 0 .. 7 /\ memoryMap[i] = "FREE"
    BY <1>5, LowestIndex
  <2>2. i \in Segs
    BY <2>1 DEF MemoryExact
  <2>3. cpu' = [cpu EXCEPT !.pc = "takeSegment", !.seg = i]
    BY <1>5 DEF FindSegment
  <2> HIDE DEF free, i
  <2>4. /\ cpu' \in ThreadType
        /\ cpu'.pc = "takeSegment" /\ cpu'.file = cpu.file /\ cpu'.ss = cpu.ss
        /\ cpu'.seg = i
    BY <1>1, <2>1, <2>3 DEF ThreadType
  <2>5. Loader' = cpu'
    BY <1>2, <1>3 DEF Loader, ThreadOf
  <2>6. Typed'
    BY <2>4, <1>3 DEF Typed, TypeOK
  <2>7. ProcessorExact'
    BY <1>1, <1>2, <1>3, <2>4, Pointers DEF ProcessorExact, LoadSteps
  <2>8. ShellExact'
    BY <1>1, <1>2, <1>3, <2>4, Pointers, QueueSame
       DEF ShellExact, Booting, LoadSteps
  <2>9. LoaderExact'
    BY <1>1, <1>2, <1>3, <2>1, <2>2, <2>4, <2>5, QueueSame
       DEF LoaderExact, LoadSteps, Loading
  <2>10. ResidentsExact'
    BY <1>1, <1>3, <2>4, ExistsSame DEF ResidentsExact, Ending
  <2>11. MemoryExact'
    BY <1>1, <1>2, <1>3, <2>4, <2>5, ExistsSame DEF MemoryExact, Ending, Loading
  <2>12. FramesExact'
    BY <1>1, <1>3, <2>4, ExistsSame DEF FramesExact
  <2>13. ListExact'
    BY <1>3, QueueSame DEF ListExact
  <2>14. SleepExact'
    BY <1>1, <1>3, <2>4 DEF SleepExact
  <2> QED
    BY <2>6, <2>7, <2>8, <2>9, <2>10, <2>11, <2>12, <2>13, <2>14
<1> QED
  BY <1>4, <1>5

\* The segment a load takes was FREE, so no process lives in it.
LEMMA TakeSegmentKeeps ==
  ASSUME IInv, TakeSegment
  PROVE  IInv'
<1> USE DEF IInv
<1>1. cpu.pc = "takeSegment" /\ irq = Off /\ cpu \in ThreadType
  BY DEF TakeSegment, At, Typed
<1>2. /\ running \in {Idle, Shell} /\ Loader = cpu
      /\ running = Idle => cpu.ss = KernelSegment
      /\ running = Shell => state[Shell] = "RUNNING"
      /\ running # Idle => ~Booting
      /\ running = Idle => ~timerOn
  BY <1>1, LoadStep DEF LoadSteps
<1>3. /\ UNCHANGED <<state, name, segment, sleepCounter, q, running, image,
                     saved, timerOn, irq, wild, owed>>
      /\ memoryMap' = [memoryMap EXCEPT ![cpu.seg] = "USED"]
  BY DEF TakeSegment, pcbVars, swapVars
<1>4. /\ cpu' \in ThreadType
      /\ cpu'.pc = "load" /\ cpu'.file = cpu.file /\ cpu'.ss = cpu.ss
      /\ cpu'.seg = cpu.seg
  BY <1>1, GotoFields DEF TakeSegment, Pcs
<1>5. Loader' = cpu'
  BY <1>2, <1>3 DEF Loader, ThreadOf
<1>6. cpu.seg \in Segs /\ memoryMap[cpu.seg] = "FREE"
  BY <1>1, <1>2 DEF LoaderExact, LoadSteps
<1>7. memoryMap \in [0 .. 7 -> {"FREE", "USED"}] /\ cpu.seg \in 0 .. 7
  BY <1>6, SegsAssumption DEF Typed, TypeOK
<1>8. ASSUME NEW p \in Pcb, Exists(p)
      PROVE  segment[p] # SegmentOf(cpu.seg)
  <2>1. PICK i \in Segs : /\ segment[p] = SegmentOf(i)
                          /\ memoryMap[i] = IF Ending(p) THEN "FREE" ELSE "USED"
    BY <1>8 DEF ResidentsExact
  <2>2. ~Ending(p)
    BY <1>1 DEF Ending
  <2>3. i # cpu.seg
    BY <1>6, <2>1, <2>2
  <2> QED
    BY <1>6, <2>1, <2>3, SegmentsDiffer
<1>9. Typed'
  BY <1>3, <1>4, <1>7 DEF Typed, TypeOK
<1>10. ProcessorExact'
  BY <1>1, <1>2, <1>3, <1>4, Pointers DEF ProcessorExact, LoadSteps
<1>11. ShellExact'
  BY <1>1, <1>2, <1>3, <1>4, Pointers, QueueSame
     DEF ShellExact, Booting, LoadSteps
<1>12. LoaderExact'
  BY <1>1, <1>2, <1>3, <1>4, <1>5, <1>6, <1>7, <1>8, QueueSame, ExistsSame
     DEF LoaderExact, LoadSteps, Loading
<1>13. ResidentsExact'
  <2>1. \A p \in Pcb : ~Ending(p) /\ ~Ending(p)'
    BY <1>1, <1>4 DEF Ending
  <2> QED
    BY <1>3, <1>6, <1>7, <2>1, ExistsSame DEF ResidentsExact
<1>14. MemoryExact'
  BY <1>1, <1>2, <1>3, <1>4, <1>5, <1>6, <1>7, ExistsSame
     DEF MemoryExact, Ending, Loading
<1>15. FramesExact'
  BY <1>1, <1>3, <1>4, ExistsSame DEF FramesExact
<1>16. ListExact'
  BY <1>3, QueueSame DEF ListExact
<1>17. SleepExact'
  BY <1>1, <1>3, <1>4 DEF SleepExact
<1> QED
  BY <1>9, <1>10, <1>11, <1>12, <1>13, <1>14, <1>15, <1>16, <1>17

\* The program is loaded where no process lives.
LEMMA LoadProgramKeeps ==
  ASSUME IInv, LoadProgram
  PROVE  IInv'
<1> USE DEF IInv
<1>1. cpu.pc = "load" /\ irq = Off /\ cpu \in ThreadType
  BY DEF LoadProgram, At, Typed
<1>2. /\ running \in {Idle, Shell} /\ Loader = cpu
      /\ running = Idle => cpu.ss = KernelSegment
      /\ running = Shell => state[Shell] = "RUNNING"
      /\ running # Idle => ~Booting
      /\ running = Idle => ~timerOn
  BY <1>1, LoadStep DEF LoadSteps
<1>3. /\ UNCHANGED <<state, name, segment, sleepCounter, q, memoryMap, running,
                     saved, timerOn, irq, wild, owed>>
      /\ image' = [image EXCEPT ![cpu.seg] = cpu.file]
  BY DEF LoadProgram, pcbVars, swapVars
<1>4. /\ cpu' \in ThreadType
      /\ cpu'.pc = "findPcb" /\ cpu'.file = cpu.file /\ cpu'.ss = cpu.ss
      /\ cpu'.seg = cpu.seg
  BY <1>1, GotoFields DEF LoadProgram, Pcs
<1>5. Loader' = cpu'
  BY <1>2, <1>3 DEF Loader, ThreadOf
<1>6. /\ cpu.seg \in Segs /\ memoryMap[cpu.seg] = "USED"
      /\ cpu.file \in Files
      /\ \A p \in Pcb : Exists(p) => segment[p] # SegmentOf(cpu.seg)
  BY <1>1, <1>2, FileNames DEF LoaderExact, LoadSteps, Loading
<1>7. image \in [Segs -> Files \cup {NULL}]
  BY DEF Typed, TypeOK
<1>8. Typed'
  BY <1>3, <1>4, <1>6, <1>7 DEF Typed, TypeOK
<1>9. ProcessorExact'
  BY <1>1, <1>2, <1>3, <1>4, Pointers DEF ProcessorExact, LoadSteps
<1>10. ShellExact'
  BY <1>1, <1>2, <1>3, <1>4, Pointers, QueueSame
     DEF ShellExact, Booting, LoadSteps
<1>11. LoaderExact'
  BY <1>1, <1>2, <1>3, <1>4, <1>5, <1>6, <1>7, QueueSame, ExistsSame
     DEF LoaderExact, LoadSteps, Loading
<1>12. ResidentsExact'
  <2>1. \A p \in Pcb : ~Ending(p) /\ ~Ending(p)'
    BY <1>1, <1>4 DEF Ending
  <2> QED
    BY <1>3, <1>6, <1>7, <2>1, ExistsSame DEF ResidentsExact
<1>13. MemoryExact'
  BY <1>1, <1>2, <1>3, <1>4, <1>5, ExistsSame DEF MemoryExact, Ending, Loading
<1>14. FramesExact'
  BY <1>1, <1>3, <1>4, ExistsSame DEF FramesExact
<1>15. ListExact'
  BY <1>3, QueueSame DEF ListExact
<1>16. SleepExact'
  BY <1>1, <1>3, <1>4 DEF SleepExact
<1> QED
  BY <1>8, <1>9, <1>10, <1>11, <1>12, <1>13, <1>14, <1>15, <1>16

\* There is a PCB for every segment: while a segment is being loaded, the
\* processes live in the other ones.
LEMMA FreePcb ==
  ASSUME IInv, cpu.pc = "findPcb"
  PROVE  \E p \in Pcb : state[p] = "DEFUNCT"
<1> USE DEF IInv
<1>1. SUFFICES ASSUME \A p \in Pcb : state[p] # "DEFUNCT"
               PROVE  FALSE
  OBVIOUS
<1>2. Loader = cpu /\ cpu.seg \in Segs
  BY LoadStep DEF LoaderExact, LoadSteps
<1>3. \A p \in Pcb : Exists(p) /\ segment[p] # SegmentOf(cpu.seg)
  BY <1>1, <1>2 DEF LoaderExact, LoadSteps, Loading, Exists
<1>4. \A p \in Pcb : \E i \in Segs \ {cpu.seg} : segment[p] = SegmentOf(i)
  BY <1>3 DEF ResidentsExact
<1> DEFINE f == [p \in Pcb |-> CHOOSE i \in Segs \ {cpu.seg} : segment[p] = SegmentOf(i)]
<1>5. \A p \in Pcb : f[p] \in Segs \ {cpu.seg} /\ segment[p] = SegmentOf(f[p])
  BY <1>4
<1> HIDE DEF f
<1>6. ASSUME NEW p \in Pcb, NEW r \in Pcb, f[p] = f[r]
      PROVE  p = r
  BY <1>3, <1>5, <1>6 DEF ResidentsExact
<1>7. f \in Injection(Pcb, Segs \ {cpu.seg})
  <2>1. f \in [Pcb -> Segs \ {cpu.seg}]
    BY <1>5 DEF f
  <2> QED
    BY <2>1, <1>6 DEF Injection, IsInjective
<1>8. IsFiniteSet(Segs) /\ IsFiniteSet(Pcb) /\ NPcb \in Nat
      /\ Cardinality(Segs) \in Nat /\ Cardinality(Segs) <= NPcb
  BY ConstantFacts
<1>9. /\ IsFiniteSet(Segs \ {cpu.seg})
      /\ Cardinality(Segs \ {cpu.seg}) = Cardinality(Segs) - 1
  BY <1>2, <1>8, FS_RemoveElement
<1>10. Cardinality(Pcb) <= Cardinality(Segs \ {cpu.seg})
  BY <1>7, <1>8, <1>9, FS_Injection
<1> QED
  BY <1>8, <1>9, <1>10 DEF NPcb

\* The first PCB is the shell's: it is the lowest of all.
LEMMA FindPcbKeeps ==
  ASSUME IInv, FindPcb
  PROVE  IInv'
<1> USE DEF IInv
<1>1. cpu.pc = "findPcb" /\ irq = Off /\ cpu \in ThreadType
  BY DEF FindPcb, At, Typed
<1>2. /\ running \in {Idle, Shell} /\ Loader = cpu
      /\ running = Idle => cpu.ss = KernelSegment
      /\ running = Shell => state[Shell] = "RUNNING"
      /\ running # Idle => ~Booting
      /\ running = Idle => ~timerOn
  BY <1>1, LoadStep DEF LoadSteps
<1> DEFINE free == {p \in Pcb : state[p] = "DEFUNCT"}
           p0 == Lowest(free)
<1>3. UNCHANGED <<state, name, segment, sleepCounter, q, memoryMap, running,
                  image, saved, timerOn, irq, wild, owed>>
  BY DEF FindPcb, pcbVars, swapVars
<1>4. free # {}
  BY <1>1, FreePcb
<1>5. p0 \in Pcb /\ state[p0] = "DEFUNCT" /\ \A p \in free : p0 <= p
  BY <1>4, LowestPcb
<1>6. cpu' = [cpu EXCEPT !.pc = "takePcb", !.proc = p0]
  BY <1>4 DEF FindPcb
<1>7. running = Idle => p0 = Shell
  <2>1. SUFFICES ASSUME running = Idle PROVE p0 = Shell
    OBVIOUS
  <2>2. Booting
    BY <1>1, <2>1 DEF Booting, LoadSteps
  <2>3. Shell \in free
    BY <1>1, <2>2, Pointers DEF ShellExact
  <2>4. p0 <= Shell
    BY <1>5, <2>3
  <2>5. p0 \in 0 .. NPcb - 1 /\ NPcb \in Nat
    BY <1>5, ConstantFacts
  <2> HIDE DEF p0
  <2> QED
    BY <2>4, <2>5 DEF Shell
<1>8. running = Shell => p0 # Shell
  BY <1>2, <1>5
<1> HIDE DEF free, p0
<1>9. /\ cpu' \in ThreadType
      /\ cpu'.pc = "takePcb" /\ cpu'.file = cpu.file /\ cpu'.ss = cpu.ss
      /\ cpu'.seg = cpu.seg /\ cpu'.proc = p0
  BY <1>1, <1>5, <1>6 DEF ThreadType, PcbPtr
<1>10. Loader' = cpu'
  BY <1>2, <1>3 DEF Loader, ThreadOf
<1>11. Typed'
  BY <1>3, <1>9 DEF Typed, TypeOK
<1>12. ProcessorExact'
  BY <1>1, <1>2, <1>3, <1>9, Pointers DEF ProcessorExact, LoadSteps
<1>13. ShellExact'
  BY <1>1, <1>2, <1>3, <1>9, Pointers, QueueSame
     DEF ShellExact, Booting, LoadSteps
<1>14. LoaderExact'
  BY <1>1, <1>2, <1>3, <1>5, <1>7, <1>8, <1>9, <1>10, Pointers, QueueSame,
     ExistsSame
     DEF LoaderExact, LoadSteps, Loading
<1>15. ResidentsExact'
  BY <1>1, <1>3, <1>9, ExistsSame DEF ResidentsExact, Ending
<1>16. MemoryExact'
  BY <1>1, <1>2, <1>3, <1>9, <1>10, ExistsSame DEF MemoryExact, Ending, Loading
<1>17. FramesExact'
  BY <1>1, <1>3, <1>9, ExistsSame DEF FramesExact
<1>18. ListExact'
  BY <1>3, QueueSame DEF ListExact
<1>19. SleepExact'
  BY <1>1, <1>3, <1>9 DEF SleepExact
<1> QED
  BY <1>11, <1>12, <1>13, <1>14, <1>15, <1>16, <1>17, <1>18, <1>19

\* A PCB that is taken is not queued, and does not exist yet as a process.
LEMMA TakePcbKeeps ==
  ASSUME IInv, TakePcb
  PROVE  IInv'
<1> USE DEF IInv
<1>1. cpu.pc = "takePcb" /\ irq = Off /\ cpu \in ThreadType
  BY DEF TakePcb, At, Typed
<1>2. /\ running \in {Idle, Shell} /\ Loader = cpu
      /\ running = Idle => cpu.ss = KernelSegment
      /\ running = Shell => state[Shell] = "RUNNING"
      /\ running # Idle => ~Booting
      /\ running = Idle => ~timerOn
  BY <1>1, LoadStep DEF LoadSteps
<1> DEFINE p0 == cpu.proc
<1>3. /\ UNCHANGED <<name, segment, sleepCounter, q, memoryMap, running,
                     image, saved, timerOn, irq, wild, owed>>
      /\ state' = [state EXCEPT ![p0] = "STARTING"]
  BY DEF TakePcb, swapVars
<1>4. /\ cpu' \in ThreadType
      /\ cpu'.pc = "initPcb" /\ cpu'.file = cpu.file /\ cpu'.ss = cpu.ss
      /\ cpu'.seg = cpu.seg /\ cpu'.proc = p0
  BY <1>1, GotoFields DEF TakePcb, Pcs
<1>5. Loader' = cpu'
  BY <1>2, <1>3 DEF Loader, ThreadOf
<1>6. /\ p0 \in Pcb /\ p0 # running /\ state[p0] = "DEFUNCT"
      /\ p0 = Shell <=> running = Idle
  BY <1>1, <1>2 DEF LoaderExact, LoadSteps
<1>7. ~Queued(p0)
  BY <1>6 DEF ListExact
<1> HIDE DEF p0
<1>8. \A p \in Pcb : state'[p] = IF p = p0 THEN "STARTING" ELSE state[p]
  BY <1>3 DEF Typed, TypeOK
<1>9. \A p \in Pcb : Queued(p)' <=> Queued(p)
  BY <1>3, QueueSame
<1>10. \A p \in Pcb : Exists(p)' <=> Exists(p)
  BY <1>6, <1>7, <1>8, <1>9 DEF Exists
<1>11. Typed'
  BY <1>3, <1>4 DEF Typed, TypeOK
<1>12. ProcessorExact'
  BY <1>1, <1>2, <1>3, <1>4, <1>6, <1>8, Pointers DEF ProcessorExact, LoadSteps
<1>13. ShellExact'
  <2>1. CASE running = Idle
    <3>1. Booting /\ Booting'
      BY <2>1, <1>1, <1>3, <1>4 DEF Booting, LoadSteps
    <3>2. Contents(q)' = Contents(q)
      BY <1>3
    <3> QED
      BY <2>1, <3>1, <3>2, <1>1, <1>4, <1>6, <1>8 DEF ShellExact
  <2>2. CASE running = Shell
    <3>1. ~Booting'
      BY <2>2, <1>3, Pointers DEF Booting
    <3> QED
      BY <2>2, <3>1, <1>2, <1>3, <1>6, <1>8, Pointers DEF ShellExact
  <2> QED
    BY <2>1, <2>2, <1>2
<1>14. LoaderExact'
  BY <1>1, <1>2, <1>3, <1>4, <1>5, <1>6, <1>7, <1>8, <1>9, <1>10
     DEF LoaderExact, LoadSteps, Loading
<1>15. ResidentsExact'
  BY <1>1, <1>3, <1>4, <1>10 DEF ResidentsExact, Ending
<1>16. MemoryExact'
  BY <1>1, <1>2, <1>3, <1>4, <1>5, <1>10 DEF MemoryExact, Ending, Loading
<1>17. FramesExact'
  BY <1>1, <1>3, <1>4, <1>10 DEF FramesExact
<1>18. ListExact'
  BY <1>2, <1>3, <1>6, <1>7, <1>8, <1>9, Pointers DEF ListExact
<1>19. SleepExact'
  BY <1>1, <1>3, <1>4, <1>8 DEF SleepExact
<1> QED
  BY <1>11, <1>12, <1>13, <1>14, <1>15, <1>16, <1>17, <1>18, <1>19

\* Filling in the PCB changes nothing that a process sees.
LEMMA InitPcbKeeps ==
  ASSUME IInv, InitPcb
  PROVE  IInv'
<1> USE DEF IInv
<1>1. cpu.pc = "initPcb" /\ irq = Off /\ cpu \in ThreadType
  BY DEF InitPcb, At, Typed
<1>2. /\ running \in {Idle, Shell} /\ Loader = cpu
      /\ running = Idle => cpu.ss = KernelSegment
      /\ running = Shell => state[Shell] = "RUNNING"
      /\ running # Idle => ~Booting
      /\ running = Idle => ~timerOn
  BY <1>1, LoadStep DEF LoadSteps
<1> DEFINE p0 == cpu.proc
           s0 == SegmentOf(cpu.seg)
<1>3. /\ UNCHANGED <<sleepCounter, q, memoryMap, running, image, timerOn, irq,
                     wild, owed>>
      /\ name' = [name EXCEPT ![p0] = cpu.file]
      /\ state' = [state EXCEPT ![p0] = "STARTING"]
      /\ segment' = [segment EXCEPT ![p0] = s0]
      /\ saved' = [saved EXCEPT ![p0] = Garbage(s0)]
  BY DEF InitPcb
<1>4. /\ cpu' \in ThreadType
      /\ cpu'.pc = "publish" /\ cpu'.file = cpu.file /\ cpu'.ss = cpu.ss
      /\ cpu'.seg = cpu.seg /\ cpu'.proc = p0
  BY <1>1, GotoFields DEF InitPcb, Pcs
<1>5. Loader' = cpu'
  BY <1>2, <1>3 DEF Loader, ThreadOf
<1>6. /\ p0 \in Pcb /\ p0 # running /\ state[p0] = "STARTING"
      /\ p0 = Shell <=> running = Idle
      /\ ~Queued(p0) /\ cpu.seg \in Segs /\ cpu.file \in Files
  BY <1>1, <1>2, FileNames DEF LoaderExact, LoadSteps
<1>7. s0 \in Int16 /\ s0 \in Int
  BY <1>6, SegmentNumber
<1>8. Garbage(s0) \in ThreadType /\ Garbage(s0).pc = "garbage"
  BY <1>7, ThreadFields DEF Garbage, Pcs
<1> HIDE DEF p0, s0
<1>9. \A p \in Pcb : /\ state'[p] = state[p]
                     /\ segment'[p] = IF p = p0 THEN s0 ELSE segment[p]
                     /\ name'[p] = IF p = p0 THEN cpu.file ELSE name[p]
                     /\ saved'[p] = IF p = p0 THEN Garbage(s0) ELSE saved[p]
  BY <1>3, <1>6 DEF Typed, TypeOK
<1>10. \A p \in Pcb : Queued(p)' <=> Queued(p)
  BY <1>3, QueueSame
<1>11. \A p \in Pcb : (Exists(p)' <=> Exists(p)) /\ (Exists(p) => p # p0)
  BY <1>6, <1>9, <1>10 DEF Exists
<1>12. Typed'
  BY <1>3, <1>4, <1>6, <1>7, <1>8 DEF Typed, TypeOK
<1>13. ProcessorExact'
  BY <1>1, <1>2, <1>3, <1>4, <1>6, <1>9, Pointers DEF ProcessorExact, LoadSteps
<1>14. ShellExact'
  <2>1. CASE running = Idle
    <3>1. Booting /\ Booting'
      BY <2>1, <1>1, <1>3, <1>4 DEF Booting, LoadSteps
    <3>2. Contents(q)' = Contents(q)
      BY <1>3
    <3> QED
      BY <2>1, <3>1, <3>2, <1>1, <1>4, <1>6, <1>9 DEF ShellExact
  <2>2. CASE running = Shell
    <3>1. ~Booting'
      BY <2>2, <1>3, Pointers DEF Booting
    <3> QED
      BY <2>2, <3>1, <1>2, <1>3, <1>6, <1>9, Pointers DEF ShellExact
  <2> QED
    BY <2>1, <2>2, <1>2
<1>15. LoaderExact'
  BY <1>1, <1>2, <1>3, <1>4, <1>5, <1>6, <1>8, <1>9, <1>10, <1>11
     DEF LoaderExact, LoadSteps, Loading, s0
<1>16. ResidentsExact'
  BY <1>1, <1>3, <1>4, <1>9, <1>11 DEF ResidentsExact, Ending
<1>17. MemoryExact'
  BY <1>1, <1>2, <1>3, <1>4, <1>5, <1>9, <1>11 DEF MemoryExact, Ending, Loading
<1>18. FramesExact'
  BY <1>1, <1>3, <1>4, <1>9, <1>11 DEF FramesExact
<1>19. ListExact'
  BY <1>2, <1>3, <1>6, <1>9, <1>10, Pointers DEF ListExact
<1>20. SleepExact'
  BY <1>1, <1>3, <1>4, <1>9 DEF SleepExact
<1> QED
  BY <1>12, <1>13, <1>14, <1>15, <1>16, <1>17, <1>18, <1>19, <1>20

\* The ready queue is a list; queueing a PCB and nothing else changes it.
LEMMA ReadyList ==
  ASSUME IInv
  PROVE  /\ IsList(q, Contents(q))
         /\ \A p \in Pcb : Queued(p) <=> In(p, Contents(q))
BY DEF IInv, ListExact, Typed, TypeOK, IsList, Queued, In

LEMMA AppendedPcb ==
  ASSUME IInv, NEW p \in Pcb, ~Queued(p), q' = AddToReady(q, p)
  PROVE  /\ q' \in Queue
         /\ Contents(q)' = Append(Contents(q), p)
         /\ Contents(q)' \in Seq(Pcb) /\ Contents(q)' # <<>>
         /\ Represents(q', Contents(q)') /\ NoDuplicates(Contents(q)')
         /\ \A r \in Pcb : Queued(r)' <=> Queued(r) \/ r = p
         /\ ~AddFaults(q)
         /\ Contents(q) # <<>> =>
              /\ Contents(q)'[1] = Contents(q)[1]
              /\ \A r \in Pcb : ~Queued(r) => q'.next[r] = q.next[r]
<1> DEFINE s == Contents(q)
           t == Append(s, p)
<1>1. IsList(q, s) /\ \A r \in Pcb : Queued(r) <=> In(r, s)
  BY ReadyList
<1>2. ~In(p, s)
  BY <1>1
<1> HIDE DEF s
<1>3. /\ IsList(q', t) /\ ~AddFaults(q) /\ t # <<>>
      /\ \A r : In(r, t) <=> In(r, s) \/ r = p
      /\ s # <<>> =>
           /\ t[1] = s[1]
           /\ \A r \in Pcb : ~In(r, s) => q'.next[r] = q.next[r]
  BY <1>1, <1>2, Added
<1>4. Contents(q)' = t
  BY <1>3 DEF IsList
<1>5. \A r \in Pcb : Queued(r)' <=> In(r, t)
  BY <1>4 DEF Queued, In
<1> HIDE DEF t
<1>6. /\ q' \in Queue /\ t \in Seq(Pcb)
      /\ Represents(q', t) /\ NoDuplicates(t)
  BY <1>3 DEF IsList
<1> QED
  BY <1>1, <1>3, <1>4, <1>5, <1>6 DEF s, t

\* The new process is queued: the load is over, and the segment is its own.
LEMMA PublishPcbKeeps ==
  ASSUME IInv, PublishPcb
  PROVE  IInv'
<1> USE DEF IInv
<1>1. cpu.pc = "publish" /\ irq = Off /\ cpu \in ThreadType
  BY DEF PublishPcb, At, Typed
<1>2. /\ running \in {Idle, Shell} /\ Loader = cpu
      /\ running = Idle => cpu.ss = KernelSegment
      /\ running = Shell => state[Shell] = "RUNNING"
      /\ running # Idle => ~Booting
      /\ running = Idle => ~timerOn
  BY <1>1, LoadStep DEF LoadSteps
<1> DEFINE p0 == cpu.proc
<1>3. /\ UNCHANGED <<state, name, segment, sleepCounter, memoryMap, running,
                     image, saved, timerOn, irq, owed>>
      /\ q' = AddToReady(q, p0)
      /\ wild' = AddFaults(q)
  BY DEF PublishPcb, pcbVars, swapVars
<1>4. /\ cpu' \in ThreadType
      /\ cpu'.pc = "initFrame" /\ cpu'.file = cpu.file /\ cpu'.ss = cpu.ss
      /\ cpu'.seg = cpu.seg /\ cpu'.proc = p0
  BY <1>1, GotoFields DEF PublishPcb, Pcs
<1>5. Loader' = cpu'
  BY <1>2, <1>3 DEF Loader, ThreadOf
<1>6. /\ p0 \in Pcb /\ p0 # running /\ state[p0] = "STARTING"
      /\ p0 = Shell <=> running = Idle
      /\ ~Queued(p0) /\ cpu.seg \in Segs
      /\ cpu.file \in IF running = Idle THEN {"shell"} ELSE Files \cap Names
      /\ image[cpu.seg] = cpu.file /\ memoryMap[cpu.seg] = "USED"
      /\ segment[p0] = SegmentOf(cpu.seg) /\ name[p0] = cpu.file
      /\ \A p \in Pcb : Exists(p) => segment[p] # SegmentOf(cpu.seg)
  BY <1>1, <1>2 DEF LoaderExact, LoadSteps, Loading
<1> HIDE DEF p0
<1>7. /\ q' \in Queue
      /\ Contents(q)' \in Seq(Pcb)
      /\ Represents(q', Contents(q)') /\ NoDuplicates(Contents(q)')
      /\ \A r \in Pcb : Queued(r)' <=> Queued(r) \/ r = p0
      /\ ~AddFaults(q)
  BY <1>3, <1>6, AppendedPcb
<1>8. \A p \in Pcb : Exists(p)' <=> Exists(p) \/ p = p0
  BY <1>3, <1>6, <1>7 DEF Exists
<1>9. \A p \in Pcb : ~Ending(p) /\ ~Ending(p)'
  BY <1>1, <1>4 DEF Ending
<1>10. Typed'
  <2>1. wild' = FALSE
    BY <1>3, <1>7 DEF AddFaults
  <2> QED
    BY <2>1, <1>3, <1>4, <1>7 DEF Typed, TypeOK
<1>11. ProcessorExact'
  BY <1>1, <1>2, <1>3, <1>4, <1>6, Pointers DEF ProcessorExact, LoadSteps
<1>12. ShellExact'
  <2>1. ~Booting'
    BY <1>4 DEF Booting, LoadSteps
  <2> QED
    BY <2>1, <1>2, <1>3, <1>6, <1>7, Pointers DEF ShellExact
<1>13. LoaderExact'
  BY <1>1, <1>2, <1>3, <1>4, <1>5, <1>6, <1>7, <1>8
     DEF LoaderExact, LoadSteps, Loading
<1>14. ResidentsExact'
  <2>1. name[p0] \in Programs(p0)
    BY <1>2, <1>6 DEF Programs
  <2> QED
    BY <2>1, <1>3, <1>6, <1>8, <1>9 DEF ResidentsExact
<1>15. MemoryExact'
  BY <1>1, <1>2, <1>3, <1>4, <1>5, <1>6, <1>8, <1>9 DEF MemoryExact, Loading
<1>16. FramesExact'
  BY <1>1, <1>3, <1>4, <1>8 DEF FramesExact
<1>17. ListExact'
  BY <1>2, <1>3, <1>6, <1>7, Pointers DEF ListExact
<1>18. SleepExact'
  BY <1>1, <1>3, <1>4 DEF SleepExact
<1> QED
  BY <1>10, <1>11, <1>12, <1>13, <1>14, <1>15, <1>16, <1>17, <1>18

\* The frame that starts the program is on the stack of the new process.
LEMMA InitializeProgramKeeps ==
  ASSUME IInv, InitializeProgram
  PROVE  IInv'
<1> USE DEF IInv
<1>1. cpu.pc = "initFrame" /\ irq = Off /\ cpu \in ThreadType
  BY DEF InitializeProgram, At, Typed
<1>2. /\ running \in {Idle, Shell} /\ Loader = cpu
      /\ running = Idle => cpu.ss = KernelSegment
      /\ running = Shell => state[Shell] = "RUNNING"
      /\ running # Idle => ~Booting
      /\ running = Idle => ~timerOn
  BY <1>1, LoadStep DEF LoadSteps
<1> DEFINE p0 == cpu.proc
           s0 == SegmentOf(cpu.seg)
<1>3. /\ UNCHANGED <<state, name, segment, sleepCounter, q, memoryMap, running,
                     image, timerOn, irq, wild, owed>>
      /\ saved' = [saved EXCEPT ![p0] = Thread(s0, "user")]
  BY DEF InitializeProgram, pcbVars
<1>4. running = Shell => cpu.ss # KernelSegment
  BY <1>1, LoadStep DEF LoadSteps
<1>5. /\ cpu' \in ThreadType /\ cpu'.ss = cpu.ss
      /\ cpu'.pc = IF running = Idle THEN "installTimer" ELSE "user"
  BY <1>1, <1>2, <1>4, ReturnFields DEF InitializeProgram
<1>6. Loader' = cpu'
  BY <1>2, <1>3 DEF Loader, ThreadOf
<1>7. /\ p0 \in Pcb /\ p0 # running
      /\ p0 = Shell <=> running = Idle
      /\ cpu.seg \in Segs /\ segment[p0] = s0
  BY <1>1, <1>2 DEF LoaderExact, LoadSteps
<1>8. /\ Thread(s0, "user") \in ThreadType
      /\ Thread(s0, "user").ss = s0 /\ Thread(s0, "user").pc = "user"
  <2>1. s0 \in Int
    BY <1>7, SegmentNumber
  <2> QED
    BY <2>1, ThreadFields DEF Pcs
<1> HIDE DEF p0, s0
<1>9. \A p \in Pcb : saved'[p] = IF p = p0 THEN Thread(s0, "user") ELSE saved[p]
  BY <1>3, <1>7 DEF Typed, TypeOK
<1>10. Typed'
  BY <1>3, <1>5, <1>7, <1>8 DEF Typed, TypeOK
<1>11. ProcessorExact'
  BY <1>1, <1>2, <1>3, <1>5, Pointers DEF ProcessorExact, LoadSteps
<1>12. ShellExact'
  <2>1. ~Booting /\ ~Booting'
    BY <1>1, <1>5 DEF Booting, LoadSteps
  <2> QED
    BY <2>1, <1>3, Pointers, QueueSame DEF ShellExact
<1>13. LoaderExact'
  BY <1>1, <1>2, <1>3, <1>5, <1>6, QueueSame DEF LoaderExact, LoadSteps, Loading
<1>14. ResidentsExact'
  BY <1>1, <1>3, <1>5, ExistsSame DEF ResidentsExact, Ending
<1>15. MemoryExact'
  BY <1>1, <1>2, <1>3, <1>5, <1>6, ExistsSame DEF MemoryExact, Ending, Loading
<1>16. FramesExact'
  BY <1>1, <1>2, <1>3, <1>5, <1>7, <1>8, <1>9, Pointers, ExistsSame
     DEF FramesExact, p0
<1>17. ListExact'
  BY <1>3, QueueSame DEF ListExact
<1>18. SleepExact'
  BY <1>1, <1>3, <1>5 DEF SleepExact
<1> QED
  BY <1>10, <1>11, <1>12, <1>13, <1>14, <1>15, <1>16, <1>17, <1>18

-----------------------------------------------------------------------------
(* The calls of the other programs keep the invariant.  The load of the    *)
(* shell, if one is under way, goes on where its frame says.               *)

\* While a program other than the shell runs the shell waits in the queue.
LEMMA NotTheShell ==
  ASSUME IInv, running \in Pcb, running # Shell
  PROVE  /\ Loader = saved[Shell] /\ ~Booting
         /\ Queued(Shell) /\ Contents(q) # <<>>
         /\ \A p \in Pcb : Queued(p) => p # running
         /\ Exists(Shell)
<1> USE DEF IInv
<1>1. Loader = saved[Shell] /\ ~Booting
  BY Pointers DEF Loader, ThreadOf, Booting
<1>2. Queued(Shell) /\ state[Shell] \in {"READY", "STARTING", "RUNNING"}
  BY <1>1, Pointers DEF ShellExact
<1>3. Contents(q) # <<>>
  BY <1>2 DEF Queued
<1>4. \A p \in Pcb : Queued(p) => p # running
  BY Pointers DEF ListExact, ProcessorExact
<1> QED
  BY <1>1, <1>2, <1>3, <1>4 DEF Exists

\* Nobody yields or kills.
LEMMA NeverCalled ==
  ASSUME IInv
  PROVE  ~Yield /\ (\A i : ~KillNone(i) /\ ~Kill(i)) /\ ~KillPcb
<1>1. ~Invokes("yield") /\ ~Invokes("kill")
  BY Caller
<1>2. cpu.pc # "killPcb"
  BY DEF IInv, ProcessorExact, Typed, TypeOK, LoadSteps
<1> QED
  BY <1>1, <1>2 DEF Yield, KillNone, Kill, KillPcb, At

\* The segment of the process becomes FREE; it was nobody else's.
LEMMA TerminateKeeps ==
  ASSUME IInv, Terminate
  PROVE  IInv'
<1> USE DEF IInv
<1>1. /\ cpu.pc = "user" /\ irq = Off /\ cpu \in ThreadType
      /\ running \in Pcb /\ running # Shell /\ state[running] = "RUNNING"
  BY Caller DEF Terminate, Typed
<1>2. PICK i \in Segs : segment[running] = SegmentOf(i)
  BY Caller DEF Terminate
<1>3. UNCHANGED <<state, name, segment, sleepCounter, q, running, image, saved,
                  timerOn, irq, owed>>
  BY DEF Terminate, pcbVars, swapVars
<1>4. /\ i \in 0 .. 7 /\ IndexOf(segment[running]) = i
  BY <1>2, SegsAssumption, SegmentNumber
<1>5. /\ wild' = FALSE
      /\ memoryMap' = [j \in 0 .. 7 |-> IF j = i THEN "FREE" ELSE memoryMap[j]]
  BY <1>4 DEF Terminate, FreeSegment
<1>6. /\ cpu' \in ThreadType
      /\ cpu'.pc = "releasePcb" /\ cpu'.ss = cpu.ss
  BY <1>1, GotoFields DEF Terminate, Pcs
<1>7. Loader = saved[Shell] /\ Loader' = Loader /\ ~Booting /\ ~Booting'
  BY <1>1, <1>3, NotTheShell, Pointers DEF Loader, ThreadOf, Booting
<1>8. memoryMap \in [0 .. 7 -> {"FREE", "USED"}]
  BY DEF Typed, TypeOK
<1>9. \A j \in 0 .. 7 : memoryMap'[j] = IF j = i THEN "FREE" ELSE memoryMap[j]
  BY <1>5
<1>10. Exists(running)
  BY <1>1 DEF Exists
<1>11. \A p \in Pcb : ~Ending(p) /\ (Ending(p)' <=> p = running)
  BY <1>1, <1>3, <1>6 DEF Ending
<1>12. Segs \subseteq 0 .. 7
  BY SegsAssumption
<1>13. Typed'
  BY <1>3, <1>5, <1>6, <1>8 DEF Typed, TypeOK
<1>14. ProcessorExact'
  BY <1>1, <1>3, <1>6, Pointers DEF ProcessorExact, LoadSteps
<1>15. ShellExact'
  BY <1>3, <1>7, Pointers, QueueSame DEF ShellExact
<1>16. LoaderExact'
  <2>1. ASSUME Loader.pc \in Loading
        PROVE  Loader.seg # i
    BY <2>1, <1>1, <1>2, <1>10 DEF LoaderExact, Loading
  <2>2. UNCHANGED <<state, name, segment, saved, running, image>>
    BY <1>3
  <2> QED
    BY <2>1, <2>2, <1>3, <1>7, <1>9, <1>12, QueueSame, ExistsSame
       DEF LoaderExact, LoadSteps, Loading
<1>17. ResidentsExact'
  <2>1. ASSUME NEW p \in Pcb, Exists(p)
        PROVE  \E j \in Segs : /\ segment[p] = SegmentOf(j)
                               /\ image[j] = name[p]
                               /\ memoryMap'[j] = IF p = running THEN "FREE"
                                                                 ELSE "USED"
    <3>1. PICK j \in Segs : /\ segment[p] = SegmentOf(j)
                            /\ image[j] = name[p]
                            /\ memoryMap[j] = "USED"
      BY <2>1, <1>11 DEF ResidentsExact
    <3>2. p = running <=> j = i
      BY <3>1, <2>1, <1>1, <1>2, <1>10, SegmentsDiffer DEF ResidentsExact
    <3> QED
      BY <3>1, <3>2, <1>9, <1>12
  <2> QED
    BY <2>1, <1>3, <1>11, ExistsSame DEF ResidentsExact
<1>18. MemoryExact'
  <2>1. ASSUME NEW j \in Segs, memoryMap'[j] = "USED"
        PROVE  \/ Loader.pc \in Loading /\ Loader.seg = j
               \/ \E p \in Pcb : /\ Exists(p) /\ segment[p] = SegmentOf(j)
                                 /\ p # running
    <3>1. j # i /\ memoryMap[j] = "USED"
      BY <2>1, <1>9, <1>12
    <3>2. CASE \E p \in Pcb : Exists(p) /\ segment[p] = SegmentOf(j)
      BY <3>1, <3>2, <1>2, SegmentsDiffer
    <3> QED
      BY <3>1, <3>2 DEF MemoryExact
  <2>2. \A j \in (0 .. 7) \ Segs : memoryMap'[j] = "USED"
    BY <1>9 DEF MemoryExact
  <2> QED
    BY <2>1, <2>2, <1>3, <1>7, <1>11, ExistsSame DEF MemoryExact
<1>19. FramesExact'
  BY <1>1, <1>3, <1>6, ExistsSame DEF FramesExact
<1>20. ListExact'
  BY <1>3, QueueSame DEF ListExact
<1>21. SleepExact'
  BY <1>1, <1>3, <1>6 DEF SleepExact
<1> QED
  BY <1>13, <1>14, <1>15, <1>16, <1>17, <1>18, <1>19, <1>20, <1>21

\* The process is not queued, and its stale link leads to the head of the
\* list: releasePCB leaves the list as it is.
LEMMA ReleaseRunningKeeps ==
  ASSUME IInv, ReleaseRunning
  PROVE  IInv'
<1> USE DEF IInv
<1>1. /\ cpu.pc = "releasePcb" /\ irq = Off /\ cpu \in ThreadType
      /\ running \in Pcb /\ running # Shell /\ state[running] = "RUNNING"
  BY DEF ReleaseRunning, At, ProcessorExact, Typed, TypeOK, LoadSteps
<1>2. /\ UNCHANGED <<segment, sleepCounter, memoryMap, running, image, saved,
                     timerOn, irq, wild, owed>>
      /\ state' = [state EXCEPT ![running] = "DEFUNCT"]
      /\ name' = [name EXCEPT ![running] = NULL]
      /\ q' = ReleaseLinks(q, running)
      /\ cpu' = Thread(cpu.ss, "spin")
  BY DEF ReleaseRunning, swapVars
<1>3. /\ cpu' \in ThreadType
      /\ cpu'.pc = "spin" /\ cpu'.ss = cpu.ss
  <2>1. cpu.ss \in Int
    BY <1>1 DEF ThreadType
  <2> QED
    BY <2>1, <1>2, ThreadFields DEF Pcs
<1>4. /\ Loader = saved[Shell] /\ Loader' = Loader /\ ~Booting /\ ~Booting'
      /\ Contents(q) # <<>>
      /\ ~Queued(running)
  BY <1>1, <1>2, NotTheShell, Pointers DEF Loader, ThreadOf, Booting
<1>5. IsList(q', Contents(q))
  <2> DEFINE s == Contents(q)
  <2>1. IsList(q, s) /\ ~In(running, s)
    BY <1>1, <1>4, ReadyList
  <2>2. q.next[running] = s[1]
    BY <1>1 DEF ListExact
  <2>3. s # <<>>
    BY <1>4
  <2> HIDE DEF s
  <2>4. IsList(q', s)
    BY <1>1, <1>2, <2>1, <2>2, <2>3, Kept
  <2> QED
    BY <2>4 DEF s
<1>6. Contents(q)' = Contents(q) /\ q' \in Queue
  BY <1>5 DEF IsList
<1>7. \A p \in Pcb : Queued(p)' <=> Queued(p)
  BY <1>6 DEF Queued
<1>8. \A p \in Pcb :
        /\ state'[p] = IF p = running THEN "DEFUNCT" ELSE state[p]
        /\ p # running => name'[p] = name[p]
  BY <1>1, <1>2 DEF Typed, TypeOK
<1>9. \A p \in Pcb : Exists(p)' <=> Exists(p) /\ p # running
  BY <1>7, <1>8 DEF Exists
<1>10. \A p \in Pcb : (Ending(p) <=> p = running) /\ ~Ending(p)'
  BY <1>1, <1>3 DEF Ending
<1>11. Typed'
  BY <1>2, <1>3, <1>6 DEF Typed, TypeOK
<1>12. ProcessorExact'
  BY <1>1, <1>2, <1>3, <1>8, Pointers DEF ProcessorExact, LoadSteps
<1>13. ShellExact'
  BY <1>1, <1>2, <1>4, <1>7, <1>8, Pointers DEF ShellExact
<1>14. LoaderExact'
  <2>1. Loader.pc \in {"takePcb", "initPcb", "publish", "initFrame"} =>
          Loader.proc \in Pcb /\ Loader.proc # running
    BY DEF LoaderExact
  <2> QED
    BY <2>1, <1>1, <1>2, <1>4, <1>7, <1>8, <1>9
       DEF LoaderExact, LoadSteps, Loading
<1>15. ResidentsExact'
  BY <1>2, <1>8, <1>9, <1>10 DEF ResidentsExact
<1>16. MemoryExact'
  BY <1>2, <1>4, <1>9, <1>10 DEF MemoryExact
<1>17. FramesExact'
  BY <1>1, <1>2, <1>3, <1>9 DEF FramesExact
<1>18. ListExact'
  <2>1. Represents(q', Contents(q))
    BY <1>5 DEF IsList
  <2> QED
    BY <2>1, <1>1, <1>2, <1>4, <1>6, <1>7, <1>8 DEF ListExact
<1>19. SleepExact'
  BY <1>1, <1>2, <1>3, <1>8 DEF SleepExact
<1> QED
  BY <1>11, <1>12, <1>13, <1>14, <1>15, <1>16, <1>17, <1>18, <1>19

LEMMA SleepKeeps ==
  ASSUME IInv, NEW n \in SleepArgs, Sleep(n)
  PROVE  IInv'
<1> USE DEF IInv
<1>1. /\ cpu.pc = "user" /\ irq = Off /\ cpu \in ThreadType
      /\ running \in Pcb /\ running # Shell /\ state[running] = "RUNNING"
  BY Caller DEF Sleep, Typed
<1>2. /\ UNCHANGED <<name, segment, sleepCounter, q, memoryMap, running, image,
                     saved, timerOn, irq, wild>>
      /\ state' = [state EXCEPT ![running] = "SLEEPING"]
      /\ owed' = [owed EXCEPT ![running] = n * TicksPerSecond]
  BY DEF Sleep, swapVars
<1>3. /\ cpu' \in ThreadType
      /\ cpu'.pc = "setCounter" /\ cpu'.ss = cpu.ss /\ cpu'.secs = n
  BY <1>1 DEF Sleep, ThreadType
<1>4. /\ Loader = saved[Shell] /\ Loader' = Loader /\ ~Booting /\ ~Booting'
      /\ ~Queued(running)
  BY <1>1, <1>2, NotTheShell, Pointers DEF Loader, ThreadOf, Booting
<1>5. \A p \in Pcb :
        /\ state'[p] = IF p = running THEN "SLEEPING" ELSE state[p]
        /\ owed'[p] = IF p = running THEN n * TicksPerSecond ELSE owed[p]
  BY <1>1, <1>2 DEF Typed, TypeOK
<1>6. n * TicksPerSecond \in Nat
  BY SleepAssumption
<1>7. \A p \in Pcb : Queued(p)' <=> Queued(p)
  BY <1>2, QueueSame
<1>8. \A p \in Pcb : Exists(p)' <=> Exists(p)
  BY <1>1, <1>5, <1>7 DEF Exists
<1>9. \A p \in Pcb : ~Ending(p) /\ ~Ending(p)'
  BY <1>1, <1>3 DEF Ending
<1>10. Typed'
  BY <1>2, <1>3, <1>6 DEF Typed, TypeOK
<1>11. ProcessorExact'
  BY <1>1, <1>2, <1>3, <1>5, Pointers DEF ProcessorExact, LoadSteps
<1>12. ShellExact'
  BY <1>1, <1>2, <1>4, <1>5, <1>7, Pointers DEF ShellExact
<1>13. LoaderExact'
  <2>1. Loader.pc \in {"takePcb", "initPcb", "publish", "initFrame"} =>
          Loader.proc \in Pcb /\ Loader.proc # running
    BY DEF LoaderExact
  <2> QED
    BY <2>1, <1>1, <1>2, <1>4, <1>5, <1>7, <1>8
       DEF LoaderExact, LoadSteps, Loading
<1>14. ResidentsExact'
  BY <1>2, <1>8, <1>9 DEF ResidentsExact
<1>15. MemoryExact'
  BY <1>2, <1>4, <1>8, <1>9 DEF MemoryExact
<1>16. FramesExact'
  BY <1>1, <1>2, <1>3, <1>8 DEF FramesExact
<1>17. ListExact'
  BY <1>1, <1>2, <1>4, <1>5, <1>7 DEF ListExact
<1>18. SleepExact'
  BY <1>1, <1>2, <1>3, <1>5 DEF SleepExact
<1> QED
  BY <1>10, <1>11, <1>12, <1>13, <1>14, <1>15, <1>16, <1>17, <1>18

\* The counter is what the sleeper is owed: the product fits.
LEMMA SetCounterKeeps ==
  ASSUME IInv, SetCounter
  PROVE  IInv'
<1> USE DEF IInv
<1>1. /\ cpu.pc = "setCounter" /\ irq = Off /\ cpu \in ThreadType
      /\ running \in Pcb /\ running # Shell /\ state[running] = "SLEEPING"
      /\ cpu.secs \in SleepArgs
      /\ owed[running] = cpu.secs * TicksPerSecond
  BY DEF SetCounter, At, ProcessorExact, Typed, TypeOK, LoadSteps
<1> DEFINE ticks == cpu.secs * TicksPerSecond
<1>2. ticks \in Int /\ ticks >= 2 /\ ticks <= 32767
  <2>1. PICK n \in SleepArgs : n = cpu.secs
    BY <1>1
  <2>2. n \in Nat /\ TicksPerSecond \in Nat
    BY SleepAssumption
  <2>3. 2 <= n * TicksPerSecond /\ n * TicksPerSecond <= 32767
    BY SleepAssumption
  <2>4. n * TicksPerSecond \in Int
    BY <2>2
  <2>5. ticks = n * TicksPerSecond
    BY <2>1
  <2> QED
    BY <2>3, <2>4, <2>5
<1>3. ToInt16(ticks) = ticks /\ ticks \in Int16
  <2> HIDE DEF ticks
  <2> QED
    BY <1>2, Fits, Width
<1>4. /\ UNCHANGED <<state, name, segment, q, memoryMap, running, image, saved,
                     timerOn, irq, wild, owed>>
      /\ sleepCounter' = [sleepCounter EXCEPT ![running] = ticks]
  BY <1>3 DEF SetCounter, swapVars
<1>5. owed[running] = ticks
  BY <1>1
<1> HIDE DEF ticks
<1>6. /\ cpu' \in ThreadType
      /\ cpu'.pc = "int8" /\ cpu'.ss = cpu.ss
  BY <1>1, GotoFields DEF SetCounter, Pcs
<1>7. Loader = saved[Shell] /\ Loader' = Loader /\ ~Booting /\ ~Booting'
  BY <1>1, <1>4, NotTheShell, Pointers DEF Loader, ThreadOf, Booting
<1>8. \A p \in Pcb :
        sleepCounter'[p] = IF p = running THEN ticks ELSE sleepCounter[p]
  BY <1>1, <1>4 DEF Typed, TypeOK
<1>9. \A p \in Pcb : ~Ending(p) /\ ~Ending(p)'
  BY <1>1, <1>6 DEF Ending
<1>10. Typed'
  BY <1>3, <1>4, <1>6 DEF Typed, TypeOK
<1>11. ProcessorExact'
  BY <1>1, <1>4, <1>6, Pointers DEF ProcessorExact, LoadSteps
<1>12. ShellExact'
  BY <1>4, <1>7, Pointers, QueueSame DEF ShellExact
<1>13. LoaderExact'
  BY <1>4, <1>7, QueueSame, ExistsSame DEF LoaderExact
<1>14. ResidentsExact'
  BY <1>4, <1>9, ExistsSame DEF ResidentsExact
<1>15. MemoryExact'
  BY <1>4, <1>7, <1>9, ExistsSame DEF MemoryExact
<1>16. FramesExact'
  BY <1>1, <1>4, <1>6, ExistsSame DEF FramesExact
<1>17. ListExact'
  BY <1>4, QueueSame DEF ListExact
<1>18. SleepExact'
  BY <1>1, <1>2, <1>4, <1>5, <1>6, <1>8 DEF SleepExact
<1> QED
  BY <1>10, <1>11, <1>12, <1>13, <1>14, <1>15, <1>16, <1>17, <1>18

LEMMA RaiseTimerKeeps ==
  ASSUME IInv, RaiseTimer
  PROVE  IInv'
<1> USE DEF IInv
<1>1. /\ cpu.pc = "int8" /\ irq = Off /\ cpu \in ThreadType
      /\ running \in Pcb /\ running # Shell
      /\ state[running] \in {"RUNNING", "SLEEPING"}
      /\ cpu.ss = segment[running]
  BY DEF RaiseTimer, At, ProcessorExact, Typed, TypeOK, LoadSteps
<1>2. /\ UNCHANGED <<state, name, segment, sleepCounter, q, memoryMap, running,
                     image, saved, timerOn, wild, owed>>
      /\ irq' = 0 /\ cpu' = Return(1)
  BY DEF RaiseTimer, pcbVars
<1>3. cpu.ss # KernelSegment
  <2>1. Exists(running)
    BY <1>1 DEF Exists
  <2>2. PICK i \in Segs : segment[running] = SegmentOf(i)
    BY <2>1, <1>1 DEF ResidentsExact
  <2> QED
    BY <1>1, <2>2, SegmentNumber
<1>4. cpu' \in ThreadType /\ cpu'.pc = "user" /\ cpu'.ss = cpu.ss
  BY <1>1, <1>2, <1>3, ReturnFields
<1>5. Loader = saved[Shell] /\ Loader' = Loader /\ ~Booting /\ ~Booting'
  BY <1>1, <1>2, NotTheShell, Pointers DEF Loader, ThreadOf, Booting
<1>6. \A p \in Pcb : ~Ending(p) /\ ~Ending(p)'
  BY <1>1, <1>4 DEF Ending
<1>7. 0 \in 0 .. NPcb /\ Pcb \subseteq Nat
  BY ConstantFacts
<1>8. Typed'
  BY <1>2, <1>4, <1>7 DEF Typed, TypeOK
<1>9. ProcessorExact'
  BY <1>1, <1>2, <1>4, Pointers DEF ProcessorExact, LoadSteps, Off
<1>10. ShellExact'
  BY <1>2, <1>5, Pointers, QueueSame DEF ShellExact
<1>11. LoaderExact'
  BY <1>2, <1>5, QueueSame, ExistsSame DEF LoaderExact
<1>12. ResidentsExact'
  BY <1>2, <1>6, ExistsSame DEF ResidentsExact
<1>13. MemoryExact'
  BY <1>2, <1>5, <1>6, ExistsSame DEF MemoryExact
<1>14. FramesExact'
  BY <1>1, <1>2, <1>4, ExistsSame DEF FramesExact
<1>15. ListExact'
  BY <1>2, QueueSame DEF ListExact
<1>16. SleepExact'
  BY <1>1, <1>2, <1>4, <1>7 DEF SleepExact, Off
<1> QED
  BY <1>8, <1>9, <1>10, <1>11, <1>12, <1>13, <1>14, <1>15, <1>16

-----------------------------------------------------------------------------
(* The steps of the timer keep the invariant.                              *)

\* Steps that only move the handler on.
LEMMA HandlerMoves ==
  ASSUME IInv,
         UNCHANGED <<state, name, segment, sleepCounter, q, memoryMap, running,
                     image, cpu, saved, timerOn, wild, owed>>,
         irq' \in 0 .. NPcb,
         running = Idle => timerOn,
         cpu.pc \in {"user", "spin"} \cup Windows,
         \A p \in Pcb : state[p] = "SLEEPING" /\ irq' <= p => irq <= p
  PROVE  IInv'
<1> USE DEF IInv
<1>1. Loader' = Loader /\ (Booting' <=> Booting)
  BY DEF Loader, ThreadOf, Booting
<1>2. \A p \in Pcb : Ending(p)' <=> Ending(p)
  BY DEF Ending
<1>3. irq' # Off
  <2>1. PICK n \in 0 .. NPcb : irq' = n
    OBVIOUS
  <2> QED
    BY <2>1, ConstantFacts DEF Off
<1>4. Typed'
  BY DEF Typed, TypeOK
<1>5. ProcessorExact'
  BY <1>3 DEF ProcessorExact
<1>6. ShellExact'
  BY <1>1, Pointers, QueueSame DEF ShellExact
<1>7. LoaderExact'
  BY <1>1, QueueSame, ExistsSame DEF LoaderExact
<1>8. ResidentsExact'
  BY <1>2, ExistsSame DEF ResidentsExact
<1>9. MemoryExact'
  BY <1>1, <1>2, ExistsSame DEF MemoryExact
<1>10. FramesExact'
  BY ExistsSame DEF FramesExact
<1>11. ListExact'
  BY QueueSame DEF ListExact
<1>12. SleepExact'
  BY DEF SleepExact
<1> QED
  BY <1>4, <1>5, <1>6, <1>7, <1>8, <1>9, <1>10, <1>11, <1>12

LEMMA TimerInterruptKeeps ==
  ASSUME IInv, TimerInterrupt
  PROVE  IInv'
<1>1. /\ UNCHANGED <<state, name, segment, sleepCounter, q, memoryMap, running,
                     image, cpu, saved, timerOn, wild, owed>>
      /\ irq = Off /\ irq' = 0 /\ timerOn
      /\ cpu.pc \in {"user", "spin"} \cup Windows
  BY DEF TimerInterrupt, pcbVars
<1>2. 0 \in 0 .. NPcb /\ \A p \in Pcb : Off <= p
  BY ConstantFacts DEF Off
<1> QED
  BY <1>1, <1>2, HandlerMoves

\* What the handler finds while it walks over the PCBs.
LEMMA HandlerRuns ==
  ASSUME IInv, irq # Off
  PROVE  /\ cpu.pc \in {"user", "spin"} \cup Windows
         /\ cpu.pc \notin {"boot", "initFrame", "releasePcb", "setCounter",
                           "garbage"}
         /\ running = Idle => timerOn /\ cpu.pc = "spin"
         /\ ~Booting
         /\ \A p \in Pcb : ~Ending(p)
<1> USE DEF IInv
<1>1. cpu.pc \in {"user", "spin"} \cup Windows
  BY DEF ProcessorExact
<1>2. cpu.pc \notin {"boot", "initFrame", "releasePcb", "setCounter", "garbage"}
  BY <1>1, WindowNames
<1>3. running = Idle => timerOn /\ cpu.pc = "spin"
  BY DEF ProcessorExact
<1> QED
  BY <1>1, <1>2, <1>3 DEF Booting, LoadSteps, Ending

LEMMA SkipPcbKeeps ==
  ASSUME IInv, SkipPcb
  PROVE  IInv'
<1>1. /\ UNCHANGED <<state, name, segment, sleepCounter, q, memoryMap, running,
                     image, cpu, saved, timerOn, wild, owed>>
      /\ irq \in Pcb /\ irq' = irq + 1 /\ state[irq] # "SLEEPING"
  BY DEF SkipPcb, InLoop, pcbVars
<1>2. irq \in 0 .. NPcb - 1 /\ NPcb \in Nat
  BY <1>1, ConstantFacts
<1>3. irq # Off /\ irq' \in 0 .. NPcb
  BY <1>1, <1>2 DEF Off
<1>4. /\ cpu.pc \in {"user", "spin"} \cup Windows
      /\ running = Idle => timerOn
  BY <1>3, HandlerRuns
<1>5. \A p \in Pcb : irq' <= p => irq <= p
  <2>1. \A p \in Pcb : p \in Int
    BY ConstantFacts
  <2> QED
    BY <2>1, <1>1, <1>2
<1> QED
  BY <1>1, <1>3, <1>4, <1>5, HandlerMoves

\* A sleeper whose counter is 1 wakes and is queued; it is not the process on
\* the processor, which has more left.
LEMMA CountDownKeeps ==
  ASSUME IInv, CountDown
  PROVE  IInv'
<1> USE DEF IInv
<1> DEFINE p0 == irq
           n == OneTickLess(irq)
<1>1. /\ UNCHANGED <<name, segment, memoryMap, running, image, cpu, saved,
                     timerOn>>
      /\ p0 \in Pcb /\ irq' = irq + 1 /\ state[p0] = "SLEEPING"
      /\ sleepCounter' = [sleepCounter EXCEPT ![p0] = n]
      /\ owed' = [owed EXCEPT ![p0] = IF @ > 0 THEN @ - 1 ELSE 0]
  BY DEF CountDown, InLoop
<1>2. irq \in 0 .. NPcb - 1 /\ NPcb \in Nat
  BY <1>1, ConstantFacts
<1>3. irq # Off /\ irq' \in 0 .. NPcb /\ irq' > irq /\ irq \in Int /\ irq' \in Int
  BY <1>1, <1>2 DEF Off
<1>4. irq' # Off
  BY <1>2, <1>3 DEF Off
<1>5. /\ cpu.pc \in {"user", "spin"} \cup Windows
      /\ cpu.pc \notin {"boot", "initFrame", "releasePcb", "setCounter"}
      /\ running = Idle => timerOn /\ cpu.pc = "spin"
      /\ ~Booting /\ ~Booting'
      /\ \A p \in Pcb : ~Ending(p) /\ ~Ending(p)'
  BY <1>1, <1>3, HandlerRuns DEF Booting, Ending
<1>6. /\ sleepCounter[p0] \in Int /\ sleepCounter[p0] > 0
      /\ sleepCounter[p0] <= 32767
      /\ owed[p0] = sleepCounter[p0]
      /\ p0 = running => sleepCounter[p0] >= 2
  <2>1. sleepCounter[p0] \in Int16
    BY <1>1 DEF Typed, TypeOK
  <2>2. /\ owed[p0] = sleepCounter[p0] /\ sleepCounter[p0] > 0
        /\ p0 = running => sleepCounter[p0] >= 2
    BY <1>1, <1>3, <1>5 DEF SleepExact
  <2> QED
    BY <2>1, <2>2, Width
<1>7. n = sleepCounter[p0] - 1 /\ n \in Int16 /\ n \in Int
  <2> DEFINE c == sleepCounter[p0] - 1
  <2>1. c \in Int /\ c >= -32768 /\ c <= 32767
    BY <1>6
  <2>2. n = ToInt16(c)
    BY DEF OneTickLess
  <2> HIDE DEF c, n
  <2>3. n = c /\ c \in Int16
    BY <2>1, <2>2, Fits, Width
  <2> QED
    BY <2>1, <2>3 DEF c
<1>8. \A p \in Pcb : p \in Int
  BY ConstantFacts
<1>9. \A p \in Pcb :
        /\ sleepCounter'[p] = IF p = p0 THEN n ELSE sleepCounter[p]
        /\ owed'[p] = IF p = p0 THEN n ELSE owed[p]
  <2> HIDE DEF n
  <2> QED
    BY <1>1, <1>6, <1>7 DEF Typed, TypeOK
<1>10. owed' \in [Pcb -> Nat]
  BY <1>1 DEF Typed, TypeOK
<1>11. sleepCounter' \in [Pcb -> Int16]
  <2> HIDE DEF n
  <2> QED
    BY <1>1, <1>7 DEF Typed, TypeOK
<1>12. Loader' = Loader
  BY <1>1 DEF Loader, ThreadOf
<1>13. CASE n <= 0
  <2>1. /\ state' = [state EXCEPT ![p0] = "READY"]
        /\ q' = AddToReady(q, p0)
        /\ wild' = AddFaults(q)
    BY <1>13 DEF CountDown
  <2>2. p0 # running /\ n = 0
    <3> HIDE DEF n
    <3> QED
      BY <1>6, <1>7, <1>13
  <2>3. ~Queued(p0) /\ Exists(p0) /\ p0 # Shell
    BY <1>1, <1>5 DEF ListExact, Exists, ShellExact
  <2> HIDE DEF n
  <2>4. /\ q' \in Queue
        /\ Contents(q)' \in Seq(Pcb)
        /\ Represents(q', Contents(q)') /\ NoDuplicates(Contents(q)')
        /\ \A r \in Pcb : Queued(r)' <=> Queued(r) \/ r = p0
        /\ ~AddFaults(q)
        /\ Contents(q) # <<>> =>
             /\ Contents(q)'[1] = Contents(q)[1]
             /\ \A r \in Pcb : ~Queued(r) => q'.next[r] = q.next[r]
    BY <1>1, <2>1, <2>3, AppendedPcb
  <2>5. \A p \in Pcb : state'[p] = IF p = p0 THEN "READY" ELSE state[p]
    BY <1>1, <2>1 DEF Typed, TypeOK
  <2>6. \A p \in Pcb : Exists(p)' <=> Exists(p)
    BY <1>1, <2>3, <2>4, <2>5 DEF Exists
  <2>7. Typed'
    <3>1. wild' = FALSE
      BY <2>1, <2>4 DEF AddFaults
    <3> QED
      BY <3>1, <1>1, <1>3, <1>10, <1>11, <2>1, <2>4 DEF Typed, TypeOK
  <2>8. ProcessorExact'
    BY <1>1, <1>4, <1>5, <2>2, <2>5, Pointers DEF ProcessorExact, LoadSteps
  <2>9. ShellExact'
    BY <1>1, <1>5, <2>3, <2>4, <2>5, Pointers DEF ShellExact
  <2>10. LoaderExact'
    BY <1>1, <1>12, <2>3, <2>4, <2>5, <2>6 DEF LoaderExact, LoadSteps, Loading
  <2>11. ResidentsExact'
    BY <1>1, <1>5, <2>6 DEF ResidentsExact
  <2>12. MemoryExact'
    BY <1>1, <1>5, <1>12, <2>6 DEF MemoryExact
  <2>13. FramesExact'
    BY <1>1, <1>5, <2>6 DEF FramesExact
  <2>14. ListExact'
    <3>1. ASSUME running \in Pcb \ {Shell}, state'[running] # "DEFUNCT"
          PROVE  q'.next[running] = Contents(q)'[1]
      <4>1. Contents(q) # <<>> /\ ~Queued(running)
        BY <3>1, NotTheShell
      <4>2. q.next[running] = Contents(q)[1]
        BY <3>1, <2>2, <2>5 DEF ListExact
      <4> QED
        BY <3>1, <4>1, <4>2, <2>4
    <3> QED
      BY <3>1, <1>1, <2>4, <2>5 DEF ListExact
  <2>15. SleepExact'
    BY <1>1, <1>3, <1>5, <1>8, <1>9, <2>2, <2>5 DEF SleepExact
  <2> QED
    BY <2>7, <2>8, <2>9, <2>10, <2>11, <2>12, <2>13, <2>14, <2>15
<1>14. CASE ~(n <= 0)
  <2>1. UNCHANGED <<state, q, wild>>
    BY <1>14 DEF CountDown
  <2>2. n > 0 /\ n \in Int
    <3> HIDE DEF n
    <3> QED
      BY <1>7, <1>14
  <2> HIDE DEF n
  <2>3. Typed'
    BY <1>1, <1>3, <1>10, <1>11, <2>1 DEF Typed, TypeOK
  <2>4. ProcessorExact'
    BY <1>1, <1>4, <1>5, <2>1, Pointers DEF ProcessorExact, LoadSteps
  <2>5. ShellExact'
    BY <1>1, <1>5, <2>1, Pointers, QueueSame DEF ShellExact
  <2>6. LoaderExact'
    BY <1>1, <1>12, <2>1, QueueSame, ExistsSame DEF LoaderExact
  <2>7. ResidentsExact'
    BY <1>1, <1>5, <2>1, ExistsSame DEF ResidentsExact
  <2>8. MemoryExact'
    BY <1>1, <1>5, <1>12, <2>1, ExistsSame DEF MemoryExact
  <2>9. FramesExact'
    BY <1>1, <1>5, <2>1, ExistsSame DEF FramesExact
  <2>10. ListExact'
    BY <1>1, <2>1, QueueSame DEF ListExact
  <2>11. SleepExact'
    BY <1>1, <1>3, <1>5, <1>8, <1>9, <2>1, <2>2 DEF SleepExact
  <2> QED
    BY <2>3, <2>4, <2>5, <2>6, <2>7, <2>8, <2>9, <2>10, <2>11
<1> QED
  BY <1>13, <1>14

\* The waiting processes with the interrupted one behind them, if it goes on.
Requeued ==
  IF running \in Pcb /\ state[running] = "RUNNING"
    THEN Append(Contents(q), running)
    ELSE Contents(q)

\* The switch as a step of the list: its head gets the processor.  The list
\* is not empty, because the shell is on it.
LEMMA SwitchFacts ==
  ASSUME IInv, SwitchProcess
  PROVE  /\ irq # Off /\ irq' = Off
         /\ UNCHANGED <<name, segment, sleepCounter, memoryMap, image, timerOn,
                        wild, owed>>
         /\ Requeued \in Seq(Pcb) /\ Requeued # <<>>
         /\ running' = Requeued[1] /\ running' \in Pcb
         /\ running' = running \/ Queued(running')
         /\ running' = running => state[running] = "RUNNING"
         /\ q' \in Queue /\ Contents(q)' = Tail(Requeued)
         /\ Contents(q)' \in Seq(Pcb)
         /\ Represents(q', Contents(q)') /\ NoDuplicates(Contents(q)')
         /\ \A p \in Pcb : Queued(p)' <=>
              /\ p # running'
              /\ Queued(p) \/ (p = running /\ state[running] = "RUNNING")
         /\ \A p \in Pcb : Queued(p)' => q'.next[running'] = Contents(q)'[1]
         /\ \A p \in Pcb : state'[p] =
              IF p = running' THEN "RUNNING"
              ELSE IF p = running /\ state[p] = "RUNNING" THEN "READY"
              ELSE state[p]
         /\ DOMAIN state' = Pcb
         /\ saved' = [saved EXCEPT ![running] = cpu]
         /\ cpu' = Restored(saved', running')
<1> USE DEF IInv
<1> DEFINE s == Contents(q)
           s1 == Requeued
           q1 == IF KeepsRunning THEN AddToReady(q, running) ELSE q
           keeps == running \in Pcb /\ state[running] = "RUNNING"
<1>1. /\ irq = NPcb /\ irq' = Off
      /\ UNCHANGED <<name, segment, sleepCounter, memoryMap, image, timerOn,
                     owed>>
      /\ q' = RemoveFromReady(q1)
      /\ wild' = ((KeepsRunning /\ AddFaults(q)) \/ RemoveFaults(q1))
      /\ running' = IF RemovedFromReady(q1) = NULL THEN Idle
                    ELSE RemovedFromReady(q1)
      /\ state' = [r \in Pcb |->
                     IF r = RemovedFromReady(q1) THEN "RUNNING"
                     ELSE IF r = running /\ KeepsRunning THEN "READY"
                     ELSE state[r]]
      /\ saved' = [saved EXCEPT ![running] = cpu]
      /\ cpu' = Restored(saved', running')
  BY DEF SwitchProcess
<1>2. irq # Off
  BY <1>1, ConstantFacts DEF Off
<1>3. running \in Pcb \cup {Idle}
  BY DEF Typed, TypeOK
<1>4. KeepsRunning <=> keeps
  <2>1. CASE keeps
    <3>1. Exists(running)
      BY <2>1 DEF Exists
    <3>2. name[running] \in Files
      BY <2>1, <3>1, FileNames DEF ResidentsExact, Programs
    <3> QED
      BY <2>1, <3>2, FileNames, Pointers DEF KeepsRunning
  <2>2. CASE ~keeps
    BY <2>2, <1>3 DEF KeepsRunning, ProcessorExact
  <2> QED
    BY <2>1, <2>2
<1>5. IsList(q, s) /\ \A r \in Pcb : Queued(r) <=> In(r, s)
  BY ReadyList
<1>6. keeps => ~In(running, s)
  BY <1>5 DEF ListExact
<1>7. keeps \/ s # <<>>
  <2>1. ~Booting
    BY <1>2, HandlerRuns
  <2>2. running # Shell => Queued(Shell)
    BY <2>1 DEF ShellExact
  <2>3. running = Shell => keeps
    BY <2>1, Pointers DEF ShellExact, ProcessorExact
  <2> QED
    BY <2>2, <2>3 DEF Queued
<1> HIDE DEF s, keeps
<1>8. /\ IsList(q1, s1) /\ s1 # <<>>
      /\ ~(KeepsRunning /\ AddFaults(q))
      /\ \A r \in Pcb : In(r, s1) <=> In(r, s) \/ (r = running /\ keeps)
  <2>1. CASE keeps
    <3>1. s1 = Append(s, running) /\ q1 = AddToReady(q, running)
      BY <2>1, <1>4 DEF Requeued, keeps, s
    <3>2. running \in Pcb
      BY <2>1 DEF keeps
    <3> HIDE DEF s1, q1
    <3> QED
      BY <2>1, <3>1, <3>2, <1>5, <1>6, Added
  <2>2. CASE ~keeps
    <3>1. s1 = s /\ q1 = q
      BY <2>2, <1>4 DEF Requeued, keeps, s
    <3> HIDE DEF s1, q1
    <3> QED
      BY <2>2, <3>1, <1>4, <1>5, <1>7
  <2> QED
    BY <2>1, <2>2
<1> HIDE DEF s1, q1
<1>9. /\ RemovedFromReady(q1) = s1[1] /\ s1[1] \in Pcb /\ In(s1[1], s1)
      /\ ~RemoveFaults(q1)
      /\ IsList(q', Tail(s1))
      /\ \A x : In(x, Tail(s1)) <=> In(x, s1) /\ x # s1[1]
      /\ \A x : In(x, Tail(s1)) => q'.next[s1[1]] = Tail(s1)[1]
  BY <1>1, <1>8, Taken
<1>10. running' = s1[1] /\ RemovedFromReady(q1) = running'
  BY <1>1, <1>9, Pointers
<1>11. wild' = FALSE
  BY <1>1, <1>8, <1>9 DEF RemoveFaults
<1>12. wild' = wild
  BY <1>11 DEF Typed, TypeOK
<1>13. Contents(q)' = Tail(s1)
  BY <1>9 DEF IsList
<1>14. \A p \in Pcb : Queued(p)' <=> In(p, Tail(s1))
  BY <1>13 DEF Queued, In
<1>15. /\ \A p \in Pcb : Queued(p)' <=>
              /\ p # running'
              /\ Queued(p) \/ (p = running /\ keeps)
       /\ \A p \in Pcb : Queued(p)' => q'.next[running'] = Tail(s1)[1]
  BY <1>5, <1>8, <1>9, <1>10, <1>14
<1>16. /\ running' \in Pcb
       /\ running' = running \/ Queued(running')
       /\ running' = running => keeps
  <2>1. In(running', s1)
    BY <1>9, <1>10
  <2>2. In(running', s) \/ (running' = running /\ keeps)
    BY <2>1, <1>8, <1>9, <1>10
  <2>3. running \in Pcb /\ Queued(running) => keeps
    BY DEF ListExact, ProcessorExact, keeps
  <2> QED
    BY <2>2, <2>3, <1>5, <1>9, <1>10
<1>17. \A p \in Pcb : state'[p] =
              IF p = running' THEN "RUNNING"
              ELSE IF p = running /\ state[p] = "RUNNING" THEN "READY"
              ELSE state[p]
  BY <1>1, <1>4, <1>10 DEF keeps
<1>18. /\ q' \in Queue /\ Tail(s1) \in Seq(Pcb) /\ s1 \in Seq(Pcb)
       /\ Represents(q', Tail(s1)) /\ NoDuplicates(Tail(s1))
  BY <1>8, <1>9 DEF IsList
<1>19. DOMAIN state' = Pcb
  BY <1>1
<1>20. /\ Requeued \in Seq(Pcb) /\ Requeued # <<>>
       /\ running' = Requeued[1]
       /\ Contents(q)' = Tail(Requeued)
  BY <1>8, <1>10, <1>13, <1>18 DEF s1
<1>21. \A p \in Pcb : Queued(p)' <=>
              /\ p # running'
              /\ Queued(p) \/ (p = running /\ state[running] = "RUNNING")
  BY <1>15 DEF keeps
<1>22. running' = running => state[running] = "RUNNING"
  BY <1>16 DEF keeps
<1> HIDE DEF s1
<1> QED
  BY <1>1, <1>2, <1>12, <1>13, <1>15, <1>16, <1>17, <1>18, <1>19, <1>20, <1>21,
     <1>22

\* The process that gets the processor has a frame on its own stack; the one
\* that loses it leaves its frame there.  The load of the shell goes on where
\* it was, wherever its thread is now.
LEMMA SwitchProcessKeeps ==
  ASSUME IInv, SwitchProcess
  PROVE  IInv'
<1> USE DEF IInv
<1>1. /\ irq # Off /\ irq' = Off
      /\ UNCHANGED <<name, segment, sleepCounter, memoryMap, image, timerOn,
                     wild, owed>>
      /\ running' \in Pcb
      /\ running' = running \/ Queued(running')
      /\ running' = running => state[running] = "RUNNING"
      /\ q' \in Queue
      /\ Contents(q)' \in Seq(Pcb)
      /\ Represents(q', Contents(q)') /\ NoDuplicates(Contents(q)')
      /\ \A p \in Pcb : Queued(p)' <=>
           /\ p # running'
           /\ Queued(p) \/ (p = running /\ state[running] = "RUNNING")
      /\ \A p \in Pcb : Queued(p)' => q'.next[running'] = Contents(q)'[1]
      /\ \A p \in Pcb : state'[p] =
           IF p = running' THEN "RUNNING"
           ELSE IF p = running /\ state[p] = "RUNNING" THEN "READY"
           ELSE state[p]
      /\ DOMAIN state' = Pcb
      /\ saved' = [saved EXCEPT ![running] = cpu]
      /\ cpu' = Restored(saved', running')
      /\ state' = [p \in Pcb |-> state'[p]]
  <2>1. state' = [p \in Pcb |-> state'[p]]
    BY DEF SwitchProcess
  <2> QED
    BY <2>1, SwitchFacts
<1>2. /\ cpu.pc \in {"user", "spin"} \cup Windows
      /\ cpu.pc \notin {"boot", "initFrame", "releasePcb", "setCounter",
                        "garbage"}
      /\ running = Idle => timerOn /\ cpu.pc = "spin"
      /\ ~Booting
      /\ \A p \in Pcb : ~Ending(p)
  BY <1>1, HandlerRuns
<1>3. /\ cpu \in ThreadType /\ saved \in [Pcb \cup {Idle} -> ThreadType]
      /\ running \in Pcb \cup {Idle}
  BY DEF Typed, TypeOK
<1>4. \A p \in Pcb : saved'[p] = IF p = running THEN cpu ELSE saved[p]
  BY <1>1, <1>3
<1>5. Exists(running')
  BY <1>1 DEF Exists, ListExact
<1>6. /\ cpu' = saved'[running'] /\ cpu'.ss = segment[running']
      /\ running' # running => cpu' = saved[running']
      /\ running' = running => cpu' = cpu
  <2>1. saved'[running'].ss = segment[running']
    <3>1. CASE running' = running
      BY <3>1, <1>1, <1>4 DEF ProcessorExact
    <3>2. CASE running' # running
      BY <3>2, <1>1, <1>2, <1>4, <1>5 DEF FramesExact
    <3> QED
      BY <3>1, <3>2
  <2>2. segment' = segment /\ running' # Idle
    BY <1>1, Pointers
  <2>3. cpu' = saved'[running']
    BY <2>1, <2>2, <1>1 DEF Restored, StackSegment
  <2> QED
    BY <2>1, <2>3, <1>1, <1>4
<1>7. /\ running' = Shell => cpu'.pc \in {"user"} \cup LoadSteps
      /\ running' # Shell => cpu'.pc \in {"user", "int8"}
      /\ cpu'.pc # "initFrame"
  <2>1. CASE running' = running
    <3>1. running \in Pcb /\ state[running] = "RUNNING" /\ cpu' = cpu
      BY <2>1, <1>1, <1>6
    <3> QED
      BY <2>1, <3>1, <1>2 DEF ProcessorExact, LoadSteps
  <2>2. CASE running' # running
    <3>1. cpu' = saved[running']
      BY <2>2, <1>6
    <3> QED
      BY <2>2, <3>1, <1>1, <1>2, <1>5 DEF FramesExact, LoadSteps
  <2> QED
    BY <2>1, <2>2
<1>8. \A p \in Pcb : Exists(p)' <=> Exists(p)
  BY <1>1 DEF Exists, ListExact
<1>9. \A p \in Pcb : ~Ending(p)'
  BY <1>7 DEF Ending, LoadSteps
<1>10. /\ Loader' = IF running = Idle THEN saved[Shell] ELSE Loader
       /\ Loader.pc # "initFrame" /\ Loader'.pc # "initFrame"
       /\ running = Idle => Loader.pc \notin LoadSteps /\ Loader'.pc = "user"
       /\ Loader.pc = Loader'.pc \/ running = Idle
  <2>1. Loader' = saved'[Shell]
    BY <1>1, <1>6, Pointers DEF Loader, ThreadOf
  <2>2. saved'[Shell] = IF running = Shell THEN cpu ELSE saved[Shell]
    BY <1>4, Pointers
  <2>3. ASSUME running # Shell
        PROVE  saved[Shell].pc # "initFrame"
    <3>1. Exists(Shell)
      BY <2>3, <1>2, Pointers DEF ShellExact, Exists
    <3> QED
      BY <2>3, <3>1, <1>2, Pointers DEF FramesExact, LoadSteps
  <2>4. ASSUME running = Idle
        PROVE  saved[Shell].pc = "user"
    <3>1. Exists(Shell)
      BY <2>4, <1>2, Pointers DEF ShellExact, Exists
    <3> QED
      BY <2>4, <3>1, <1>2, Pointers DEF FramesExact
  <2> QED
    BY <2>1, <2>2, <2>3, <2>4, <1>2, Pointers DEF Loader, ThreadOf, LoadSteps
<1>11. Typed'
  <2>1. cpu' \in ThreadType
    BY <1>1, <1>3, <1>6
  <2>2. saved' \in [Pcb \cup {Idle} -> ThreadType]
    BY <1>1, <1>3
  <2>3. state' \in [Pcb -> {"DEFUNCT", "RUNNING", "READY", "STARTING", "SLEEPING"}]
    BY <1>1 DEF Typed, TypeOK
  <2> QED
    BY <2>1, <2>2, <2>3, <1>1 DEF Typed, TypeOK
<1>12. ProcessorExact'
  <2>1. \A p \in Pcb : state'[p] = "RUNNING" => p = running'
    BY <1>1 DEF ProcessorExact
  <2>2. state'[running'] = "RUNNING" /\ running' # Idle
    BY <1>1, Pointers
  <2> QED
    BY <2>1, <2>2, <1>1, <1>6, <1>7 DEF ProcessorExact
<1>13. ShellExact'
  <2>1. ~Booting'
    BY <1>1, Pointers DEF Booting
  <2>2. /\ state[Shell] \in {"STARTING", "READY", "RUNNING"}
        /\ running # Shell => Queued(Shell)
        /\ running = Shell => state[Shell] = "RUNNING"
    BY <1>2, Pointers DEF ShellExact, ProcessorExact
  <2>3. /\ state'[Shell] \in {"STARTING", "READY", "RUNNING"}
        /\ running' # Shell => Queued(Shell)'
    BY <2>2, <1>1, Pointers
  <2> QED
    BY <2>1, <2>3 DEF ShellExact
<1>14. LoaderExact'
  <2>1. CASE running = Idle
    <3>1. \A p \in Pcb : ~(state'[p] = "STARTING" /\ ~Queued(p)')
      BY <2>1, <1>1, <1>10 DEF LoaderExact, LoadSteps
    <3> QED
      BY <2>1, <3>1, <1>10 DEF LoaderExact, LoadSteps, Loading
  <2>2. CASE running # Idle
    <3>1. Loader' = Loader
      BY <2>2, <1>10
    <3>2. Loader.pc \in {"takePcb", "initPcb", "publish", "initFrame"} =>
            /\ Loader.proc \in Pcb /\ Loader.proc # running
            /\ Loader.proc # Shell
            /\ ~Queued(Loader.proc)
            /\ Loader.proc # running'
      <4>1. SUFFICES ASSUME Loader.pc \in {"takePcb", "initPcb", "publish"}
                     PROVE  /\ Loader.proc \in Pcb /\ Loader.proc # running
                            /\ Loader.proc # Shell
                            /\ ~Queued(Loader.proc)
                            /\ Loader.proc # running'
        BY <1>10
      <4>2. /\ Loader.proc \in Pcb /\ Loader.proc # running
            /\ Loader.proc # Shell
        BY <4>1, <2>2 DEF LoaderExact
      <4>3. ~Queued(Loader.proc)
        BY <4>1, <4>2 DEF LoaderExact, ListExact
      <4> QED
        BY <4>2, <4>3, <1>1
    <3>3. running' # Idle
      BY <1>1, Pointers
    <3>4. \A p \in Pcb : state'[p] = "STARTING" /\ ~Queued(p)'
                           => state[p] = "STARTING" /\ ~Queued(p)
      BY <1>1
    <3> QED
      BY <2>2, <3>1, <3>2, <3>3, <3>4, <1>1, <1>4, <1>8, <1>10
         DEF LoaderExact, LoadSteps, Loading
  <2> QED
    BY <2>1, <2>2
<1>15. ResidentsExact'
  BY <1>1, <1>2, <1>8, <1>9 DEF ResidentsExact
<1>16. MemoryExact'
  BY <1>1, <1>2, <1>8, <1>9, <1>10 DEF MemoryExact, Loading, LoadSteps
<1>17. FramesExact'
  <2>1. ASSUME NEW p \in Pcb, Exists(p), p # running'
        PROVE  /\ saved'[p].ss = segment[p]
               /\ saved'[p].pc \in IF p # Shell THEN {"user", "int8"}
                                   ELSE {"user"} \cup (LoadSteps \ {"initFrame"})
    <3>1. CASE p = running
      <4>1. saved'[p] = cpu
        BY <3>1, <1>4
      <4>2. cpu.ss = segment[p]
        BY <3>1 DEF ProcessorExact
      <4>3. cpu.pc \in IF p # Shell THEN {"user", "int8"}
                       ELSE {"user"} \cup (LoadSteps \ {"initFrame"})
        BY <2>1, <3>1, <1>2 DEF ProcessorExact, LoadSteps, Exists
      <4> QED
        BY <4>1, <4>2, <4>3
    <3>2. CASE p # running
      BY <2>1, <3>2, <1>2, <1>4 DEF FramesExact
    <3> QED
      BY <3>1, <3>2
  <2>2. running' # Idle
    BY <1>1, Pointers
  <2> QED
    BY <2>1, <2>2, <1>1, <1>8 DEF FramesExact
<1>18. ListExact'
  <2>1. ASSUME running' # Shell
        PROVE  q'.next[running'] = Contents(q)'[1]
    <3>1. Queued(Shell)'
      BY <2>1, <1>1, <1>2, Pointers DEF ShellExact, ProcessorExact
    <3> QED
      BY <3>1, <1>1, Pointers
  <2>2. \A p \in Pcb : state'[p] = "READY" => Queued(p)'
    BY <1>1 DEF ListExact
  <2>3. \A p \in Pcb : Queued(p)' => state'[p] \in {"READY", "STARTING"}
    BY <1>1 DEF ListExact
  <2> QED
    BY <2>1, <2>2, <2>3, <1>1 DEF ListExact
<1>19. SleepExact'
  BY <1>1, <1>2, <1>7 DEF SleepExact, LoadSteps
<1> QED
  BY <1>11, <1>12, <1>13, <1>14, <1>15, <1>16, <1>17, <1>18, <1>19

-----------------------------------------------------------------------------
(* The invariant.                                                          *)

LEMMA EmptyList ==
  /\ EmptyQueue \in Queue /\ Represents(EmptyQueue, <<>>)
  /\ NoDuplicates(<<>>) /\ Contents(EmptyQueue) = <<>>
<1>1. EmptyQueue \in Queue
  BY DEF EmptyQueue, Queue, PcbPtr
<1>2. /\ <<>> \in Seq(Pcb)
      /\ Represents(EmptyQueue, <<>>) /\ NoDuplicates(<<>>)
  BY DEF EmptyQueue, Represents, NoDuplicates
<1> QED
  BY <1>1, <1>2, ContentsOfList, ConstantFacts

LEMMA InitIInv == Init => IInv
<1> SUFFICES ASSUME Init PROVE IInv
  OBVIOUS
<1> USE DEF Init
<1>1. /\ cpu \in ThreadType /\ cpu.ss = KernelSegment /\ cpu.pc = "boot"
  BY ThreadFields DEF Pcs, KernelSegment
<1>2. Contents(q) = <<>> /\ q \in Queue /\ Represents(q, <<>>)
      /\ NoDuplicates(<<>>)
  BY EmptyList
<1>3. \A p \in Pcb : ~Exists(p) /\ ~Queued(p)
  BY <1>2 DEF Exists, Queued
<1>4. Loader = cpu /\ Booting
  BY <1>1 DEF Loader, Booting
<1>5. Typed
  <2>1. Garbage(0) \in ThreadType
    BY ThreadFields DEF Garbage, Pcs
  <2>2. 0 \in Int16
    BY Width
  <2> QED
    BY <1>1, <1>2, <2>1, <2>2 DEF Typed, TypeOK
<1>6. ProcessorExact
  BY <1>1, Pointers DEF ProcessorExact
<1>7. ShellExact
  BY <1>1, <1>2, <1>4 DEF ShellExact
<1>8. LoaderExact
  BY <1>1, <1>4 DEF LoaderExact, LoadSteps, Loading
<1>9. ResidentsExact
  BY <1>3 DEF ResidentsExact
<1>10. MemoryExact
  BY SegsAssumption DEF MemoryExact
<1>11. FramesExact
  BY <1>3 DEF FramesExact
<1>12. ListExact
  BY <1>2, <1>3, Pointers DEF ListExact
<1>13. SleepExact
  BY DEF SleepExact
<1> QED
  BY <1>5, <1>6, <1>7, <1>8, <1>9, <1>10, <1>11, <1>12, <1>13 DEF IInv

LEMMA StutterIInv ==
  ASSUME IInv, UNCHANGED vars
  PROVE  IInv'
<1> USE DEF IInv, vars
<1>1. Loader' = Loader /\ (Booting' <=> Booting)
  BY DEF Loader, ThreadOf, Booting
<1>2. \A p \in Pcb : Ending(p)' <=> Ending(p)
  BY DEF Ending
<1>3. Typed' /\ ProcessorExact' /\ SleepExact'
  BY DEF Typed, TypeOK, ProcessorExact, SleepExact
<1>4. ShellExact'
  BY <1>1, Pointers, QueueSame DEF ShellExact
<1>5. LoaderExact'
  BY <1>1, QueueSame, ExistsSame DEF LoaderExact
<1>6. ResidentsExact'
  BY <1>2, ExistsSame DEF ResidentsExact
<1>7. MemoryExact'
  BY <1>1, <1>2, ExistsSame DEF MemoryExact
<1>8. FramesExact' /\ ListExact'
  BY QueueSame, ExistsSame DEF FramesExact, ListExact
<1> QED
  BY <1>3, <1>4, <1>5, <1>6, <1>7, <1>8

LEMMA NextIInv == IInv /\ [Next]_vars => IInv'
<1> SUFFICES ASSUME IInv, [Next]_vars PROVE IInv'
  OBVIOUS
<1>1. CASE Invoke
  <2>1. CASE ExecuteMissing
    BY <2>1, ExecuteMissingKeeps
  <2>2. CASE \E f \in Names : ExecuteProgram(f)
    BY <2>2, ExecuteProgramKeeps
  <2>3. CASE Terminate
    BY <2>3, TerminateKeeps
  <2>4. CASE \E n \in SleepArgs : Sleep(n)
    BY <2>4, SleepKeeps
  <2> QED
    BY <1>1, <2>1, <2>2, <2>3, <2>4, NeverCalled DEF Invoke
<1>2. CASE Proceed
  <2>1. CASE BootShell
    BY <2>1, BootShellKeeps
  <2>2. CASE MakeTimerInterrupt
    BY <2>2, MakeTimerInterruptKeeps
  <2>3. CASE FindSegment
    BY <2>3, FindSegmentKeeps
  <2>4. CASE TakeSegment
    BY <2>4, TakeSegmentKeeps
  <2>5. CASE LoadProgram
    BY <2>5, LoadProgramKeeps
  <2>6. CASE FindPcb
    BY <2>6, FindPcbKeeps
  <2>7. CASE TakePcb
    BY <2>7, TakePcbKeeps
  <2>8. CASE InitPcb
    BY <2>8, InitPcbKeeps
  <2>9. CASE PublishPcb
    BY <2>9, PublishPcbKeeps
  <2>10. CASE InitializeProgram
    BY <2>10, InitializeProgramKeeps
  <2>11. CASE ReleaseRunning
    BY <2>11, ReleaseRunningKeeps
  <2>12. CASE SetCounter
    BY <2>12, SetCounterKeeps
  <2>13. CASE RaiseTimer
    BY <2>13, RaiseTimerKeeps
  <2> QED
    BY <1>2, <2>1, <2>2, <2>3, <2>4, <2>5, <2>6, <2>7, <2>8, <2>9, <2>10,
       <2>11, <2>12, <2>13, NeverCalled DEF Proceed, Execute
<1>3. CASE TimerInterrupt
  BY <1>3, TimerInterruptKeeps
<1>4. CASE HandleTimer
  BY <1>4, SkipPcbKeeps, CountDownKeeps, SwitchProcessKeeps DEF HandleTimer
<1>5. CASE UNCHANGED vars
  BY <1>5, StutterIInv
<1> QED
  BY <1>1, <1>2, <1>3, <1>4, <1>5 DEF Next

\* The invariant of ShippedKernel holds of every behaviour of the kernel with
\* programs like those of project6.
THEOREM Invariance == Spec => []IInv
<1> QED
  BY InitIInv, NextIInv, PTL DEF Spec

-----------------------------------------------------------------------------
(* What the runs check follows.                                            *)

\* Every variable has its type: counters, segments and indexes stay in range
\* (proc.h, kernel.c:53-107).
THEOREM KernelTypeCorrect == Spec => []TypeOK
<1>1. IInv => TypeOK
  BY DEF IInv, Typed
<1> QED
  BY <1>1, Invariance, PTL

\* No thread is resumed from a frame nobody saved.
LEMMA NoGarbage == IInv => cpu.pc # "garbage"
BY DEF IInv, Typed, TypeOK, ProcessorExact, LoadSteps

\* With segments up to 0x7000, programs that sleep and terminate beside a shell
\* that stays, and no tick in the three windows that WindowsAssumption closes:
\* whichever other steps the timer interrupts, the functions of proc.c, taken as
\* one step each, find no NULL link, releaseMemorySegment is given an entry of
\* memoryMap, and the switch resumes only what was saved or prepared (proc.c,
\* kernel.asm:187-265).  HighSegment.cfg, NoShell.cfg and WindowFrame.cfg show
\* that the code promises none of this beyond.
THEOREM KernelWellDefined == Spec => []WellDefined
<1>1. IInv => WellDefined
  BY NoGarbage DEF IInv, Typed, WellDefined, NoWildAccess, FrameValid
<1> QED
  BY <1>1, Invariance, PTL

\* Under the same assumptions the links of the PCBs hold a list of exactly the
\* processes that wait for the processor, each once, when the timer strikes in
\* executeProgram, in sleep or between calls (kernel.c:78-104, proc.c).  The
\* functions of proc.c are single steps here; QueueRaceProofs has what a tick
\* inside them does, and queue_race_add where it breaks the list.
THEOREM KernelQueueExact == Spec => []QueueExact
<1>1. IInv => QueueExact
  BY DEF IInv, ListExact, QueueExact
<1> QED
  BY <1>1, Invariance, PTL

\* The threads that wait: none is half way through terminate or kill, and only
\* the shell can be loading.
LEMMA WaitingThreads ==
  ASSUME IInv, NEW p \in Pcb, Exists(p), p # running
  PROVE  /\ saved[p].pc \notin {"releasePcb", "killPcb"}
         /\ saved[p].pc \in Loading => p = Shell /\ running # Idle
<1> USE DEF IInv
<1>1. CASE cpu.pc = "initFrame" /\ p = cpu.proc
  <2>1. saved[p].pc = "garbage"
    BY <1>1, LoadStep DEF LoaderExact, LoadSteps
  <2> QED
    BY <2>1 DEF Loading
<1>2. CASE ~(cpu.pc = "initFrame" /\ p = cpu.proc)
  BY <1>2 DEF FramesExact, Loading, LoadSteps
<1> QED
  BY <1>1, <1>2

LEMMA MemoryIsAccounted == IInv => MemoryAccounted
<1> SUFFICES ASSUME IInv, NEW i \in Segs
             PROVE  memoryMap[i] = "USED" <=>
                      \/ Loaders(i) # {}
                      \/ \E p \in Residents(i) : ~Leaving(p)
  BY DEF MemoryAccounted
<1> USE DEF IInv
<1>1. cpu.pc # "killPcb"
  BY DEF ProcessorExact, Typed, TypeOK, LoadSteps
<1>2. \A p \in Pcb : Exists(p) => (Leaving(p) <=> Ending(p))
  BY <1>1, WaitingThreads DEF Leaving, Threads, ThreadOf, Ending
<1>3. Loader \in Threads
  <2>1. CASE running \in {Idle, Shell}
    BY <2>1 DEF Loader, ThreadOf, Threads
  <2>2. CASE running \notin {Idle, Shell}
    <3>1. running \in Pcb /\ running # Shell
      BY <2>2 DEF Typed, TypeOK
    <3>2. Exists(Shell) /\ Loader = saved[Shell]
      BY <3>1, NotTheShell
    <3> QED
      BY <3>1, <3>2, Pointers DEF Threads
  <2> QED
    BY <2>1, <2>2
<1>4. ASSUME NEW t \in Threads, t.pc \in Loading
      PROVE  t = Loader
  <2>1. CASE t = cpu
    BY <2>1, <1>4, LoadStep DEF Loading, LoadSteps
  <2>2. CASE t # cpu
    <3>1. PICK p \in Pcb : Exists(p) /\ p # running /\ t = saved[p]
      BY <2>2 DEF Threads
    <3>2. p = Shell /\ running # Idle
      BY <3>1, <1>4, WaitingThreads
    <3> QED
      BY <3>1, <3>2 DEF Loader, ThreadOf
  <2> QED
    BY <2>1, <2>2
<1>5. Loaders(i) # {} <=> Loader.pc \in Loading /\ Loader.seg = i
  BY <1>3, <1>4 DEF Loaders, Loading
<1>6. (\E p \in Residents(i) : ~Leaving(p)) <=>
        \E p \in Pcb : Exists(p) /\ segment[p] = SegmentOf(i) /\ ~Ending(p)
  BY <1>2 DEF Residents
<1>7. ASSUME Loader.pc \in Loading, Loader.seg = i
      PROVE  memoryMap[i] = "USED"
  BY <1>7 DEF LoaderExact, Loading
<1>8. ASSUME NEW p \in Pcb, Exists(p), segment[p] = SegmentOf(i), ~Ending(p)
      PROVE  memoryMap[i] = "USED"
  <2>1. PICK j \in Segs : segment[p] = SegmentOf(j) /\ memoryMap[j] = "USED"
    BY <1>8 DEF ResidentsExact
  <2> QED
    BY <2>1, <1>8, SegmentsDiffer
<1> QED
  BY <1>5, <1>6, <1>7, <1>8 DEF MemoryExact

\* Under the same assumptions a segment is USED exactly while a process lives in
\* it or it is being loaded (proc.c:58-76): a terminate gives its segment back, a
\* load that the timer interrupts keeps the one it took.  With as many PCBs as
\* segments the load always finds a PCB, so this says nothing of kernel.c:213,
\* where one that finds none leaves its segment USED (WindowTerminate.cfg).
THEOREM KernelMemoryAccounted == Spec => []MemoryAccounted
BY MemoryIsAccounted, Invariance, PTL

\* The steps that end the sleep of a process: only the count of its last tick.
LEMMA SleepEnds ==
  ASSUME IInv, [Next]_vars, NEW p \in Pcb,
         state[p] = "SLEEPING", state'[p] # "SLEEPING"
  PROVE  owed[p] = 1 /\ owed'[p] = 0
<1> USE DEF IInv
<1>1. state \in [Pcb -> {"DEFUNCT", "RUNNING", "READY", "STARTING", "SLEEPING"}]
      /\ owed \in [Pcb -> Nat]
  BY DEF Typed, TypeOK
<1>2. CASE CountDown
  <2>1. state[irq] = "SLEEPING" /\ irq \in Pcb
    BY <1>2 DEF CountDown, InLoop
  <2>2. p = irq /\ OneTickLess(irq) <= 0
    BY <1>1, <1>2, <2>1 DEF CountDown
  <2>3. irq # Off
    BY <2>1, ConstantFacts DEF Off
  <2>4. sleepCounter[irq] \in Int /\ sleepCounter[irq] > 0
        /\ sleepCounter[irq] <= 32767 /\ owed[irq] = sleepCounter[irq]
    <3>1. sleepCounter[irq] \in Int16
      BY <2>1 DEF Typed, TypeOK
    <3>2. cpu.pc # "setCounter"
      BY <2>3, HandlerRuns
    <3> QED
      BY <2>1, <3>1, <3>2, Width DEF SleepExact
  <2>5. OneTickLess(irq) = sleepCounter[irq] - 1
    <3> DEFINE c == sleepCounter[irq] - 1
    <3>1. c \in Int /\ c >= -32768 /\ c <= 32767
      BY <2>4
    <3> HIDE DEF c
    <3>2. ToInt16(c) = c
      BY <3>1, Fits
    <3> QED
      BY <3>2 DEF OneTickLess, c
  <2>6. owed[irq] = 1
    BY <2>2, <2>4, <2>5
  <2>7. owed'[irq] = 0
    BY <1>1, <1>2, <2>1, <2>6 DEF CountDown
  <2> QED
    BY <2>2, <2>6, <2>7
<1>3. CASE SwitchProcess
  <2>1. state'[p] = IF p = running' THEN "RUNNING"
                    ELSE IF p = running /\ state[p] = "RUNNING" THEN "READY"
                    ELSE state[p]
    BY <1>3, SwitchFacts
  <2>2. p = running'
    BY <2>1
  <2>3. running' = running \/ Queued(running')
    BY <1>3, SwitchFacts
  <2>4. running' = running => state[running] = "RUNNING"
    BY <1>3, SwitchFacts
  <2> QED
    BY <2>2, <2>3, <2>4 DEF ListExact
<1>4. CASE TakePcb
  <2>1. state[cpu.proc] = "DEFUNCT"
    BY <1>4, LoadStep DEF TakePcb, At, LoaderExact, LoadSteps
  <2> QED
    BY <1>1, <1>4, <2>1 DEF TakePcb
<1>5. CASE InitPcb
  <2>1. state[cpu.proc] = "STARTING"
    BY <1>5, LoadStep DEF InitPcb, At, LoaderExact, LoadSteps
  <2> QED
    BY <1>1, <1>5, <2>1 DEF InitPcb
<1>6. CASE ReleaseRunning
  <2>1. state[running] = "RUNNING"
    BY <1>6 DEF ReleaseRunning, At, ProcessorExact, Typed, TypeOK, LoadSteps
  <2> QED
    BY <1>1, <1>6, <2>1 DEF ReleaseRunning
<1>7. CASE \E n \in SleepArgs : Sleep(n)
  BY <1>1, <1>7 DEF Sleep
<1>8. ASSUME state' = state
      PROVE  FALSE
  BY <1>8
<1> QED
  BY <1>2, <1>3, <1>4, <1>5, <1>6, <1>7, <1>8, NeverCalled
     DEF Next, Invoke, Proceed, Execute, HandleTimer, vars, pcbVars,
         ExecuteMissing, ExecuteProgram, Terminate, BootShell,
         MakeTimerInterrupt, FindSegment, TakeSegment, LoadProgram, FindPcb,
         PublishPcb, InitializeProgram, SetCounter, RaiseTimer,
         TimerInterrupt, SkipPcb

\* A sleeper stays off the processor for as many ticks as it asked for, and
\* not one longer (kernel.c:61-70, 78-86).
THEOREM KernelSleepLasts == Spec => SleepLasts
<1>1. IInv /\ [Next]_vars =>
        [\A p \in Pcb : state[p] = "SLEEPING" /\ state'[p] # "SLEEPING"
           => owed[p] = 1 /\ owed'[p] = 0]_vars
  BY SleepEnds
<1> QED
  BY <1>1, Invariance, PTL DEF Spec, SleepLasts

\* A DEFUNCT PCB changes its state only in getFreePCB.
LEMMA DeadStart ==
  ASSUME IInv, [Next]_vars, NEW p \in Pcb,
         state[p] = "DEFUNCT", state'[p] # "DEFUNCT"
  PROVE  state'[p] = "STARTING"
<1> USE DEF IInv
<1>1. state \in [Pcb -> {"DEFUNCT", "RUNNING", "READY", "STARTING", "SLEEPING"}]
  BY DEF Typed, TypeOK
<1>2. CASE CountDown
  BY <1>1, <1>2 DEF CountDown, InLoop
<1>3. CASE SwitchProcess
  <2>1. /\ state'[p] = IF p = running' THEN "RUNNING"
                       ELSE IF p = running /\ state[p] = "RUNNING" THEN "READY"
                       ELSE state[p]
        /\ running' = running \/ Queued(running')
        /\ running' = running => state[running] = "RUNNING"
    BY <1>3, SwitchFacts
  <2> QED
    BY <2>1 DEF ListExact
<1>4. CASE TakePcb \/ InitPcb
  BY <1>1, <1>4 DEF TakePcb, InitPcb
<1>5. CASE ReleaseRunning
  BY <1>1, <1>5 DEF ReleaseRunning
<1>6. ASSUME NEW n \in SleepArgs, Sleep(n)
      PROVE  state'[p] = "STARTING"
  <2>1. running # Shell /\ state[running] = "RUNNING"
    BY <1>6, Caller DEF Sleep
  <2> QED
    BY <1>1, <1>6, <2>1 DEF Sleep
<1>7. ASSUME state' = state
      PROVE  FALSE
  BY <1>7
<1> QED
  BY <1>2, <1>3, <1>4, <1>5, <1>6, <1>7, NeverCalled
     DEF Next, Invoke, Proceed, Execute, HandleTimer, vars, pcbVars,
         ExecuteMissing, ExecuteProgram, Terminate, BootShell,
         MakeTimerInterrupt, FindSegment, TakeSegment, LoadProgram, FindPcb,
         PublishPcb, InitializeProgram, SetCounter, RaiseTimer,
         TimerInterrupt, SkipPcb

\* The dead stay dead: a DEFUNCT PCB comes back only as a new process
\* (kernel.c:303-305, proc.c:83-93).
THEOREM KernelDeadStayDead == Spec => DeadStayDead
<1>1. IInv /\ [Next]_vars =>
        [\A p \in Pcb : state[p] = "DEFUNCT" /\ state'[p] # "DEFUNCT"
           => state'[p] = "STARTING"]_vars
  BY DeadStart
<1> QED
  BY <1>1, Invariance, PTL DEF Spec, DeadStayDead

-----------------------------------------------------------------------------
(* The kernel implements the scheduler.  A process begins to exist for the *)
(* scheduler when it is queued; everything its creation does before, and   *)
(* every step of the timer but a wake-up and the switch, changes nothing   *)
(* the scheduler sees.                                                     *)

SeenState == [p \in Pcb |-> IF Exists(p) THEN state[p] ELSE "DEFUNCT"]

SeenHome == [p \in Pcb |-> IF Exists(p) THEN segment[p] ELSE 0]

Seen == <<SeenState, SeenHome, Contents(q), running>>

LEMMA SeenVars == S!vars = Seen
BY DEF S!vars, Seen, SeenState, SeenHome

\* A step that leaves the queue, the processor and the processes alone.
LEMMA Unseen ==
  ASSUME Contents(q)' = Contents(q), running' = running,
         \A p \in Pcb : Exists(p)' <=> Exists(p),
         \A p \in Pcb : Exists(p) => state'[p] = state[p]
                                     /\ segment'[p] = segment[p]
  PROVE  UNCHANGED S!vars
<1>1. SeenState' = SeenState
  BY DEF SeenState
<1>2. SeenHome' = SeenHome
  BY DEF SeenHome
<1>3. Seen' = Seen
  BY <1>1, <1>2 DEF Seen
<1> QED
  BY <1>3 DEF S!vars, Seen, SeenState, SeenHome

LEMMA UnseenSame ==
  ASSUME UNCHANGED <<state, segment, q, running>>
  PROVE  UNCHANGED S!vars
BY Unseen, QueueSame, ExistsSame

LEMMA SchedulerStarts == Init => S!Init
<1> SUFFICES ASSUME Init PROVE S!Init
  OBVIOUS
<1>1. \A p \in Pcb : ~Exists(p)
  BY DEF Init, Exists
<1>2. Contents(q) = <<>> /\ running = Idle
  BY EmptyList DEF Init
<1> QED
  BY <1>1, <1>2 DEF S!Init

\* addToReady at the end of executeProgram is the launch.
LEMMA PublishLaunches ==
  ASSUME IInv, PublishPcb
  PROVE  \E p \in Pcb, s \in {SegmentOf(i) : i \in Segs} : S!Launch(p, s)
<1> USE DEF IInv
<1> DEFINE p0 == cpu.proc
           s0 == SegmentOf(cpu.seg)
<1>1. /\ cpu.pc = "publish"
      /\ UNCHANGED <<state, segment, running>>
      /\ q' = AddToReady(q, p0)
  BY DEF PublishPcb, At, pcbVars
<1>2. Loader = cpu
  BY <1>1, LoadStep DEF LoadSteps
<1>3. /\ p0 \in Pcb /\ p0 # running /\ state[p0] = "STARTING"
      /\ ~Queued(p0) /\ cpu.seg \in Segs
      /\ segment[p0] = s0
      /\ \A p \in Pcb : Exists(p) => segment[p] # s0
  BY <1>1, <1>2 DEF LoaderExact, LoadSteps, Loading
<1>4. s0 # 0
  BY <1>3, SegmentNumber
<1> HIDE DEF p0, s0
<1>5. /\ Contents(q)' = Append(Contents(q), p0)
      /\ \A r \in Pcb : Queued(r)' <=> Queued(r) \/ r = p0
  BY <1>1, <1>3, AppendedPcb
<1>6. ~Exists(p0) /\ \A p \in Pcb : Exists(p)' <=> Exists(p) \/ p = p0
  BY <1>1, <1>3, <1>5 DEF Exists
<1>7. SeenState' = [SeenState EXCEPT ![p0] = "STARTING"]
  BY <1>1, <1>3, <1>6 DEF SeenState
<1>8. SeenHome' = [SeenHome EXCEPT ![p0] = s0]
  BY <1>1, <1>3, <1>6 DEF SeenHome
<1>9. SeenState[p0] = "DEFUNCT" /\ \A r \in Pcb : SeenHome[r] # s0
  BY <1>3, <1>4, <1>6 DEF SeenState, SeenHome
<1>10. S!Launch(p0, s0)
  BY <1>1, <1>3, <1>5, <1>7, <1>8, <1>9
     DEF S!Launch, S!Live, SeenState, SeenHome
<1>11. s0 \in {SegmentOf(i) : i \in Segs}
  BY <1>3 DEF s0
<1>12. p0 \in Pcb
  BY <1>3
<1> QED
  BY <1>10, <1>11, <1>12 DEF S!Launch

\* releasePCB in terminate is the end.
LEMMA ReleaseTerminates ==
  ASSUME IInv, ReleaseRunning
  PROVE  S!Terminate
<1> USE DEF IInv
<1>1. /\ running \in Pcb /\ running # Shell /\ state[running] = "RUNNING"
      /\ ~Queued(running) /\ Contents(q) # <<>>
  <2>1. running \in Pcb /\ running # Shell /\ state[running] = "RUNNING"
    BY DEF ReleaseRunning, At, ProcessorExact, Typed, TypeOK, LoadSteps
  <2> QED
    BY <2>1, NotTheShell
<1>2. /\ UNCHANGED <<segment, running>>
      /\ state' = [state EXCEPT ![running] = "DEFUNCT"]
      /\ q' = ReleaseLinks(q, running)
  BY DEF ReleaseRunning
<1>3. Contents(q)' = Contents(q)
  <2> DEFINE s == Contents(q)
  <2>1. IsList(q, s) /\ ~In(running, s)
    BY <1>1, ReadyList
  <2>2. q.next[running] = s[1]
    BY <1>1 DEF ListExact
  <2>3. s # <<>>
    BY <1>1
  <2> HIDE DEF s
  <2>4. IsList(q', s)
    BY <1>1, <1>2, <2>1, <2>2, <2>3, Kept
  <2> QED
    BY <2>4 DEF IsList, s
<1>4. \A p \in Pcb : Queued(p)' <=> Queued(p)
  BY <1>3 DEF Queued
<1>5. \A p \in Pcb : state'[p] = IF p = running THEN "DEFUNCT" ELSE state[p]
  BY <1>1, <1>2 DEF Typed, TypeOK
<1>6. Exists(running) /\ \A p \in Pcb : Exists(p)' <=> Exists(p) /\ p # running
  BY <1>1, <1>4, <1>5 DEF Exists
<1>7. SeenState' = [SeenState EXCEPT ![running] = "DEFUNCT"]
  BY <1>1, <1>5, <1>6 DEF SeenState
<1>8. SeenHome' = [SeenHome EXCEPT ![running] = 0]
  BY <1>1, <1>2, <1>6 DEF SeenHome
<1>9. SeenState[running] = "RUNNING"
  BY <1>1, <1>6 DEF SeenState
<1> QED
  BY <1>1, <1>2, <1>3, <1>7, <1>8, <1>9
     DEF S!Terminate, SeenState, SeenHome

LEMMA SleepSleeps ==
  ASSUME IInv, NEW n \in SleepArgs, Sleep(n)
  PROVE  S!Sleep
<1> USE DEF IInv
<1>1. running \in Pcb /\ state[running] = "RUNNING"
  BY Caller DEF Sleep
<1>2. /\ UNCHANGED <<segment, running, q>>
      /\ state' = [state EXCEPT ![running] = "SLEEPING"]
  BY DEF Sleep
<1>3. \A p \in Pcb : state'[p] = IF p = running THEN "SLEEPING" ELSE state[p]
  BY <1>1, <1>2 DEF Typed, TypeOK
<1>4. Exists(running) /\ \A p \in Pcb : Exists(p)' <=> Exists(p)
  BY <1>1, <1>2, <1>3, QueueSame DEF Exists
<1>5. SeenState' = [SeenState EXCEPT ![running] = "SLEEPING"]
  BY <1>1, <1>3, <1>4 DEF SeenState
<1>6. SeenHome' = SeenHome
  BY <1>2, <1>4 DEF SeenHome
<1>7. SeenState[running] = "RUNNING"
  BY <1>1, <1>4 DEF SeenState
<1> QED
  BY <1>1, <1>2, <1>5, <1>6, <1>7, QueueSame DEF S!Sleep, SeenState, SeenHome

\* The last tick of a sleep wakes the process; the others are not seen.
LEMMA CountDownWakes ==
  ASSUME IInv, CountDown
  PROVE  (\E p \in Pcb : S!Wake(p)) \/ UNCHANGED S!vars
<1> USE DEF IInv
<1> DEFINE p0 == irq
<1>1. p0 \in Pcb /\ state[p0] = "SLEEPING" /\ UNCHANGED <<segment, running>>
  BY DEF CountDown, InLoop
<1>2. CASE UNCHANGED <<state, q>>
  BY <1>1, <1>2, UnseenSame
<1>3. CASE /\ OneTickLess(irq) <= 0
           /\ state' = [state EXCEPT ![p0] = "READY"]
           /\ q' = AddToReady(q, p0)
  <2>1. ~Queued(p0) /\ Exists(p0)
    BY <1>1 DEF ListExact, Exists
  <2>2. p0 # running
    <3>1. irq # Off /\ irq <= p0
      BY <1>1, ConstantFacts DEF Off
    <3>2. cpu.pc # "setCounter"
      BY <3>1, HandlerRuns
    <3>3. sleepCounter[p0] \in Int /\ sleepCounter[p0] <= 32767
      <4>1. sleepCounter[p0] \in Int16
        BY <1>1 DEF Typed, TypeOK
      <4> QED
        BY <4>1, Width
    <3>4. p0 = running => sleepCounter[p0] >= 2
      BY <1>1, <3>1, <3>2 DEF SleepExact
    <3> DEFINE c == sleepCounter[irq] - 1
    <3>5. p0 = running => c \in Int /\ c > 0 /\ c <= 32767
      BY <3>3, <3>4
    <3> HIDE DEF c
    <3>6. p0 = running => ToInt16(c) = c
      BY <3>5, Fits
    <3> QED
      BY <1>3, <3>5, <3>6 DEF OneTickLess, c
  <2> HIDE DEF p0
  <2>3. /\ Contents(q)' = Append(Contents(q), p0)
        /\ \A r \in Pcb : Queued(r)' <=> Queued(r) \/ r = p0
    BY <1>1, <1>3, <2>1, AppendedPcb
  <2>4. \A p \in Pcb : state'[p] = IF p = p0 THEN "READY" ELSE state[p]
    BY <1>1, <1>3 DEF Typed, TypeOK
  <2>5. \A p \in Pcb : Exists(p)' <=> Exists(p)
    BY <1>1, <2>1, <2>3, <2>4 DEF Exists
  <2>6. SeenState' = [SeenState EXCEPT ![p0] = "READY"]
    BY <1>1, <2>1, <2>4, <2>5 DEF SeenState
  <2>7. SeenHome' = SeenHome
    BY <1>1, <2>5 DEF SeenHome
  <2>8. SeenState[p0] = "SLEEPING"
    BY <1>1, <2>1 DEF SeenState
  <2>9. S!Wake(p0)
    BY <1>1, <2>2, <2>3, <2>6, <2>7, <2>8 DEF S!Wake, SeenState, SeenHome
  <2>10. p0 \in Pcb
    BY <1>1
  <2>11. \E p \in Pcb : S!Wake(p)
    BY <2>9, <2>10 DEF S!Wake
  <2> QED
    BY <2>11
<1> QED
  BY <1>2, <1>3 DEF CountDown

LEMMA SwitchSwitches ==
  ASSUME IInv, SwitchProcess
  PROVE  S!Switch
<1> USE DEF IInv
<1>1. /\ segment' = segment
      /\ Requeued \in Seq(Pcb) /\ Requeued # <<>>
      /\ running' = Requeued[1] /\ running' \in Pcb
      /\ running' = running \/ Queued(running')
      /\ running' = running => state[running] = "RUNNING"
      /\ Contents(q)' = Tail(Requeued)
      /\ \A p \in Pcb : Queued(p)' <=>
           /\ p # running'
           /\ Queued(p) \/ (p = running /\ state[running] = "RUNNING")
      /\ \A p \in Pcb : state'[p] =
           IF p = running' THEN "RUNNING"
           ELSE IF p = running /\ state[p] = "RUNNING" THEN "READY"
           ELSE state[p]
  BY SwitchFacts
<1>2. \A p \in Pcb : Exists(p)' <=> Exists(p)
  BY <1>1 DEF Exists, ListExact
<1>3. \A p \in Pcb : SeenState[p] = IF Exists(p) THEN state[p] ELSE "DEFUNCT"
  BY DEF SeenState
<1>4. running \in Pcb => (state[running] = "RUNNING" <=> SeenState[running] = "RUNNING")
  BY <1>3 DEF Exists
<1>5. S!Requeued = Requeued
  BY <1>4 DEF S!Requeued, Requeued, SeenState
<1>6. Head(Requeued) = running'
  BY <1>1
<1>7. SeenState' = [p \in Pcb |->
                      IF p = running' THEN "RUNNING"
                      ELSE IF p = running /\ SeenState[p] = "RUNNING" THEN "READY"
                      ELSE SeenState[p]]
  <2>1. Exists(running')
    BY <1>1 DEF Exists, ListExact
  <2>2. \A p \in Pcb : SeenState'[p] =
          IF p = running' THEN "RUNNING"
          ELSE IF p = running /\ SeenState[p] = "RUNNING" THEN "READY"
          ELSE SeenState[p]
    BY <2>1, <1>1, <1>2, <1>3, <1>4 DEF SeenState
  <2>3. SeenState' = [p \in Pcb |-> SeenState'[p]]
    BY DEF SeenState
  <2> QED
    BY <2>2, <2>3
<1>8. SeenHome' = SeenHome
  BY <1>1, <1>2 DEF SeenHome
<1> QED
  BY <1>1, <1>5, <1>6, <1>7, <1>8 DEF S!Switch, SeenState, SeenHome

\* The process a load has not queued yet is not seen.
LEMMA CreationUnseen ==
  ASSUME IInv, TakePcb \/ InitPcb
  PROVE  UNCHANGED S!vars
<1> USE DEF IInv
<1> DEFINE p0 == cpu.proc
<1>1. cpu.pc \in {"takePcb", "initPcb"}
  BY DEF TakePcb, InitPcb, At
<1>2. Loader = cpu
  BY <1>1, LoadStep DEF LoadSteps
<1>3. p0 \in Pcb /\ state[p0] \in {"DEFUNCT", "STARTING"} /\ ~Queued(p0)
  BY <1>1, <1>2 DEF LoaderExact, LoadSteps, ListExact
<1>4. /\ UNCHANGED <<q, running>>
      /\ state' = [state EXCEPT ![p0] = "STARTING"]
      /\ \/ segment' = segment
         \/ segment' = [segment EXCEPT ![p0] = SegmentOf(cpu.seg)]
  BY DEF TakePcb, InitPcb
<1> HIDE DEF p0
<1>5. \A p \in Pcb : p # p0 => state'[p] = state[p] /\ segment'[p] = segment[p]
  BY <1>3, <1>4 DEF Typed, TypeOK
<1>6. state'[p0] = "STARTING"
  BY <1>3, <1>4 DEF Typed, TypeOK
<1>7. \A p \in Pcb : (Exists(p)' <=> Exists(p)) /\ (Exists(p) => p # p0)
  BY <1>3, <1>4, <1>5, <1>6, QueueSame DEF Exists
<1> QED
  BY <1>4, <1>5, <1>7, Unseen

LEMMA SchedulerSteps == IInv /\ [Next]_vars => [S!Next]_(S!vars)
<1> SUFFICES ASSUME IInv, [Next]_vars PROVE S!Next \/ UNCHANGED S!vars
  OBVIOUS
<1>1. CASE PublishPcb
  BY <1>1, PublishLaunches DEF S!Next
<1>2. CASE ReleaseRunning
  BY <1>2, ReleaseTerminates DEF S!Next
<1>3. CASE \E n \in SleepArgs : Sleep(n)
  BY <1>3, SleepSleeps DEF S!Next
<1>4. CASE CountDown
  BY <1>4, CountDownWakes DEF S!Next
<1>5. CASE SwitchProcess
  BY <1>5, SwitchSwitches DEF S!Next
<1>6. CASE TakePcb \/ InitPcb
  BY <1>6, CreationUnseen
<1>7. CASE UNCHANGED <<state, segment, q, running>>
  BY <1>7, UnseenSame
<1> QED
  BY <1>1, <1>2, <1>3, <1>4, <1>5, <1>6, <1>7, NeverCalled
     DEF Next, Invoke, Proceed, Execute, HandleTimer, vars, pcbVars,
         ExecuteMissing, ExecuteProgram, Terminate, BootShell,
         MakeTimerInterrupt, FindSegment, TakeSegment, LoadProgram, FindPcb,
         InitializeProgram, SetCounter, RaiseTimer, TimerInterrupt, SkipPcb

\* Seen from outside, the links, the frames, the counters and the windows of
\* the timer do not show: the kernel is the scheduler (kernel.c:53-107,
\* 180-320, proc.c).
THEOREM KernelImplementsScheduler == Spec => ImplementsScheduler
BY SchedulerStarts, SchedulerSteps, Invariance, PTL
   DEF Spec, ImplementsScheduler, S!Spec
=============================================================================
