# A verification of the TeamXtremeOS kernel

TLA+ models of the operating system in `src/project6`, TLC runs that check them on small instances, and TLAPS
proofs for any size of the instance. `project6` is the last and largest stage of the repository; the other
`project*` directories are earlier stages of the same sources, `bochs-2.4.2` and `dev86-0.16.17` the emulator and
the compiler it is built with.

## 1. The system

An 8086 kernel of 16-bit C and assembler. Programs live in eight 64 KB segments, call the kernel through interrupt
0x21 and are switched by the timer interrupt. It runs on Bochs, whose interrupt controller, keyboard and BIOS decide
what may interrupt what.

| Part | State | Operations | Interacts with |
|---|---|---|---|
| Ready queue, `proc.c:100-182` | `readyHead`, `readyTail`, `next`/`prev` of eight PCBs | `addToReady`, `removeFromReady`, `releasePCB` | called by the process calls and by the timer handler, on the same memory |
| Processes and memory, `proc.c`, `kernel.c:28-34,178-326` | `pcbPool` (name, state, segment, stack pointer, sleep counter), `memoryMap`, `running`, `idleProc` | `executeProgram`, `terminate`, `yield`, `kill`, `sleep`, `showProcesses` | file system (loads a program), ready queue, timer |
| Timer and context switch, `kernel.c:72-110`, `kernel.asm:120-265` | saved frames on the stacks of the programs, interrupt vector, interrupt flag | `timer_ISR`, `handleTimerInterrupt`, `returnFromTimer`, `initializeProgram` | interrupts every other part that runs with interrupts on |
| Interrupt 0x21, `kernel.c:328-389`, `kernel.asm:33-94` | the patched `int` instruction of `interrupt()` | dispatch; `sti` before the handler (`kernel.asm:83`) | all |
| File system, `kernel.c:412-632` | sector 1 (map of used sectors), sector 2 (directory), data sectors; copies of both on the caller's stack | `readFile`, `writeFile`, `deleteFile`, `findFile` | disk access; shell, editor, `executeProgram` |
| Disk access, `kernel.c:396-410,736-765` | none | `readSector`, `writeSector`, `mod` | BIOS 0x13 |
| Console, `kernel.c:766-854` | screen, line buffer of the caller | `readString`, `readChar`, `printString`, `putStr` | BIOS 0x10, 0x16 |
| Shell and programs, `shell.c`, `texted.c`, `uprog1-4.c`, `userlib.c` | line and file buffers | commands | kernel calls |
| Disk image tool, `loadFile.c`; boot loader, `bootload.asm` | the image | host side copy; load the kernel | file system format |
| Interrupt controller, keyboard, int 9 (`bochs-2.4.2/iodev/pic.cc`, `keyboard.cc`, `bios/rombios.c`) | lines requested and in service, the key at port 0x60, the BIOS's ring of keys | acknowledge, end of interrupt, send and take a key | `timer_ISR` and `sleep` end interrupts; programs read the ring |

What is hard here: a call runs with interrupts on, so the timer may switch processes inside it, in the middle of
the structures the timer handler itself uses; `releasePCB` trusts link fields nobody cleared; a process is
destroyed in two steps, created in five; the disk's two tables are written one after the other; numbers are 16 bits
wide and signed. What makes each part correct:

* ready queue: the links always hold the queued PCBs in order of arrival; nobody is lost, queued twice or
  reordered; no NULL is followed;
* processes: one running process; a waiting process is queued exactly once; a segment has one owner; the memory
  map says exactly who owns what; the dead stay dead; every process that waits runs;
* sleep: a sleeper is off the processor for exactly the ticks it asked for, and wakes;
* context switch: only what was saved or prepared is resumed;
* file system: files do not share sectors; a write happens at once or not at all and changes no other file; a
  read returns one version of a file; sectors are lost only where a file is written again;
* disk access: every sector has one place on the disk and is found there, for all that 16-bit ints and chars hold;
* shell and editor: a command works on the file the user named and does what the user asked, whatever the buffers
  held before;
* keyboard: a key typed reaches a program once and in order, wherever the timer switches.

## 2. The modules

| Module | What it models | State, and what it is in the code |
|---|---|---|
| `ProcQueue` | `proc.c` list functions as operators on a record | `head`, `tail`, `next`, `prev`; `AddFaults`/`RemoveFaults` say when NULL would be followed |
| `Fifo` | what the comments of `proc.c` promise of the queue | `fifo`, `out` |
| `ReadyQueue` | the list under the calls that use it properly | `q`, `out`; `fifo`, `last` are history |
| `ReadyQueueProofs` | proofs about `ReadyQueue` | |
| `ProcQueueProofs` | lemmas about the list functions, used by the proofs of `ReadyQueue`, `QueueRace` and the kernel | |
| `Scheduler` | what the kernel promises of processes | `state`, `home`, `ready`, `running` |
| `SchedulerProofs` | proofs about `Scheduler` | |
| `Kernel` | process calls, timer handler and context switch | PCB fields, `q` (a `ProcQueue` record), `memoryMap`, `running`; `cpu` is the thread on the processor, `saved` the frames on the stacks, `irq` the progress of `handleTimerInterrupt`, `image` the program in each segment; `owed` is history |
| `KernelProperties` | views and properties of `Kernel`, refinement to `Scheduler` | |
| `MCKernel` | which programs are on the disk and what they call | |
| `ShippedKernel` | what `Kernel` assumes of the programs of `project6` and of the timer, and the inductive invariant | |
| `MCShipped` | the instance of `ShippedKernel` | |
| `ShippedProofs` | proofs about `ShippedKernel` | |
| `FileStore` | what the file calls promise | `files`, `asked` |
| `FileSystem` | `readFile`, `writeFile`, `deleteFile`, one sector transfer per step | `used` (sector 1), `dir` (sector 2), `block`; `call` holds each process's copies |
| `MCFileSystem` | sizes and overlaps of the instances | |
| `SafeFileSystem` | the situations `FileSystem` is safe in, as assumptions, and the inductive invariants | |
| `MCSafeFileSystem` | the instance of `SafeFileSystem` | |
| `FileSystemProofs` | proofs about `SafeFileSystem` and `DiskAccess` | |
| `QueueRace` | the list functions one C statement per step, under the timer handler that calls them too | `q`; `thread` is what each process still has to execute of its call; `handler` and `due` are the progress of `handleTimerInterrupt` |
| `MCQueueRace` | which processes call what | |
| `SafeQueueRace` | where and to whom the timer does no harm, as assumptions, and the inductive invariant | |
| `MCSafeQueueRace` | the instance of `SafeQueueRace` | |
| `QueueRaceProofs` | proofs about `SafeQueueRace` | |
| `DiskAccess` | `readSector`, `writeSector` and the loop of `mod` | the local variables; `spot` is what interrupt 0x13 is given |
| `Session` | a user at the shell and the editor: `readString`, the commands on files, `texted` | `mem` holds the line, name and text buffers with their stale cells, `files` and `free` the disk; `meant` is what the user wants (history) |
| `MCSession` | what is typed and what is on the disk | |
| `SafeSession` | what the shell and the editor rely on, as assumptions, and the inductive invariant | |
| `MCSafeSession` | the instance of `SafeSession` | |
| `SessionProofs` | proofs about `SafeSession` | |
| `Interrupts` | interrupt controller, keyboard and int 9 under the timer that switches processes | `irr`, `isr`, `signal` (controller), `inKeyboard`, `port`, `enabled` (keyboard), `ring` (BIOS), `handler` (the int 9 frames on each stack), `phase` (what each process does outside int 9), `queue`, `asleep`, `running`; `delivered` is history |
| `InterruptsProofs` | proofs about `Interrupts` | |

`ShippedKernel`, `SafeFileSystem`, `SafeQueueRace` and `SafeSession` add no action to `Kernel`, `FileSystem`, `QueueRace`
and `Session`: they restrict the constants by assumptions, which TLC evaluates in the runs `kernel`, `file_system`,
`queue_race` and `session`, and state the invariants the proofs need.

`Kernel` and `QueueRace` EXTEND `ProcQueue`, so the pointer code is one definition used by the queue model, by the
kernel model, and as what the statements of `QueueRace` must amount to. `ReadyQueue` implements `Fifo`, `Kernel`
implements `Scheduler`, `FileSystem` implements `FileStore`, each with the abstract specification as a property of a
run. The programs of `Session` change files by actions of `FileStore` only, which is how the two meet.
Operators marked `Faulty:` are plausible mistakes in the definition that follows; they are used by no specification and serve to show that a property notices them.

**Granularity of `Kernel`.** A step is a call to a function of `proc.c` or `kernel.asm`, with the assignments around
it. `getFreeMemorySegment` and `getFreePCB` are two steps (test, mark). The handler's loop over the PCBs is one
step per PCB, with interrupts off. `Windows` names the steps before which the timer may strike inside a call;
between calls it may always strike. At `"user"` a program may make any of its calls or be printing or reading,
which changes nothing modelled. A program is started with interrupts off (`kernel.asm:247`); the shell, the editor and
`uprog3` turn them on (`enableInterrupts`, `lib.asm:35`), the others let the timer in when they print. A program
that does neither would keep the processor; no such program is on the disk and none is modelled.

A thread is the step it will execute next and its live local variables. A frame nobody saved or prepared is
`Garbage`: the model stops at a thread that resumes it. It also stops (`wild`) where a NULL pointer is followed or
memory outside `memoryMap` is written, because what happens then is not defined by the code.

**Refinement to `Scheduler`.** A process exists from the moment it is queued to the moment its PCB is DEFUNCT; the
ready queue is the chain of `next` links. The loading of a program, the segment release in `terminate` and `kill`,
the counter of a sleeper and the steps of the handler's loop are stutters; `PublishPcb` is `Launch`,
`ReleaseRunning` and `KillPcb` (of the caller) are `Terminate`, `CountDown` at zero is `Wake`, `SwitchProcess` is
`Switch` or `SwitchToIdle`.

**Refinement to `FileStore`.** A call takes effect when it writes the directory: until then the new data lie in
sectors no file lists. That is why a power failure before it leaves the old file intact, why a reader beside a
writer gets the old file whole, and why the map may be written afterwards as long as nothing comes between.

**Statements of `QueueRace`.** Each assignment to a link or to a global is a step, and each `if` with the branch it
chooses. A tick starts the handler, which works on the list as it finds it: `Wake` queues one due sleeper, in the order
of the loop over `pcbPool`, and `Switch` is what follows the loop. `Windows` and `EndWindows` name the
statements before which a tick may strike, in calls of living processes and in the `releasePCB` of `terminate`.
The result: `terminate` may be interrupted anywhere, `addToReady` only before its first assignment, the `releasePCB` of
`kill` only before its last two. `Kernel`, where these calls are single steps, speaks of what lies outside the other statements.

**`Interrupts`.** What runs with interrupts off is one step. Which sleepers a tick wakes is any subset, in any order,
since the counters are those of `Kernel`. `sleep` is two steps, the mark and the `int`, with interrupts on between them
(`kernel.c:66-69`), so that a sleeper may have a key in hand; a process that terminates spins until the next tick
(`kernel.c:251`) and takes keys meanwhile. When no process is ready the processor goes to the idle process, whose stack
pointer nobody prepared (`proc.c:44`): the model then has `running = None`, and nobody runs any more. No line is masked and
a tick is accepted before the timer chip lowers the line half a period later. A key that finds the keyboard full is dropped
(`kbd_enQ`). At most 15 keys are typed, so that the ring of the BIOS is never full. The interrupt of the disk is left out.

**`Session`.** A cell of a buffer is a letter, a word of a command or a control character; names have two letters
instead of six, a text four cells in sectors of two. What is behind the zero of a string stays and is read where the
code reads by position. `files` change in one step, which is what `FileSystem` shows of a single writer. Of the disk
the module keeps what decides whether a write succeeds: the entries of the directory and the number of free sectors,
which a file that is written again eats up. `writeFile` refuses a new file when no entry is left; `copy` says so, `texted`
ignores the answer and the text is gone. With too few sectors the code writes what its stack holds into entry and map,
and the model stops (`wild`). The 26 sectors of an entry are the length of the buffers, so the cap at `kernel.c:489` never
cuts. `kill`, `dir`, `help`, `ps` and `execute` are not typed.

**Undefined behaviour.** The entries of `unusedSectors` beyond the free sectors (`kernel.c:526`) are uninitialised
stack: `Allocations` takes any sector number for them.

## 3. The runs

| Run | Instance | Shows |
|---|---|---|
| `ready_queue` | 4 PCBs, 9041 states | the list stays exact and behaves as a FIFO queue through every sequence of the calls after which the links of a released PCB say where it is (see below); four reach the empty, one-, two- and longer cases, a middle element with neighbours on both sides, and one PCB outside |
| `queue_race` | 4 PCBs, a shell that starts and kills, 280868 states | interrupted where it is harmless, the list holds every waiting process once; a call not interrupted does what `ProcQueue` says |
| `scheduler` | 3 PCBs, 3 segments, 1729 states | the abstract scheduler keeps its invariants and starves nobody under weak fairness of `Switch` |
| `kernel` | 3 PCBs, 3 segments, sleeps of 2 and 4 ticks, the timer in eight kinds of windows, 214778 states | the invariants, `SleepLasts` and the refinement to `Scheduler` (which has one running process and exclusive segments) for the programs that ship |
| `kernel_live` | 3 PCBs, several shells, full memory, 12051 states | `ReadyRuns`, `SleeperWakes` |
| `kernel_kill_yield` | a program that kills itself or one that yields, 398 states | nothing leaks, the dead stay dead |
| `file_system` | 2 processes, 2 files, 3 free sectors, 3 directory entries, 315829 states | no cross-links, files marked as used, whole reads, atomic writes and deletions with power failures, files loaded from outside; only writing a file again loses sectors |
| `disk_access` | 109 sectors, 66055 states | every sector is found in its own place and `mod` returns; 109 pass three borders of tracks, six of heads and a last incomplete track |
| `session` | three names, two directory entries, four free sectors, lines of up to seven cells, one line of text, 463183 states | every command does what was typed, to the file that was named, with backspace and stale buffers, or is refused because the directory is full and changes nothing; files change as `FileStore` allows |
| `interrupts` | 3 processes of which two sleep, one terminates and one may be killed, 3 keys, a keyboard of 2, 29680 states | one int 9 handler at a time, keys in order, and every key arrives unless the process that has it in hand does not run again |
| `yield_loses_sleeper` | violated: `ReadyIsQueued` | a sleeper that wakes in the slice of a process that has yielded is lost |
| `queue_race_add` | violated: `ListExact` | a tick between two assignments of `addToReady` leaves a list without a tail |

Three PCBs give a running process, a queue of two and, with sleepers, every case of the list functions.
`TicksPerSecond` is 2 instead of 125 so that a sleep spans other processes' slices. Entries of `memoryMap` outside
`Segs` are USED from the start. Three free sectors let a file be replaced, deleted and its sectors given to the other
file; with sizes up to 2 and lists of 3, no file fills its entry. `MCFileSystem` declares processes, names and values
symmetric; the run has no liveness property. Three keys are one at work, one at the port and one in the keyboard; three
processes are the one with the key, one that sleeps meanwhile and one that reads. Two entries for three names fill the
directory, and four sectors are two saves of the longest text.

`ReadyQueue` releases a PCB (`kill`, `terminate`) where `releasePCB` does what it should: a queued one that is not the last, the
last one when its `next` link is NULL and another is before it, and the one that was dispatched. The calls it leaves out
are the ones in which the links mislead the code: the only PCB of the list, the last one with a `next` link left
from an earlier removal, and a process that killed the head its own stale link leads to. `Kernel`
has no such guard; `KillZombie.cfg` shows there what happens.

The same modules have instances that are not in the list of runs, for behaviours of the code outside what the passing
runs allow. TLC finds a counterexample in every one of them. An instance is a configuration file of its own, or a
change of a constant in one, which is then checked with the MC module of that file, for the one property named and with
`CHECK_DEADLOCK FALSE`:

| Configuration | Property | What happens |
|---|---|---|
| `KillZombie.cfg` | `DeadStayDead` | a process killed while alone in the queue is dispatched afterwards (`proc.c:105`; `kernel.c:304`: "When the process is killed it no longer executes") |
| `HighSegment.cfg` | `NoWildAccess` | `terminate` from segment 0x8000 on writes outside `memoryMap` (`kernel.c:244`); the segment numbers are the real ones |
| `NoShell.cfg` | `FrameValid` | the idle process is resumed from a stack nobody prepared (`kernel.c:101`) |
| `SleepOverflow.cfg` | `SleepLasts` | 263 seconds times 125 overflows (`kernel.c:64`) |
| `SleepOverflow.cfg` with `SleepArgs = {0}` and `TicksPerSecond = 2` | `QueueExact` | a sleep of no seconds is over in the interrupt that starts it, and the process is in the list while it runs (`kernel.c:81`) |
| `WindowFrame.cfg` | `FrameValid` | a program is dispatched before its frame exists (`kernel.c:230-234`) |
| `WindowTerminate.cfg` | `SegmentExclusive`, and `MemoryAccounted` alone | a tick inside `terminate` leaves two processes in one segment, or a segment taken for ever (`kernel.c:244,213`) |
| `WindowSleep.cfg` | `SleepLasts` | a tick between the state and the counter of a sleeper (`kernel.c:66-67`) |
| `WindowTwoLoaders.cfg` | `SegmentExclusive` | a tick between test and mark in `getFreeMemorySegment` (`proc.c:62-63`) |
| `QueueRaceKill.cfg` | `NoNullDereference` | a tick inside the `releasePCB` of `kill` (`proc.c:107-117`) |
| `FileSystem.cfg` with `Exposed = {"crash"}` | `ListedAreUsed` | power fails between directory and map (`kernel.c:541-542`) |
| `FileSystem.cfg` with `Exposed = {"full"}` | `NoCrossLink` | a full disk puts uninitialised sector numbers into the directory (`kernel.c:526-530`) |
| `FileSystem.cfg` with `MayOverlap <- Writers` | `NoCrossLink` | two writers are given the same sector (`kernel.c:512`) |
| `FileSystem.cfg` with `Exposed = {"shrink"}` | `ImplementsFileStore` | a shorter file keeps the tail of the longer one (`kernel.c:526-530`) |
| `FileSystem.cfg` with `Sizes <- LongSizes` | `NoOverrun` | a file of 26 sectors has no end of list (`kernel.c:434,623`) |
| `FileSystem.cfg` with `MayOverlap <- ReaderAndDeletion` | `ReadWhole` | a file deleted while it is read (`kernel.c:623-626`) |
| `FileByte.cfg` | `SystemIntact` | numbers of sectors beyond a char are cut off: data go over the sectors of the system (`kernel.c:528`) |
| `FileSystem.cfg` with `Exposed = {"again"}` | `ImplementsFileStore` | a file loaded a second time is in the directory twice (`loadFile.c:59-70`) |
| `Session.cfg` with `Lines <- TextLines` | `SavedWhenAsked` | a text of several lines: the editor stores lines over one another and does not save (`texted.c:22`; `texted.c:15` promises Return after CTRL+D) |
| `Session.cfg` with `Lines <- LongLines` | `NoOverrun` | a line longer than its buffer (`kernel.c:786`) |
| `SessionShort.cfg` | `NamesAsMeant` | a short name takes the tail of an older line with it (`shell.c:47-49`) |
| `SessionCopy.cfg` | `NamesAsMeant` | `copy` finds the second name only behind a first one of full length (`shell.c:91-93`) |
| `Session.cfg` with `Exposed = {"full"}` | `NoOverrun` | a text for which there are too few free sectors: the map is marked at uninitialised places (`kernel.c:527`) |
| `Session.cfg` with `OnDisk <- FullFile` | `DoneAsMeant` | a file whose text fills its sectors is shown with what the buffer held (`shell.c:55`) |
| `Session.cfg` with `Exposed = {"missing"}` | `OnlyAsAsked` | `copy` of a missing file makes an empty one (`shell.c:98-102`; `shell.c:84` promises an error) |
| `Session.cfg` with `Exposed = {"split"}` | `DoneAsMeant` | the shell and the editor share a line (`kernel.c:799`) |
| `InterruptsKill.cfg` | `KeyboardWorks` | a process killed with a key in hand leaves the keyboard off (`kernel.c:308-327`); with `Victims = {}` and `Enders = {p1}` one that terminates and takes the key in its last spin does (`kernel.c:251`) |

Two more, by reading: `yield` (`kernel.c:275`) queues a process that goes on running; and the shell's `kill <name>`
passes the address of the name, 0x8F8, where the kernel expects the number of a segment (`shell.c:140`), so that it
always answers that nothing was killed.

**Fairness.** `Kernel!FairSpec` assumes that the processor does not stop inside the kernel or its handler (weak
fairness of `Proceed`, `HandleTimer`) and that the timer strikes again and again: strong fairness, because a tick
that falls into code with interrupts off stays pending in the interrupt controller until they are on. Nothing is
assumed of what programs call; liveness needs programs that run with interrupts on or print, as said above.
`Interrupts!FairSpec` assumes the timer goes on, the keyboard sends what it may and the processor takes what is
signalled (weak fairness of `Tick`, `SendKey`, `TakeTick`, `TakeKey`); and strong fairness of `StoreKey` and
`EndKey`, because the process in int 9 has the processor again and again, as `ReadyRuns` shows, and gets further each
time. That holds while each slice is longer than the handler, which the code does not measure. Strong fairness of
`Wakes(p)` is `SleeperWakes` of the kernel: ticks wake every sleeper at last.

## 4. The proofs

`ReadyQueueProofs`, for any set of PCBs and the calls named in §3: `TypeOK`, `ListIntact`, `LastLeadsToHead`,
`NoNullDereference` are invariants of `ReadyQueue`, and `ReadyQueue` implements `Fifo`. From the assumption that NULL is no
PCB. `ListIntact`
alone is not inductive: `releasePCB` of a process that terminates looks at the stale `next` link of a PCB outside the
list, so the invariant `IInv` adds what that link holds (`LastLeadsToHead`), and `Represents` says that PCBs outside
the list have no `prev` link. Lemmas in `ProcQueueProofs` say what each list function does to the sequence the
memory represents (`AddToReadyAppends`, `RemoveFromReadyTakesHead`, `ReleaseLinksRemoves`, `ReleaseLinksRemovesLast`,
`ReleaseLinksKeepsList`), and one about
sequences each (`AppendElements`, `TailElements`, `RemoveAtElements`) what the sequence then is. `Refinement` then
maps every action to one of `Fifo`, from `ListIntact`.

`SchedulerProofs`, for any sets of PCBs and segments: `TypeOK`, `ReadyExact`, `OneRunning`, `SegmentExclusive` are
invariants of `Scheduler`. Each alone is not inductive (`ReadyExact` needs to know that the running process does not
wait, which is `OneRunning`); their conjunction is.

`FileSystemProofs`, in its part about `DiskAccess`, for every disk of up to 9216 sectors, which are the 256 tracks that
fit a char: `DiskTypeOK` (no int of `mod` overflows), `RightPlace` and `LoopEnds`. The invariant `Split` adds what a turn of the loop keeps: `temp` has
shrunk by as much as `modulo` has grown, and its remainder is that of the number; at the end `temp` is below the divisor
and so is the remainder itself.

`InterruptsProofs`, for any finite set of processes, any sleepers, enders and victims, and up to 15 keys: `TypeOK`,
`OneKeyHandler`, `KeysInOrder`. They speak of the system up to the moment when no process is left to run; a key in the hand
of a process that does not come back is counted as in its place there. `SomebodyRuns` says when that moment does not come: one process
that does not sleep, terminate or get killed is enough, as the shell is. `OneKeyHandler` is not inductive: a second handler could begin if a key were
signalled while the first one runs. `Requests` excludes it: the keyboard's line is requested exactly while a key
waits at the port, and only a keyboard that is on puts one there. What the controller has in service plays no
part, which is why the end of interrupt that `sleep` sends for somebody else does no harm. `KeysInOrder` follows by
moving one key at a time between the parts of one sequence (`Handed`, `HeadAndTail`).

`ShippedProofs`, for any number of PCBs, segments, programs and names: the properties of the run `kernel`
(`TypeOK`, `WellDefined`, `QueueExact`, `MemoryAccounted`, `SleepLasts`, `ImplementsScheduler`) and `DeadStayDead`. They
are theorems about the kernel under the assumptions of `ShippedKernel`, which say what the programs on the disk and the
machine are like, and where the timer does not strike. Each excludes a situation in which the code fails, and of those the theorems say
nothing. `MemoryAccounted` says nothing of the load that fails for want of a PCB
(`kernel.c:213`), which the assumptions exclude and `WindowTerminate.cfg` shows to lose a segment:

| Assumption | Why the code has it | What happens without it |
|---|---|---|
| `SegmentsAssumption`: at least one segment, no number above 0x7000, no more segments than PCBs | eight PCBs and eight segments (`proc.h:57-58`), of which programs use the first six: the theorems hold until a seventh program would be loaded beside six others | `HighSegment.cfg`: from 0x8000 on the number is negative |
| `ProgramsAssumption`: the shell only starts programs and is not started again; the others sleep and terminate | what `shell.c` and `uprog1-4.c` call | `KillZombie.cfg`, `NoShell.cfg`, `yield_loses_sleeper` |
| `FilesAssumption`: no program is called IDLE | `proc.c` names the idle process | a process could not be told from the idle one |
| `SleepAssumption`: a sleep lasts two ticks at least and fits an int | 125 ticks in a second (`kernel.c:64`) | `SleepOverflow.cfg` |
| `WindowsAssumption`: three steps the timer does not strike before | nothing in the code: this is where it is wrong | `WindowFrame.cfg`, `WindowTerminate.cfg`, `WindowSleep.cfg` |

(`WindowTwoLoaders.cfg` needs a second process that loads programs, which `ProgramsAssumption` excludes.) No property is
inductive alone, and the parts of `IInv` need each other:

* `ProcessorExact` says where the thread on the processor may be, by who runs and in which state; `FramesExact` the
  same of every saved frame, so that a frame that is resumed fits the process again.
* `LoaderExact` says what `executeProgram` has found, taken and filled in so far. The timer may switch in the middle, so
  it speaks of `Loader`, the thread of the shell wherever that is.
* `ResidentsExact` and `MemoryExact` say together that the map, the segment fields and the program in each segment
  agree. From them follows that `getFreePCB` finds a PCB (`FindPcb`): processes have segments of their own, one more
  segment is taken for the new one, and there are no more segments than PCBs.
* `ShellExact`: the shell runs or is queued. So the queue is never empty when a process terminates or falls asleep,
  the idle process never gets the processor back, and the frame nobody prepared for it is never resumed.
* `ListExact` is `QueueExact` and the stale link of the process on the processor, which `terminate` follows.
* `SleepExact`: the counter is what the sleeper is still owed. A sleeper that is on the processor when it raises the
  timer interrupt itself has that tick counted too, so its counter is at least 2 until its turn in the loop; this is
  where two ticks at least are needed.

That a list has one sequence, and that a search finds the lowest free entry, would be inductions over a number. They are
instead proved from the least natural number at which a claim fails (`LeastNatural`, stated in `ProcQueueProofs` and, since
they share no module with it, in `FileSystemProofs` and `SessionProofs`; it is the library's theorem that `<` on the
natural numbers is well-founded). The step simulation of `Scheduler` maps `PublishPcb`,
`ReleaseRunning`, `Sleep`, `CountDown` and `SwitchProcess` and shows of every other step that it is a stutter.

`FileSystemProofs`, for any disk, any number of processes, names and contents: the properties of the run `file_system`
(`NoCrossLink`, `ListedAreUsed`, `ReadWhole`, `OnlyRewritesLose`, `ImplementsFileStore`), and `SystemIntact`,
which fails in the instance `FileByte.cfg`. The assumptions of `SafeFileSystem` are the
negations of the situations of the table above: one call at a time that changes the disk (`WritersAssumption`), room for
what is written (`RoomAssumption`), a zero left in each entry (`SizesAssumption`: without it
`NoOverrun` fails, as `LongSizes` shows with the 26 sectors the code accepts, and with it nothing is left to say about
overruns, so that there is no theorem of it), power between the last two steps of
`writeFile` (`PowerAssumption`), sector numbers that fit a byte (`ByteAssumption`); only `ReadersGetWhole` uses
`ReadersAssumption`, and only the refinement uses `RewriteAssumption` and `RequestAssumption`, the last of which says
that the value for "no request" is not a request.

* `IInv`: the directory and the map agree (`Agree`: lists without gaps, no sector twice, none unmarked, none of the
  system's), and so do the two copies on the stack of every call (`CopiesExact`). Between the two last steps of
  `writeFile` the directory lists sectors the map does not mark yet: `DiskExact` therefore speaks of `Taken`, the map
  together with the copy that is about to be written. A sector that is written to is not in `used` until then, which
  keeps it out of every list.
* `OverlapsAllowed` gives the argument for other processes: while one call changes the disk, the others only read, so
  no copy but the writer's own gets stale.
* `ReadersExact`: what a reader has yet to fetch still holds what the file had when the directory was read, because its
  sectors stay in `Taken` and writers only write outside it.
* `FilesExact` and `NamesUnique`: what a writer has written so far is the file it was asked for, and its entry is the
  only one of that name. `WriteDirectory` then is `Commit`, the begin of a call `Ask`, a call that finds no entry
  `Refuse`, `Load` is `Install` and `Crash` is `PowerFailure`; every other step changes neither a file nor a request.

`QueueRaceProofs`, for any finite set of PCBs and any set `EndWindows`: `ListExact` and `StatementsAgree`, the properties
of the run `queue_race`, `TypeOK` and `NoNullDereference`. The assumptions of `SafeQueueRace`:

| Assumption | Why the code has it | What happens without it |
|---|---|---|
| `PoolAssumption`: finitely many PCBs, 0 the shell's | `pcbPool` has eight; the shell is started first | |
| `ProgramsAssumption`: the shell only starts programs and kills who is not alone in the list; the others sleep and terminate | as in `ShippedKernel`; `Located` keeps out the process whose links mislead `releasePCB` | `KillZombie.cfg`, `NoShell.cfg` |
| `WindowsAssumption`: in calls of a living process ticks strike only before `addToReady` begins and before the last two assignments of `releasePCB` | nothing in the code: this is where it is wrong | `queue_race_add`, `QueueRaceKill.cfg` |

`ListExact` says nothing while a call is under way, and the list then need not be one. The invariant speaks of the memory
as it will be: `Settled` is the memory once the shell has executed the rest of its call, `Listed` the processes that are
then in the list, and `ListSettled` says that the one represents the other.

* `ShellExact` has a case for each stage of the shell's call (`ShellAdds`, `ShellLinks`, `ShellReleases`, `ShellUnlinks`).
  In two of them it speaks of what the rest of the statements will do (`Rest`, `Steady`): that they amount to the function
  as a whole and follow no NULL. A statement then moves from the rest into the memory and changes neither
  (`AfterFirst`, `RestAfterFirst`).
* The timer strikes with `clearNext` and `clearPrev` of a killed PCB still to come, and the handler queues and dequeues on
  a memory that is not settled. `SettlesAdd`, `SettlesRemove` and `SettlesClearNext` show that these assignments commute
  with what the handler and a `releasePCB` interleaved with them do, because the PCB they clear is not in the list.
* `RunningExact` is why `terminate` may be interrupted anywhere: the process that runs was the head, and its stale `next`
  link leads to the present head. Its `releasePCB` therefore sets the head to what it is, and the link of the head to the
  NULL it is. Once the timer has switched, the process is not resumed, and the statements it has left are never executed.
* `OthersExact` says of every process off the processor where it will go on, so that what is dispatched fits
  `RunningExact` again. `StatesExact` keeps the shell among the living, so that a list without it never runs empty.

`StatementsAgree` is the action property that justifies the single steps of `Kernel` and `ReadyQueue`. It follows from the
invariant's clauses on `was`: what the statements done and those left amount to.

`SessionProofs`, for any lines, names, files and buffer sizes: the properties of the run `session` (`TypeOK`,
`NamesAsMeant`, `SavedWhenAsked`, `DoneAsMeant`, `OnlyAsAsked`), and `BufferHoldsTheLine`: at every key the buffer holds what
the keys before have left. `NoOverrun` is a part of the invariant but no theorem of its own, since `FitsAssumption` nearly
says it. The assumptions of `SafeSession` say what the programs
rely on; each line of the last column is an instance of §3:

| Assumption | Why the code has it | What happens without it |
|---|---|---|
| `SizeAssumption`: a name is no longer than a file, a file is whole sectors | 6, 512 and 13312 cells (`shell.c`, `texted.c`) | |
| `KeysAssumption`, `NothingAssumption`: Enter is stored nowhere, a word has no zero and a letter is no blank; the values for "nothing" are no content | what the characters are | |
| `ExposedAssumption`: the shell leaves the keyboard to the editor, what is copied exists, and there are free sectors for what is written | the user waits for the editor, names files that exist and knows the disk; nothing in the code checks any of it | `Exposed = {"split"}`, `Exposed = {"missing"}`, `Exposed = {"full"}` |
| `FitsAssumption`: at every moment of its typing a line leaves a cell free in its buffer | nothing: `readString` counts no cells | `LongLines` |
| `FullNamesAssumption`, `FilenamesAssumption`: names have full length | `findFile` compares six characters | `SessionShort.cfg` |
| `CommandsAssumption`: a command is given the names it wants | the user | `SessionCopy.cfg` |
| `TextsAssumption`: a text is one line that ends with CTRL+D | `texted.c` saves at CTRL+D in front of Enter | `TextLines` |
| `DiskAssumption`: every file ends with a zero | `type` prints a string | `FullFile` |

No property is inductive alone:

* `ReadingExact` says that while a line is typed the keyboard holds the rest of one of `Lines` and the buffer begins with
  what the keys so far leave there. What keys leave is the recursive function `Typing`, with backspaces; `TypingDefined` shows
  that it exists, from the least number of keys without one, and the other proofs only use how one key extends it. It fixes what the user means as well, so that at Enter buffer and wish can be compared.
* `CommandExact`, `ShellExact` and `EditorExact` say that between Enter and the effect the buffers still hold the names and
  texts the user meant. That `OneName` and `TwoNames` find them by position, whatever is behind the line in the buffer,
  needs the names' full length.
* A full directory is not excluded. `DoneAsMeant` therefore has two ways in which a command may end: fulfilled, or refused because
  the file is new and no entry is left, with every file and sector as before, and with a message from `copy`.
* The room on the disk that the user has seen at the prompt is still there at the write: `CommandExact` and `EditorExact` carry it
  along, because nothing else writes while the editor runs.
* `FilesExact` says that every file fits and ends with a zero. It is what makes `type` show the file (`TextOfHolding`) and
  `copy` carry over the whole text although it moves cells of an older file with it.

`DoneAsMeant` and `OnlyAsAsked`, the actions of `FileStore` that `Session` may take, follow step by step.

Only model-checked:

* liveness (`NoStarvation`, `ReadyRuns`, `SleeperWakes`, `KeysArrive`), which is out of the prover's reach;
* `Kernel` with the programs of `kernel_live` and `kernel_kill_yield`, which call what `ProgramsAssumption` of
  `ShippedKernel` excludes;
* `NoOverrun` of `FileSystem` and of `Session`: its theorem would repeat an assumption;
* that the assumptions are needed: the instances of §3 in which a property fails.

## 5. Not modelled

* The self-modifying `interrupt()` (`kernel.asm:42-49`): two processes in the kernel share its patched byte, and a
  tick between the write and the `int` makes one call the other's BIOS function. Nothing in the code prevents it.
* Where characters appear on the screen (`putChar`, `putStr`), `dir`, `help`, and `showProcesses` (`kernel.c:112-125`),
  which reads the list while the timer changes it, prints the running process for every entry and changes nothing.
* Contents of registers and memory beyond the step a thread resumes at; time (ticks are counted; the interrupt that
  `sleep` raises itself counts as one for every sleeper, as in the code).
* `executeProgram` reads its file in one step with `"findSegment"`: the files are fixed during a run of `Kernel`.
* The interrupt of the disk (line 6), which waits like any other while a key is in hand.
* The boot loader (straight-line BIOS calls) and the earlier projects. The single-task kernel of `project3` and
  `project4` is the only earlier stage with behaviour `project6` has not.
* The vendored emulator and compiler, but for the parts named above. They are some 330 000 of the repository's 335 000
  lines, third-party programs (a CPU, a sound card, a debugger, a C compiler) that the kernel only runs on; the map
  therefore covers a small share of all lines, and nearly all of `project6`'s kernel.

## 6. Plan

Done: all modules above; every safety and action property of the passing runs is also a theorem, but for the ones
listed at the end of §4. What is left, in this order:

1. `InterruptGate`: two processes of the kernel in `interrupt()`.
2. `SingleTask`: the load and terminate cycle of `project3` and `project4`.
