----------------------------- MODULE Scheduler -----------------------------
(***************************************************************************)
(* What project6 promises of processes: the scheduler, the process table   *)
(* and the memory map seen from outside, without the links, the frames and *)
(* the counters.  Kernel.tla is shown to implement it for the programs of  *)
(* the project.                                                            *)
(*                                                                         *)
(* A process that terminates or goes to sleep stays on the CPU, doing      *)
(* nothing, until the next Switch.                                         *)
(***************************************************************************)
EXTENDS Integers, Sequences

CONSTANTS Pcb,      \* the process control blocks of pcbPool
          Seg,      \* the memory segments programs are loaded into
          Idle,     \* idleProc
          NoSeg     \* the home of a process that does not exist

ASSUME IdleAssumption == Idle \notin Pcb
ASSUME NoSegAssumption == NoSeg \notin Seg

VARIABLES state,    \* DEFUNCT, STARTING, READY, RUNNING or SLEEPING
          home,     \* the segment a process lives in
          ready,    \* the ready queue
          running   \* the process on the CPU

vars == <<state, home, ready, running>>

State == {"DEFUNCT", "STARTING", "READY", "RUNNING", "SLEEPING"}

Live(p) == state[p] # "DEFUNCT"

Queued(p) == \E i \in 1 .. Len(ready) : ready[i] = p

Init ==
  /\ state = [p \in Pcb |-> "DEFUNCT"]
  /\ home = [p \in Pcb |-> NoSeg]
  /\ ready = <<>>
  /\ running = Idle

\* Faulty: the segment may have an owner.
LaunchAnywhere(p, s) ==
  /\ ~Live(p) /\ p # running
  /\ state' = [state EXCEPT ![p] = "STARTING"]
  /\ home' = [home EXCEPT ![p] = s]
  /\ ready' = Append(ready, p)
  /\ UNCHANGED running

\* executeProgram: a new process in a segment no live process has.
Launch(p, s) ==
  /\ ~Live(p)
  /\ p # running
  /\ \A r \in Pcb : home[r] # s
  /\ state' = [state EXCEPT ![p] = "STARTING"]
  /\ home' = [home EXCEPT ![p] = s]
  /\ ready' = Append(ready, p)
  /\ UNCHANGED running

\* Faulty: the home of the dead is the idle process.
TerminateToIdle ==
  /\ running \in Pcb /\ state[running] = "RUNNING"
  /\ state' = [state EXCEPT ![running] = "DEFUNCT"]
  /\ home' = [home EXCEPT ![running] = Idle]
  /\ UNCHANGED <<ready, running>>

\* terminate: the process and its segment are free at once.
Terminate ==
  /\ running \in Pcb
  /\ state[running] = "RUNNING"
  /\ state' = [state EXCEPT ![running] = "DEFUNCT"]
  /\ home' = [home EXCEPT ![running] = NoSeg]
  /\ UNCHANGED <<ready, running>>

\* sleep.
Sleep ==
  /\ running \in Pcb
  /\ state[running] = "RUNNING"
  /\ state' = [state EXCEPT ![running] = "SLEEPING"]
  /\ UNCHANGED <<home, ready, running>>

\* Faulty: the process that wakes is not queued.
WakeUnqueued(p) ==
  /\ state[p] = "SLEEPING" /\ p # running
  /\ state' = [state EXCEPT ![p] = "READY"]
  /\ UNCHANGED <<home, ready, running>>

\* The sleep of p is over.
Wake(p) ==
  /\ state[p] = "SLEEPING"
  /\ p # running
  /\ state' = [state EXCEPT ![p] = "READY"]
  /\ ready' = Append(ready, p)
  /\ UNCHANGED <<home, running>>

\* handleTimerInterrupt: the running process goes to the tail of the queue,
\* unless it sleeps or is gone, and the head of the queue gets the CPU.
\* Faulty: it goes to the head.
RequeuedInFront == IF running \in Pcb /\ state[running] = "RUNNING"
                   THEN <<running>> \o ready
                   ELSE ready

\* Faulty: it is not queued at all.
RequeuedNever == ready

Requeued == IF running \in Pcb /\ state[running] = "RUNNING"
            THEN Append(ready, running)
            ELSE ready

Switch ==
  /\ Requeued # <<>>
  /\ running' = Head(Requeued)
  /\ ready' = Tail(Requeued)
  /\ state' = [p \in Pcb |->
                 IF p = Head(Requeued) THEN "RUNNING"
                 ELSE IF p = running /\ state[p] = "RUNNING" THEN "READY"
                 ELSE state[p]]
  /\ UNCHANGED home

SwitchToIdle ==
  /\ Requeued = <<>>
  /\ running' = Idle
  /\ UNCHANGED <<state, home, ready>>

Next ==
  \/ \E p \in Pcb, s \in Seg : Launch(p, s)
  \/ Terminate
  \/ Sleep
  \/ \E p \in Pcb : Wake(p)
  \/ Switch
  \/ SwitchToIdle

Spec == Init /\ [][Next]_vars

\* The timer never stops.
FairSpec == Spec /\ WF_vars(Switch)

-----------------------------------------------------------------------------
TypeOK ==
  /\ state \in [Pcb -> State]
  /\ home \in [Pcb -> Seg \cup {NoSeg}]
  /\ ready \in Seq(Pcb)
  /\ running \in Pcb \cup {Idle}

\* The queue holds exactly the processes that wait for the CPU, each once: no
\* process is lost and none gets two turns (kernel.c:78-100).
ReadyExact ==
  /\ \A i, j \in 1 .. Len(ready) : ready[i] = ready[j] => i = j
  /\ \A p \in Pcb : Queued(p) <=> state[p] \in {"STARTING", "READY"}

\* Only the process on the CPU is RUNNING, and the one on the CPU never waits.
OneRunning ==
  /\ \A p \in Pcb : state[p] = "RUNNING" => p = running
  /\ running \in Pcb => state[running] \in {"RUNNING", "SLEEPING", "DEFUNCT"}

\* No two live processes share a segment, and the dead have none
\* (kernel.c:190-200, 242-248).
SegmentExclusive ==
  /\ \A p \in Pcb : home[p] = NoSeg <=> ~Live(p)
  /\ \A p, r \in Pcb : p # r /\ home[p] = home[r] => home[p] = NoSeg

IInv == TypeOK /\ ReadyExact /\ OneRunning /\ SegmentExclusive

\* Every process that waits for the CPU gets it.
NoStarvation == \A p \in Pcb : Queued(p) ~> running = p
=============================================================================
