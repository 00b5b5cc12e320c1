----------------------------- MODULE QueueRace -----------------------------
(***************************************************************************)
(* addToReady and releasePCB of project6/proc.c statement by statement,    *)
(* while the timer strikes.  The calls of a program run with interrupts on *)
(* (kernel.asm:83), so a tick may find the list half linked; the handler   *)
(* then queues and dequeues on the same list, with interrupts off, and     *)
(* another process may call the same functions before the interrupted one  *)
(* goes on with its next statement.                                        *)
(*                                                                         *)
(* A step is one statement of the two functions, or the test that selects  *)
(* a branch; they have no local variables, so a thread is the PCB it was   *)
(* called for and the steps it has left.  Windows is the set of steps      *)
(* before which the timer may strike; between calls it always may.         *)
(* Processes are as in Kernel, without segments and frames, and nobody     *)
(* yields: yield needs no tick to spoil the list.                          *)
(***************************************************************************)
EXTENDS ProcQueue, FiniteSets

CONSTANTS
  Idle,      \* idleProc
  Calls,     \* the calls the program of each process makes
  Windows,   \* the steps before which the timer may strike in a call ...
  EndWindows \* ... and further ones inside a terminate

ASSUME PcbIsNat == Pcb \subseteq Nat
ASSUME IdleIsNoPcb == Idle \notin PcbPtr

VARIABLES
  q,        \* readyHead, readyTail and the links
  state,    \* of the PCBs
  running,  \* the current PCB
  thread,   \* what each process is doing
  wild,     \* a NULL pointer was followed
  handler,  \* handleTimerInterrupt is at work ...
  due       \* ... and has still to queue these sleepers

vars == <<q, state, running, thread, wild, handler, due>>

irqVars == <<handler, due>>

\* The running process executes its program or its call.
Executes == ~wild /\ ~handler

\* A thread: the steps it has left of the function it is in, its argument,
\* and what it does afterwards.  "was" is history: the list as the function
\* found it, NULL once the timer has interrupted the function.
Doing(what) == [todo |-> <<>>, pcb |-> NULL, then |-> what, was |-> NULL]

Call(step, p, after) == [todo |-> <<step>>, pcb |-> p, then |-> after, was |-> q]

Step(t) == IF t.todo = <<>> THEN t.then ELSE Head(t.todo)

Arg == thread[running].pcb

Init ==
  /\ q = EmptyQueue
  /\ state = [p \in Pcb |-> IF p = 0 THEN "RUNNING" ELSE "DEFUNCT"]
  /\ running = 0
  /\ thread = [p \in Pcb \cup {Idle} |-> Doing("user")]
  /\ wild = FALSE
  /\ handler = FALSE
  /\ due = {}

-----------------------------------------------------------------------------
(* The calls of the running process.                                       *)

Invokes(call) ==
  /\ Executes
  /\ running # Idle
  /\ Step(thread[running]) = "user"
  /\ call \in Calls[running]

\* executeProgram, from the PCB it has taken.
Launch(p) ==
  /\ Invokes("execute")
  /\ state[p] = "DEFUNCT"
  /\ state' = [state EXCEPT ![p] = "STARTING"]
  /\ thread' = [thread EXCEPT ![p] = Doing("user"),
                              ![running] = Call("add", p, "user")]
  /\ UNCHANGED <<q, running, wild, irqVars>>

Terminate ==
  /\ Invokes("terminate")
  /\ thread' = [thread EXCEPT ![running] = Call("release", running, "spin")]
  /\ UNCHANGED <<q, state, running, wild, irqVars>>

\* The links of p say where it stands: it is not alone in the list, and has a
\* next link exactly when another PCB follows it.
Located(p) == q.head # q.tail /\ (q.next[p] = NULL <=> p = q.tail)

\* kill of a process that waits; "killStale" if releasePCB will be misled.
Kill(p) ==
  /\ Invokes(IF Located(p) THEN "kill" ELSE "killStale")
  /\ state[p] \in {"READY", "STARTING"}
  /\ thread' = [thread EXCEPT ![running] = Call("release", p, "user")]
  /\ UNCHANGED <<q, state, running, wild, irqVars>>

\* The interrupt that sleep raises is the next tick.
Sleep ==
  /\ Invokes("sleep")
  /\ state' = [state EXCEPT ![running] = "SLEEPING"]
  /\ thread' = [thread EXCEPT ![running] = Doing("asleep")]
  /\ UNCHANGED <<q, running, wild, irqVars>>

-----------------------------------------------------------------------------
(* The two functions.                                                      *)

\* Faulty: the head is set first.
AddBranchHeadFirst(r) ==
  CASE r.head = NULL -> <<"firstHead", "firstTail">>
    [] r.head # NULL /\ r.head = r.tail ->
         <<"secondNext", "secondPrev", "secondTail">>
    [] r.head # NULL /\ r.head # r.tail -> <<"lastPrev", "lastNext", "lastTail">>

\* The statements of the branch addToReady selects ...
AddBranch(r) ==
  CASE r.head = NULL -> <<"firstTail", "firstHead">>
    [] r.head # NULL /\ r.head = r.tail ->
         <<"secondNext", "secondTail", "secondPrev">>
    [] r.head # NULL /\ r.head # r.tail -> <<"lastPrev", "lastNext", "lastTail">>

\* Faulty: a PCB with a next link is taken for one in the middle.
ReleaseBranchNoHead(r, p) ==
  (IF r.next[p] # NULL THEN <<"middleNext", "middlePrev">> ELSE <<>>)
  \o <<"clearNext", "clearPrev">>

\* ... and releasePCB.
ReleaseBranch(r, p) ==
  LET n == r.next[p] # NULL
      b == r.prev[p] # NULL
  IN  (CASE ~b /\ n  -> <<"headNext", "headPrev">>
         [] b /\ n   -> <<"middleNext", "middlePrev">>
         [] b /\ ~n  -> <<"tailPrev", "tailNext">>
         [] ~b /\ ~n -> <<>>) \o <<"clearNext", "clearPrev">>

AddSteps == {"firstTail", "firstHead", "secondNext", "secondTail", "secondPrev",
             "lastPrev", "lastNext", "lastTail"}

ReleaseSteps == {"headNext", "headPrev", "middleNext", "middlePrev", "tailPrev",
                 "tailNext", "clearNext", "clearPrev"}

\* What a statement of addToReady assigns ...
AddAssigned(l, r, p) ==
  CASE l \in {"firstTail", "secondTail", "lastTail"} -> [r EXCEPT !.tail = p]
    [] l = "firstHead"  -> [r EXCEPT !.head = p]
    [] l = "secondNext" -> [r EXCEPT !.next[r.head] = p]
    [] l = "secondPrev" -> [r EXCEPT !.prev[r.tail] = r.head]
    [] l = "lastPrev"   -> [r EXCEPT !.prev[p] = r.tail]
    [] l = "lastNext"   -> [r EXCEPT !.next[r.prev[p]] = p]

\* ... and one of releasePCB ...
ReleaseAssigned(l, r, p) ==
  CASE l = "headNext"   -> [r EXCEPT !.head = r.next[p]]
    [] l = "headPrev"   -> [r EXCEPT !.prev[r.head] = NULL]
    [] l = "middleNext" -> [r EXCEPT !.prev[r.next[p]] = r.prev[p]]
    [] l = "middlePrev" -> [r EXCEPT !.next[r.prev[p]] = r.next[p]]
    [] l = "tailPrev"   -> [r EXCEPT !.tail = r.prev[p]]
    [] l = "tailNext"   -> [r EXCEPT !.next[r.tail] = NULL]
    [] l = "clearNext"  -> [r EXCEPT !.next[p] = NULL]
    [] l = "clearPrev"  -> [r EXCEPT !.prev[p] = NULL]

Assigned(l, r, p) ==
  IF l \in AddSteps THEN AddAssigned(l, r, p) ELSE ReleaseAssigned(l, r, p)

\* ... and the pointer it does that through.
Pointer(l, r, p) ==
  CASE l \in {"secondNext", "headPrev"} -> r.head
    [] l \in {"secondPrev", "tailNext"} -> r.tail
    [] l \in {"lastNext", "middlePrev"} -> r.prev[p]
    [] l = "middleNext"                 -> r.next[p]
    [] OTHER                            -> p

AddTest ==
  /\ Executes /\ Step(thread[running]) = "add"
  /\ thread' = [thread EXCEPT ![running].todo = AddBranch(q)]
  /\ UNCHANGED <<q, state, running, wild, irqVars>>

\* The state is set, then the links are looked at.
ReleaseState ==
  /\ Executes /\ Step(thread[running]) = "release"
  /\ state' = [state EXCEPT ![Arg] = "DEFUNCT"]
  /\ thread' = [thread EXCEPT ![running].todo = <<"where">>]
  /\ UNCHANGED <<q, running, wild, irqVars>>

ReleaseTest ==
  /\ Executes /\ Step(thread[running]) = "where"
  /\ thread' = [thread EXCEPT ![running].todo = ReleaseBranch(q, Arg)]
  /\ UNCHANGED <<q, state, running, wild, irqVars>>

\* The last statement is also the return.
Statement ==
  LET t == thread[running]
  IN  /\ Executes /\ t.todo # <<>> /\ Step(t) \notin {"add", "release", "where"}
      /\ q' = Assigned(Step(t), q, Arg)
      /\ wild' = (Pointer(Step(t), q, Arg) = NULL)
      /\ thread' = [thread EXCEPT ![running] =
                      IF Len(t.todo) = 1 THEN Doing(t.then)
                                         ELSE [t EXCEPT !.todo = Tail(@)]]
      /\ UNCHANGED <<state, running, irqVars>>

-----------------------------------------------------------------------------
(* A tick, with interrupts off: the sleepers that are due are queued, one  *)
(* after the other, then the running process if it is still there, and the *)
(* head of the list runs.                                                  *)

KeepsRunning ==
  running # Idle /\ state[running] \notin {"DEFUNCT", "SLEEPING"}

Tick(sleepers) ==
  /\ Executes
  /\ LET t == thread[running]
     IN  Step(t) \in {"user", "spin", "asleep"} \cup Windows
                     \cup (IF t.then = "spin" THEN EndWindows ELSE {})
  /\ \A p \in sleepers : state[p] = "SLEEPING" /\ p # running
  /\ handler' = TRUE
  /\ due' = sleepers
  /\ thread' = [thread EXCEPT ![running] =
       IF @.then = "asleep" THEN Doing("user") ELSE [@ EXCEPT !.was = NULL]]
  /\ UNCHANGED <<q, state, running, wild>>

\* The loop over pcbPool.
Wake(p) ==
  /\ ~wild /\ handler
  /\ p \in due /\ \A r \in due : p <= r
  /\ due' = due \ {p}
  /\ state' = [state EXCEPT ![p] = "READY"]
  /\ q' = AddToReady(q, p)
  /\ wild' = AddFaults(q)
  /\ UNCHANGED <<running, thread, handler>>

\* What follows the loop.
Switch ==
  /\ ~wild /\ handler /\ due = {}
  /\ LET r == IF KeepsRunning THEN AddToReady(q, running) ELSE q
         p == RemovedFromReady(r)
     IN  /\ q' = RemoveFromReady(r)
         /\ wild' = (RemoveFaults(r) \/ (KeepsRunning /\ AddFaults(q)))
         /\ running' = IF p = NULL THEN Idle ELSE p
         /\ state' = [x \in Pcb |-> IF x = p THEN "RUNNING"
                                    ELSE IF x = running /\ KeepsRunning THEN "READY"
                                    ELSE state[x]]
  /\ handler' = FALSE
  /\ UNCHANGED <<thread, due>>

Invoke ==
  \/ \E p \in Pcb : Launch(p) \/ Kill(p)
  \/ Terminate
  \/ Sleep

Next ==
  \/ Invoke
  \/ AddTest
  \/ ReleaseState
  \/ ReleaseTest
  \/ Statement
  \/ \E sleepers \in SUBSET Pcb : Tick(sleepers)
  \/ \E p \in Pcb : Wake(p)
  \/ Switch

Spec == Init /\ [][Next]_vars

-----------------------------------------------------------------------------
Steps == {"user", "spin", "asleep", "add", "release", "where"}
         \cup AddSteps \cup ReleaseSteps

\* No process that can still run is inside addToReady or releasePCB.
Quiet ==
  \A p \in Pcb : p = running \/ state[p] # "DEFUNCT" => thread[p].todo = <<>>

\* No NULL is followed, and once every call is over the links hold the waiting
\* processes, each once, however often the timer struck inside a call
\* (proc.c:100-148).
ListExact ==
  ~wild /\ (Quiet =>
    /\ Represents(q, Contents(q))
    /\ NoDuplicates(Contents(q))
    /\ {Contents(q)[i] : i \in DOMAIN Contents(q)}
         = {p \in Pcb : state[p] \in {"READY", "STARTING"}})

\* No tick makes a function follow a NULL pointer (proc.c:107-117, 137-144).
NoNullDereference == ~wild

\* A call the timer did not interrupt does what the one-step operators of
\* ProcQueue say, which Kernel and ReadyQueue rest on (proc.c:100-148).
StatementsAgree ==
  [][\A p \in Pcb :
       LET t == thread[p]
       IN  Len(t.todo) = 1 /\ thread'[p].todo = <<>> /\ t.was # NULL
             => q' = IF Step(t) = "clearPrev" THEN ReleaseLinks(t.was, t.pcb)
                                              ELSE AddToReady(t.was, t.pcb)]_vars
=============================================================================
