--------------------------- MODULE SafeQueueRace ---------------------------
(***************************************************************************)
(* QueueRace where the timer does no harm: the programs of the project,    *)
(* and a timer that strikes in a terminate anywhere, in addToReady before  *)
(* its first assignment and in the releasePCB of kill before its last two. *)
(* The invariant says what a thread in the middle of a call still has to   *)
(* do, and that the memory is a list of the waiting processes once the     *)
(* shell has done the rest of its call.                                    *)
(***************************************************************************)
EXTENDS QueueRace

\* The shell is a process like the others.
ASSUME PoolAssumption == IsFiniteSet(Pcb) /\ 0 \in Pcb

\* The shell starts programs and kills who is not alone in the list, and never
\* sleeps nor terminates; the programs sleep and terminate.
ASSUME ProgramsAssumption ==
  /\ Calls[0] \subseteq {"execute", "kill"}
  /\ \A p \in Pcb \ {0} : Calls[p] \subseteq {"sleep", "terminate"}

\* Nothing in the code: elsewhere a tick spoils the list.
ASSUME WindowsAssumption ==
  Windows \subseteq {"add", "clearNext", "clearPrev"}

-----------------------------------------------------------------------------
(* The rest of a call.                                                     *)

Tests == {"add", "release", "where"}

\* The memory after the first k of the statements todo, at most four.
After(todo, r, p, k) ==
  LET one   == IF k < 1 THEN r ELSE Assigned(todo[1], r, p)
      two   == IF k < 2 THEN one ELSE Assigned(todo[2], one, p)
      three == IF k < 3 THEN two ELSE Assigned(todo[3], two, p)
  IN  IF k < 4 THEN three ELSE Assigned(todo[4], three, p)

Rest(todo, r, p) == After(todo, r, p, Len(todo))

\* None of them follows a NULL pointer.
Steady(todo, r, p) ==
  \A k \in 1 .. Len(todo) : Pointer(todo[k], After(todo, r, p, k - 1), p) # NULL

\* What is left of a releasePCB that has taken its PCB out of the list.
Clearing == {<<"clearNext", "clearPrev">>, <<"clearPrev">>}

\* The two assignments of that come last, and once.
ClearsLast(todo) ==
  \A k \in 1 .. Len(todo) : /\ todo[k] = "clearPrev" <=> k = Len(todo)
                            /\ todo[k] = "clearNext" <=> k = Len(todo) - 1

-----------------------------------------------------------------------------
(* The invariant.                                                          *)

Thread == [todo : Seq(Steps), pcb : PcbPtr,
           then : {"user", "spin", "asleep"}, was : Queue \cup {NULL}]

TypeOK ==
  /\ q \in Queue
  /\ state \in [Pcb -> {"DEFUNCT", "STARTING", "READY", "RUNNING", "SLEEPING"}]
  /\ running \in Pcb
  /\ DOMAIN thread = Pcb \cup {Idle}
  /\ \A p \in Pcb : thread[p] \in Thread
  /\ wild = FALSE
  /\ handler \in BOOLEAN
  /\ due \subseteq Pcb

\* Which states go together.  The shell lives and waits or runs.
StatesExact ==
  /\ state[0] \in {"RUNNING", "READY"}
  /\ state[running] \in {"RUNNING", "SLEEPING", "DEFUNCT"}
  /\ \A p \in Pcb : state[p] = "RUNNING" => p = running
  /\ \A p \in due : state[p] = "SLEEPING" /\ p # running
  /\ ~handler => due = {}

Shell == thread[0]

\* Nothing has happened since the shell's call began.
Undisturbed == running = 0 /\ ~handler

\* addToReady has been called, for a new process ...
ShellAdds(t) ==
  /\ t.todo = <<"add">>
  /\ state[t.pcb] = "STARTING"
  /\ t.was \in {NULL, q}

\* ... and has chosen its branch: "was" tells what the rest makes of the list.
ShellLinks(t) ==
  /\ t.todo \in Seq(AddSteps) /\ Len(t.todo) \in 1 .. 4
  /\ Undisturbed
  /\ state[t.pcb] = "STARTING"
  /\ Steady(t.todo, q, t.pcb)
  /\ t.was # NULL => Rest(t.todo, q, t.pcb) = AddToReady(t.was, t.pcb)

\* releasePCB has been called, for a process whose links say where it is ...
ShellReleases(t) ==
  /\ t.todo \in {<<"release">>, <<"where">>}
  /\ Undisturbed
  /\ state[t.pcb] \in (IF t.todo = <<"where">> THEN {"DEFUNCT"}
                                              ELSE {"READY", "STARTING"})
  /\ Located(t.pcb)
  /\ t.was = q

\* ... and has chosen its branch.
ShellUnlinks(t) ==
  /\ t.todo \in Seq(ReleaseSteps) /\ Len(t.todo) \in 1 .. 4
  /\ Undisturbed \/ t.todo \in Clearing
  /\ ClearsLast(t.todo)
  /\ state[t.pcb] = "DEFUNCT"
  /\ Steady(t.todo, q, t.pcb)
  /\ t.was # NULL => Rest(t.todo, q, t.pcb) = ReleaseLinks(t.was, t.pcb)

\* The shell's call.  Where the timer may not strike the shell still runs.
ShellExact ==
  /\ Shell.then = "user"
  /\ \/ Shell.todo = <<>>
     \/ /\ Shell.pcb \in Pcb \ {0}
        /\ Shell.pcb # running
        /\ ~Undisturbed => Shell.was = NULL
        /\ \/ ShellAdds(Shell) \/ ShellLinks(Shell)
           \/ ShellReleases(Shell) \/ ShellUnlinks(Shell)

\* The memory r once the thread t has done what is left of its call, and the
\* memory once the shell has.
Settles(t, r) == IF Step(t) \in Tests THEN r ELSE Rest(t.todo, r, t.pcb)

Settled == Settles(Shell, q)

\* The processes in the list.
Listed ==
  ({p \in Pcb : state[p] \in {"READY", "STARTING"}}
     \ (IF Step(Shell) = "add" THEN {Shell.pcb} ELSE {}))
  \cup (IF Step(Shell) = "where" THEN {Shell.pcb} ELSE {})

Elements(s) == {s[i] : i \in 1 .. Len(s)}

ListedAs(s) ==
  /\ s \in Seq(Pcb)
  /\ Represents(Settled, s)
  /\ NoDuplicates(s)
  /\ Elements(s) = Listed

ListSettled == Settled \in Queue /\ \E s \in Seq(Pcb) : ListedAs(s)

\* What every other living process is doing.
OtherExact(p) ==
  LET t == thread[p]
  IN  /\ state[p] \in {"STARTING", "READY", "RUNNING"} =>
           /\ t.then = (IF t.todo = <<>> THEN "user" ELSE "spin")
           /\ t.todo # <<>> => t.todo = <<"release">> /\ t.pcb = p
      /\ state[p] = "SLEEPING" =>
           /\ t.todo = <<>>
           /\ t.then = (IF p = running /\ ~handler THEN "asleep" ELSE "user")
      /\ t.todo # <<>> /\ (p # running \/ handler) => t.was = NULL

OthersExact == \A p \in Pcb \ {0} : OtherExact(p)

\* The process on the processor is the one dequeued last, and its stale next
\* link leads to the head of the list until its terminate has cleared it: the
\* other statements of that releasePCB leave the memory as it is.
RunningExact ==
  LET t == thread[running]
      cleared == state[running] = "DEFUNCT" /\ t.todo \in {<<>>, <<"clearPrev">>}
  IN  running # 0 =>
        /\ ~cleared => q.next[running] = q.head
        /\ state[running] = "DEFUNCT" =>
             /\ t.then = "spin"
             /\ t.todo # <<>> => t.pcb = running
             /\ t.todo \in {<<>>, <<"where">>, <<"clearPrev">>,
                            <<"clearNext", "clearPrev">>,
                            <<"headPrev", "clearNext", "clearPrev">>,
                            <<"headNext", "headPrev", "clearNext", "clearPrev">>}
        /\ t.todo # <<>> /\ t.was # NULL =>
             IF t.todo = <<"clearPrev">> THEN q = ReleaseLinks(t.was, running)
                                         ELSE q = t.was

IInv == /\ TypeOK /\ StatesExact /\ ShellExact /\ ListSettled
        /\ OthersExact /\ RunningExact
=============================================================================
