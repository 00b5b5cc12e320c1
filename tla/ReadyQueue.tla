----------------------------- MODULE ReadyQueue -----------------------------
(***************************************************************************)
(* The ready queue of project6/proc.c under the calls the kernel makes:    *)
(* addToReady for a PCB that is not queued, removeFromReady by the timer   *)
(* handler, releasePCB by kill and by terminate.                           *)
(*                                                                         *)
(* releasePCB trusts the links of the PCB it is given, and these may be    *)
(* stale.  Three situations make it correct, and the actions below are     *)
(* these three: a queued PCB that some PCB follows, the last of several    *)
(* whose own next link is NULL (ReleaseQueued both), and the PCB dequeued  *)
(* last, while the PCB that then became the head still is                  *)
(* (ReleaseDispatched, a process that terminates).  Outside the list, a    *)
(* PCB whose links are NULL needs no action: nothing changes.              *)
(* Left out are the situations in which releasePCB breaks the list: the    *)
(* tail with a stale next link, the only PCB of the list, and a process    *)
(* that killed the head its own stale link leads to.  Kernel.tla has       *)
(* them; kill gets there (KillZombie.cfg).                                 *)
(***************************************************************************)
EXTENDS ProcQueue

VARIABLES q,      \* readyHead, readyTail and the links
          out,    \* what the last removeFromReady returned
          fifo,   \* history: the PCBs queued, in order
          last    \* history: the PCB dequeued last, as long as its stale
                  \* next link is still the head of the list, else NULL

vars == <<q, out, fifo, last>>

Queued(p) == \E i \in 1 .. Len(fifo) : fifo[i] = p

Init ==
  /\ q = EmptyQueue
  /\ out = NULL
  /\ fifo = <<>>
  /\ last = NULL

Enqueue(p) ==
  /\ ~Queued(p)
  /\ q' = AddToReady(q, p)
  /\ fifo' = Append(fifo, p)
  /\ last' = IF p = last THEN NULL ELSE last
  /\ UNCHANGED out

Dequeue ==
  /\ fifo # <<>>
  /\ out' = RemovedFromReady(q)
  /\ q' = RemoveFromReady(q)
  /\ fifo' = Tail(fifo)
  /\ last' = IF Len(fifo) > 1 THEN Head(fifo) ELSE NULL

DequeueEmpty ==
  /\ fifo = <<>>
  /\ out' = RemovedFromReady(q)
  /\ q' = RemoveFromReady(q)
  /\ last' = NULL
  /\ UNCHANGED fifo

ReleaseQueued(i) ==
  /\ i < Len(fifo) \/ (Len(fifo) > 1 /\ q.next[fifo[i]] = NULL)
  /\ q' = ReleaseLinks(q, fifo[i])
  /\ fifo' = RemoveAt(fifo, i)
  /\ last' = IF i = 1 THEN NULL ELSE last
  /\ UNCHANGED out

ReleaseDispatched ==
  /\ last # NULL
  /\ q' = ReleaseLinks(q, last)
  /\ last' = NULL
  /\ UNCHANGED <<out, fifo>>

Next ==
  \/ \E p \in Pcb : Enqueue(p)
  \/ Dequeue
  \/ DequeueEmpty
  \/ \E i \in 1 .. Len(fifo) : ReleaseQueued(i)
  \/ ReleaseDispatched

Spec == Init /\ [][Next]_vars

-----------------------------------------------------------------------------
TypeOK ==
  /\ q \in Queue
  /\ out \in PcbPtr
  /\ fifo \in Seq(Pcb)
  /\ last \in PcbPtr

\* The links in memory hold exactly the queued PCBs, in the order in which
\* addToReady was called for them, each once: no call of proc.c loses,
\* duplicates or reorders a process (proc.c:100-182).
ListIntact == Represents(q, fifo) /\ NoDuplicates(fifo)

\* The stale next link of the PCB dequeued last still leads to the head, so
\* that the releasePCB of its terminate takes the "at the head" branch of
\* proc.c:105-108 and changes nothing.
LastLeadsToHead ==
  last # NULL => /\ fifo # <<>>
                 /\ ~Queued(last)
                 /\ q.next[last] = fifo[1]

IInv == TypeOK /\ ListIntact /\ LastLeadsToHead

\* No call follows a NULL pointer (proc.c:137, 143-144, 170, 178-179).
NoNullDereference == ~AddFaults(q) /\ ~RemoveFaults(q)

\* The pointer code behaves as a first-in first-out queue.
F == INSTANCE Fifo
ImplementsFifo == F!Spec
=============================================================================
