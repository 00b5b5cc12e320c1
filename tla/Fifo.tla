-------------------------------- MODULE Fifo --------------------------------
(***************************************************************************)
(* What the comments of proc.c promise of the ready queue: PCBs leave it   *)
(* in the order they entered it, a PCB taken out by releasePCB leaves the  *)
(* others in their order, and nothing else ever changes it.                *)
(***************************************************************************)
EXTENDS Integers, Sequences, SequencesExt

CONSTANTS Pcb, NULL

VARIABLES fifo,   \* the queued PCBs, the next one to leave first
          out     \* what the last removal returned

vars == <<fifo, out>>

Queued(p) == \E i \in 1 .. Len(fifo) : fifo[i] = p

Init == fifo = <<>> /\ out = NULL

Enqueue(p) ==
  /\ ~Queued(p)
  /\ fifo' = Append(fifo, p)
  /\ UNCHANGED out

Dequeue ==
  /\ fifo # <<>>
  /\ out' = Head(fifo)
  /\ fifo' = Tail(fifo)

DequeueEmpty ==
  /\ fifo = <<>>
  /\ out' = NULL
  /\ UNCHANGED fifo

Delete(i) ==
  /\ fifo' = RemoveAt(fifo, i)
  /\ UNCHANGED out

Next ==
  \/ \E p \in Pcb : Enqueue(p)
  \/ Dequeue
  \/ DequeueEmpty
  \/ \E i \in 1 .. Len(fifo) : Delete(i)

Spec == Init /\ [][Next]_vars
=============================================================================
