----------------------------- MODULE ProcQueue -----------------------------
(***************************************************************************)
(* The ready queue of project6/proc.c as pointer code: a doubly linked     *)
(* list threaded through the process control blocks, with the globals      *)
(* readyHead and readyTail.                                                *)
(*                                                                         *)
(* A value of Queue holds the two globals and the next and prev field of   *)
(* every PCB, of those outside the list too: proc.c never clears the next  *)
(* field of a PCB it takes out of the list, and later calls read it.  The  *)
(* operators are what the three functions do to that memory; a "Faults"    *)
(* predicate says when a function would follow a NULL pointer.             *)
(***************************************************************************)
EXTENDS Integers, Sequences, SequencesExt

CONSTANTS Pcb,   \* the entries of pcbPool
          NULL   \* the null pointer

ASSUME NullAssumption == NULL \notin Pcb

PcbPtr == Pcb \cup {NULL}

Queue == [head : PcbPtr, tail : PcbPtr,
          next : [Pcb -> PcbPtr], prev : [Pcb -> PcbPtr]]

\* Faulty: the links hold what the memory held before.
EmptyQueueUncleared == [head |-> NULL, tail |-> NULL,
                        next |-> [p \in Pcb |-> -1],
                        prev |-> [p \in Pcb |-> -1]]

\* initializeProcStructures clears the two globals; the PCB links are the
\* zeroes the kernel's data segment is loaded with.
EmptyQueue == [head |-> NULL, tail |-> NULL,
               next |-> [p \in Pcb |-> NULL], prev |-> [p \in Pcb |-> NULL]]

-----------------------------------------------------------------------------
(* addToReady(pcb).                                                        *)

\* Faulty: a PCB that finds one other goes in front of it.
AddToReadyInFront(q, p) ==
  CASE q.head = NULL -> [q EXCEPT !.head = p, !.tail = p]
    [] q.head # NULL /\ q.head = q.tail ->
         [q EXCEPT !.next[p] = q.head, !.head = p, !.prev[q.tail] = p]
    [] q.head # NULL /\ q.head # q.tail ->
         [q EXCEPT !.prev[p] = q.tail, !.next[q.tail] = p, !.tail = p]

\* Faulty: a PCB that finds one other is not linked behind it.
AddToReadyUnlinked(q, p) ==
  CASE q.head = NULL -> [q EXCEPT !.head = p, !.tail = p]
    [] q.head # NULL /\ q.head = q.tail ->
         [q EXCEPT !.tail = p, !.prev[p] = q.head]
    [] q.head # NULL /\ q.head # q.tail ->
         [q EXCEPT !.prev[p] = q.tail, !.next[q.tail] = p, !.tail = p]

AddToReady(q, p) ==
  CASE q.head = NULL ->
         [q EXCEPT !.head = p, !.tail = p]
    [] q.head # NULL /\ q.head = q.tail ->
         [q EXCEPT !.next[q.head] = p, !.tail = p, !.prev[p] = q.head]
    [] q.head # NULL /\ q.head # q.tail ->
         [q EXCEPT !.prev[p] = q.tail, !.next[q.tail] = p, !.tail = p]

AddFaults(q) == q.head # NULL /\ q.tail = NULL

-----------------------------------------------------------------------------
(* removeFromReady(): the PCB it returns and the queue it leaves.          *)

\* Faulty: last in, first out.
RemovedFromReadyTail(q) == q.tail

RemovedFromReady(q) == q.head

\* Faulty: the new head keeps its link to the old one.
RemoveFromReadyKeepsPrev(q) ==
  CASE q.head = NULL -> q
    [] q.head # NULL /\ q.head = q.tail ->
         [q EXCEPT !.head = NULL, !.tail = NULL]
    [] q.head # NULL /\ q.head # q.tail -> [q EXCEPT !.head = q.next[q.head]]

RemoveFromReady(q) ==
  CASE q.head = NULL -> q
    [] q.head # NULL /\ q.head = q.tail ->
         [q EXCEPT !.head = NULL, !.tail = NULL]
    [] q.head # NULL /\ q.head # q.tail ->
         LET n == q.next[q.head]
         IN  [q EXCEPT !.head = n, !.prev[n] = NULL,
                       !.next[n] = IF n = q.tail THEN NULL ELSE @]

RemoveFaults(q) ==
  q.head # NULL /\ q.head # q.tail /\ q.next[q.head] = NULL

-----------------------------------------------------------------------------
(* What releasePCB(pcb) does to the list.  It decides where the PCB stands *)
(* from the PCB's own two links, never from readyHead and readyTail.       *)

ReleaseLinks(q, p) ==
  LET n == q.next[p]
      b == q.prev[p]
      unlinked ==
        CASE b = NULL /\ n # NULL -> [q EXCEPT !.head = n, !.prev[n] = NULL]
          [] b # NULL /\ n # NULL -> [q EXCEPT !.prev[n] = b, !.next[b] = n]
          [] b # NULL /\ n = NULL -> [q EXCEPT !.tail = b, !.next[b] = NULL]
          [] b = NULL /\ n = NULL -> q
  IN  [unlinked EXCEPT !.next[p] = NULL, !.prev[p] = NULL]

-----------------------------------------------------------------------------
(* The sequence of PCBs a well-formed list holds.                          *)

\* Every PCB of s occurs in it once.
NoDuplicates(s) == \A i, j \in 1 .. Len(s) : s[i] = s[j] => i = j

\* The memory q is a list of exactly the PCBs of s in that order.  The next
\* link of the tail, and of the PCBs outside the list, may hold anything.
Represents(q, s) ==
  /\ s = <<>> => q.head = NULL /\ q.tail = NULL
  /\ s # <<>> => q.head = s[1] /\ q.tail = s[Len(s)]
  /\ \A i \in 1 .. Len(s) - 1 : q.next[s[i]] = s[i + 1]
  /\ \A i \in 2 .. Len(s) : q.prev[s[i]] = s[i - 1]
  /\ s # <<>> => q.prev[s[1]] = NULL
  /\ \A p \in Pcb : (\A i \in 1 .. Len(s) : s[i] # p) => q.prev[p] = NULL

\* The PCBs met by following next from readyHead to readyTail, as far as that
\* leads in as many steps as there are PCBs.
Contents(r) ==
  LET chain[k \in 1 .. Cardinality(Pcb)] ==
        IF k = 1 THEN r.head
        ELSE IF chain[k - 1] \in {NULL, r.tail} THEN NULL
        ELSE r.next[chain[k - 1]]
      met == {k \in 1 .. Cardinality(Pcb) : chain[k] # NULL}
  IN  [k \in 1 .. Cardinality(met) |-> chain[k]]
=============================================================================
