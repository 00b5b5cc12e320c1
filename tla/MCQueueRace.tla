---------------------------- MODULE MCQueueRace ----------------------------
(***************************************************************************)
(* Instances of QueueRace for TLC.  Process 0 is the shell, which never    *)
(* leaves: with it some process waits whenever another one runs.           *)
(***************************************************************************)
EXTENDS QueueRace

\* The shell starts and kills programs that sleep and terminate.
KillingShell ==
  [p \in Pcb |-> IF p = 0 THEN {"execute", "kill"}
                          ELSE {"sleep", "terminate"}]

\* The shell kills whatever waits.
KillingAny ==
  [p \in Pcb |-> IF p = 0 THEN {"execute", "kill", "killStale"}
                          ELSE {"sleep", "terminate"}]

\* Programs sleep and terminate, the one that started first too.
NoShell == [p \in Pcb |-> {"execute", "sleep", "terminate"}]
=============================================================================
