------------------------------ MODULE MCKernel ------------------------------
(***************************************************************************)
(* Instances of Kernel for TLC: which programs are on the disk and what    *)
(* they call.  The programs of project6 are shell (executes others),       *)
(* uprog1 and uprog2 (print and terminate), uprog4 (sleeps, terminates).   *)
(***************************************************************************)
EXTENDS KernelProperties

\* The shell, a program that terminates, one that sleeps and terminates.
ShippedCalls == [f \in Files |->
  CASE f = "shell"  -> {"execute"}
    [] f = "uprog1" -> {"terminate"}
    [] f = "uprog4" -> {"sleep", "terminate"}]

\* The second segment holds a program that kills what lives there, itself, or
\* one that yields.
KillYieldCalls == [f \in Files |->
  CASE f = "shell"  -> {"execute"}
    [] f = "uprog1" -> {"kill"}
    [] f = "uprog4" -> {"yield"}]

\* A program that yields.
YieldCalls == [f \in Files |->
  CASE f = "shell"  -> {"execute"}
    [] f = "uprog1" -> {"yield"}
    [] f = "uprog4" -> {"sleep", "terminate"}]

\* The shell also kills.
KillCalls == [f \in Files |->
  CASE f = "shell"  -> {"execute", "kill"}
    [] f = "uprog1" -> {"terminate"}
    [] f = "IDLE"   -> {"terminate"}]
=============================================================================
