-------------------------- MODULE MCSafeQueueRace --------------------------
(***************************************************************************)
(* The instance of SafeQueueRace for TLC.                                  *)
(***************************************************************************)
EXTENDS SafeQueueRace, MCQueueRace
=============================================================================
