--------------------------- MODULE MCSafeSession ---------------------------
(***************************************************************************)
(* The instance of Session that stays within the assumptions of            *)
(* SafeSession.                                                            *)
(***************************************************************************)
EXTENDS SafeSession, MCSession
=============================================================================
