-------------------------- MODULE MCSafeFileSystem --------------------------
(***************************************************************************)
(* The instance of FileSystem that stays within the assumptions of         *)
(* SafeFileSystem.                                                         *)
(***************************************************************************)
EXTENDS SafeFileSystem, MCFileSystem
=============================================================================
