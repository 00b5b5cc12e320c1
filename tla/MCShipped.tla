----------------------------- MODULE MCShipped -----------------------------
(***************************************************************************)
(* The instance of Kernel whose programs are those of project6: the        *)
(* assumptions of ShippedKernel hold of it.                                *)
(***************************************************************************)
EXTENDS ShippedKernel, MCKernel
=============================================================================
