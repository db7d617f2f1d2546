---------------------------- MODULE MCMtapWindow ----------------------------
(***************************************************************************)
(* The MTAP window on small instances.                                     *)
(***************************************************************************)
EXTENDS MtapWindow

=============================================================================
