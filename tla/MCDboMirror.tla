---------------------------- MODULE MCDboMirror ----------------------------
(***************************************************************************)
(* The mirror of the block transfer queue on small instances.              *)
(***************************************************************************)
EXTENDS DboMirror

=============================================================================
