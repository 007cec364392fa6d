---------------------------- MODULE MCIrEngine ----------------------------
(* Instances of IrEngine for TLC: every constant is given in the .cfg. *)
EXTENDS IrEngine
=============================================================================
