---------------------------- MODULE MCUtilsTimer ----------------------------
(* An instance of UtilsTimer for TLC: a 16-value clock. *)
EXTENDS UtilsTimer
=============================================================================
