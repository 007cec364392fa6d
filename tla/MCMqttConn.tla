----------------------------- MODULE MCMqttConn -----------------------------
(* Instances of MqttConn for TLC: every constant is given in the .cfg. *)
EXTENDS MqttConn
=============================================================================
