------------------------------ MODULE MCMqttPub ------------------------------
(* Instances of MqttPub for TLC: every constant is given in the .cfg. *)
EXTENDS MqttPub
=============================================================================
