----------------------------- MODULE MCWifiLink -----------------------------
(* Instances of WifiLink for TLC. *)
EXTENDS WifiLink
=============================================================================
