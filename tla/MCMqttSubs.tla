----------------------------- MODULE MCMqttSubs -----------------------------
(* Instances of MqttSubs for TLC: the device's filter ("x/#"), one with '+'    *)
(* in front of it, and topics below them, beside them and of other depths.     *)
EXTENDS MqttSubs

CONSTANTS h1, h2

TheWanted == {[filter |-> <<"x", "/", "#">>, handler |-> h1],
              [filter |-> <<"+", "/", "l">>, handler |-> h1],
              [filter |-> <<"x", "/", "#">>, handler |-> h2]}
TheNames == {<<"x", "/", "l">>, <<"x", "/", "s", "/", "l">>, <<"x", "y", "/", "l">>}
=============================================================================
