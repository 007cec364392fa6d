----------------------------- MODULE AtLeastOnce -----------------------------
(***************************************************************************)
(* What a QoS 1 publication promises to the application: a report that was *)
(* accepted is owed to the broker until the broker has a copy of it, and   *)
(* only then is it dropped.  The broker may get it more than once; when    *)
(* the device restarts, what is owed is forgotten.                         *)
(***************************************************************************)
CONSTANT Reports

VARIABLES
  owed,   \* accepted reports not yet confirmed
  got     \* reports of which the broker has a copy

vars == <<owed, got>>

Init == owed = {} /\ got = {}

Accept(m) ==
  /\ m \notin owed \cup got
  /\ owed' = owed \cup {m}
  /\ UNCHANGED got

Deliver(m) ==
  /\ m \in owed
  /\ got' = got \cup {m}
  /\ UNCHANGED owed

Confirm(m) ==
  /\ m \in owed \cap got
  /\ owed' = owed \ {m}
  /\ UNCHANGED got

Restart == owed' = {} /\ UNCHANGED got

Next == Restart \/ \E m \in Reports : Accept(m) \/ Deliver(m) \/ Confirm(m)

Spec == Init /\ [][Next]_vars
=============================================================================
