---------------------------- MODULE MCMqttStream ----------------------------
EXTENDS MqttStream

\* With a buffer of 5 and digits to the base 2: the shortest packet, one that fits
\* exactly, one a byte too long, and one longer still.
MCPackets ==
  {[type |-> 1, len |-> 0], [type |-> 3, len |-> 2], [type |-> 1, len |-> 3],
   [type |-> 3, len |-> 4]}
=============================================================================
