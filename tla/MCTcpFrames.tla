---------------------------- MODULE MCTcpFrames ----------------------------
EXTENDS TcpFrames

\* A learn frame, a send frame whose payload looks like the end of one and the
\* start of the next, and one of a type nobody handles.
MCFrames ==
  {[type |-> 175, payload |-> <<>>], [type |-> 191, payload |-> <<0, 253>>],
   [type |-> 7, payload |-> <<>>]}
MCByte == 0 .. 11 \cup {175, 191, 253}
=============================================================================
