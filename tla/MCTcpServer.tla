---------------------------- MODULE MCTcpServer ----------------------------
(* Instance of TcpServer for TLC. *)
EXTENDS TcpServer

\* The third client, which closes move to other slots, asks for a code, and so does
\* the fourth, which comes when one of the first three has gone.
MCMaxFrames == <<0, 0, 1, 1>>
=============================================================================
