------------------------------ MODULE TcpFrames ------------------------------
(***************************************************************************)
(* One slot of the TCP service at the level of bytes: what recv returns is *)
(* written to the slot's buffer (wifi.c), and in every round with bytes in *)
(* the buffer two handlers (main.c) run.  The first parses one frame at    *)
(* its front and queues a message, the second takes the message and makes  *)
(* a task of it.                                                           *)
(*                                                                         *)
(* recv may return any part of what the peer sent, several frames or a     *)
(* piece of one.  The parser reads a whole frame whether or not it has     *)
(* arrived: "cut" notes that it had not, "guessed" that the bytes found in *)
(* its place were taken for it.  From a guess on, only the buffer is       *)
(* followed, up to the next connection.                                    *)
(*                                                                         *)
(* How rounds visit slots, and answers, are in TcpServer.                  *)
(***************************************************************************)
EXTENDS RingBuffer, Lists

CONSTANTS
  Sof,          \* 0xfd, the first byte of a frame
  Learn, Send,  \* 0xaf, 0xbf
  Frames,       \* frames the peer may send: a type and a payload
  Stale,        \* what the cells of a new buffer may hold
  MaxFrames,    \* bound: frames on one connection
  MaxConns      \* bound: connections the slot serves, one after the other

\* The bytes of a frame; the parser takes the length from the first of its two.
Bytes(f) == <<Sof, f.type, Len(f.payload), 0>> \o f.payload \o <<0>>
Overhead == 5

ASSUME TcpFramesAssumption ==
  /\ {0, Sof, Learn, Send} \cup Stale \subseteq Byte /\ 0 .. Last \subseteq Byte
  /\ Byte \subseteq Nat
  /\ Learn # Send
  /\ \A f \in Frames : /\ f.type \in Byte /\ f.payload \in Seq(Byte)
                       /\ Overhead + Len(f.payload) <= Last
  /\ Overhead <= Last
  /\ Stale # {}
  /\ MaxFrames \in Nat /\ MaxConns \in Nat \ {0}

VARIABLES
  open,         \* the slot has a client
  fin,          \* that client closed its side
  wire,         \* bytes it sent that recv has not returned
  recv_buffer,
  sent,         \* history: the frames of this connection
  parsed,       \* history: how many of them the first handler accepted
  made,         \* history: the requests the second handler made of frames
  stray,        \* history: it made one of a message nobody queued
  cut,          \* history: a frame was looked at before it had arrived
  guessed,      \* history: a frame was accepted before it had arrived
  broken,       \* history: more was written to the buffer, or read, than it holds
  conns         \* history: connections so far

history == <<parsed, made, stray, cut, guessed>>
vars == <<open, fin, wire, recv_buffer, sent, history, broken, conns>>

TypeOK ==
  /\ open \in BOOLEAN /\ fin \in BOOLEAN
  /\ wire \in Seq(Byte)
  /\ recv_buffer \in RingBuffers
  /\ sent \in Seq(Frames) /\ Len(sent) <= MaxFrames
  /\ parsed \in Nat
  /\ \A k \in DOMAIN made : made[k].type \in Byte /\ made[k].payload \in Seq(Byte)
  /\ stray \in BOOLEAN /\ cut \in BOOLEAN /\ guessed \in BOOLEAN
  /\ broken \in BOOLEAN
  /\ conns \in 0 .. MaxConns

\* new_so_client: the positions are set, the array is what malloc returned.
Init ==
  /\ open = FALSE /\ fin = FALSE
  /\ wire = <<>>
  /\ \E b \in Stale :
       recv_buffer = [buffer |-> [i \in 0 .. Last |-> b], pos_read |-> 0, pos_write |-> 0]
  /\ sent = <<>> /\ parsed = 0 /\ made = <<>>
  /\ stray = FALSE /\ cut = FALSE /\ guessed = FALSE
  /\ broken = FALSE
  /\ conns = 0

-----------------------------------------------------------------------------
(* The peer                                                                *)

\* The service accepted a connection in this slot.
Connect ==
  /\ ~open /\ ~broken
  /\ conns < MaxConns
  /\ open' = TRUE /\ fin' = FALSE
  /\ conns' = conns + 1
  /\ sent' = <<>> /\ parsed' = 0 /\ made' = <<>>
  /\ stray' = FALSE /\ cut' = FALSE /\ guessed' = FALSE
  /\ UNCHANGED <<wire, recv_buffer, broken>>

PeerSends(f) ==
  /\ open /\ ~fin
  /\ Len(sent) < MaxFrames /\ ~guessed
  /\ sent' = Append(sent, f)
  /\ wire' = wire \o Bytes(f)
  /\ UNCHANGED <<open, fin, recv_buffer, history, broken, conns>>

PeerCloses ==
  /\ open /\ ~fin
  /\ fin' = TRUE
  /\ UNCHANGED <<open, wire, recv_buffer, sent, history, broken, conns>>

-----------------------------------------------------------------------------
(* The two handlers                                                        *)

\* server_client_msg_process makes a task of what the first handler queued.  When
\* that is nothing, xQueueReceive leaves the new message as malloc returned it,
\* and its type may be one of the two.
NothingQueued ==
  /\ stray' \in (IF guessed THEN {stray} ELSE {stray, TRUE})
  /\ UNCHANGED made

Queued(request) ==
  /\ made' = IF guessed THEN made ELSE Append(made, request)
  /\ UNCHANGED stray

IsKnown(type) == type \in {Learn, Send}

\* Seeded bug: a learn frame is accepted without a message for it.
QueuesSends(type) == type = Send

Queues(type) == IsKnown(type)

\* The payload of a "send" is copied from the array, not from what was read.
Payload(type, rb, n) == IF type = Send THEN [k \in 1 .. n |-> rb.buffer[k + 3]] ELSE <<>>

Consumed(rb, n) == Clear(rb, Overhead + n)

\* A frame that does not begin or end as it should leaves pos_read where it was,
\* and is tried again in the next round.
Refuse(rb) ==
  /\ NothingQueued
  /\ recv_buffer' = rb
  /\ UNCHANGED <<parsed, guessed, broken>>

\* The claimed length reaches behind the array: the reads leave it, and when what
\* they find happens to end in 0 so does the clear.
ParseOutside(rb) ==
  \/ Refuse(rb)
  \/ /\ broken' = TRUE /\ guessed' = TRUE
     /\ UNCHANGED <<recv_buffer, parsed, made, stray>>

Accept(rb, n, whole) ==
  LET type == At(rb, 1) IN
  /\ IF Queues(type)
     THEN Queued([type |-> type, payload |-> Payload(type, rb, n)])
     ELSE NothingQueued
  /\ recv_buffer' = Consumed(rb, n)
  /\ parsed' = IF guessed THEN parsed ELSE parsed + 1
  /\ guessed' = (guessed \/ ~whole)
  /\ UNCHANGED broken

\* server_recv_accept_send_process, followed by server_client_msg_process.
Parse(rb) ==
  LET n == At(rb, 2)
      whole == Len(Held(rb)) >= 3 /\ Len(Held(rb)) >= Overhead + n
  IN  /\ cut' = IF guessed THEN cut ELSE cut \/ ~whole
      /\ CASE At(rb, 0) # Sof -> Refuse(rb)
           [] Overhead + n > Last -> ParseOutside(rb)
           [] At(rb, Overhead + n - 1) # 0 -> Refuse(rb)
           [] OTHER -> Accept(rb, n, whole)

-----------------------------------------------------------------------------
(* The round's visit of this slot                                          *)

\* Seeded bug: the handlers run only for what has just arrived.
FreshBytes(rb, n) == n > 0

HasBytes(rb, n) == rb.pos_write > rb.pos_read

\* recv returns n bytes; n is 0 when the slot was not readable.
Visit(n) ==
  /\ open /\ ~broken
  /\ wire' = SubSeq(wire, n + 1, Len(wire))
  /\ IF ~Fits(recv_buffer, n)
     THEN /\ broken' = TRUE
          /\ UNCHANGED <<recv_buffer, history>>
     ELSE LET rb == Write(recv_buffer, SubSeq(wire, 1, n)) IN
          IF HasBytes(rb, n)
          THEN Parse(rb)
          ELSE recv_buffer' = rb /\ UNCHANGED <<history, broken>>
  /\ UNCHANGED <<open, fin, sent, conns>>

\* Seeded bug: a client's unread bytes are left to the next one.
KeptAtClose(rb) == rb

AtClose(rb) == Emptied(rb)

\* recv returns 0: whatever waits in the buffer is dropped.
VisitClosed ==
  /\ open /\ ~broken
  /\ fin /\ wire = <<>>
  /\ open' = FALSE
  /\ recv_buffer' = AtClose(recv_buffer)
  /\ UNCHANGED <<fin, wire, sent, history, broken, conns>>

-----------------------------------------------------------------------------
\* A readable slot is read: with bytes on the wire recv returns some, after the
\* last of them the end of the stream.
Unreadable == wire = <<>> /\ ~fin

Server ==
  \/ \E n \in 1 .. Len(wire) : Visit(n)
  \/ (Unreadable /\ Visit(0))
  \/ VisitClosed

Peer == Connect \/ PeerCloses \/ \E f \in Frames : PeerSends(f)

\* Nothing is connected any more, or the buffer is corrupt and we stop to follow.
Done ==
  /\ broken \/ (conns = MaxConns /\ ~open)
  /\ UNCHANGED vars

Next == Server \/ Peer \/ Done

Spec == Init /\ [][Next]_vars

\* task_tcp_service runs a round every 50 ms while the link is up.
FairSpec == Spec /\ WF_vars(Server)

-----------------------------------------------------------------------------
(* Properties                                                              *)

Flat(frames) == Joined([k \in 1 .. Len(frames) |-> Bytes(frames[k])])

AsRequest(f) ==
  [type |-> f.type, payload |-> IF f.type = Send THEN f.payload ELSE <<>>]

Requests(f) == IF IsKnown(f.type) THEN <<AsRequest(f)>> ELSE <<>>
Requested(frames) == Joined([k \in 1 .. Len(frames) |-> Requests(frames[k])])

Unparsed == SubSeq(sent, parsed + 1, Len(sent))

\* As long as nothing was guessed, the requests made, the bytes that wait in the
\* buffer and those on the wire are together the frames the client sent: none is
\* lost, doubled, cut or mixed up when several arrive at once, when a piece of one
\* is looked at too early, when clear moves a frame to the front, or when the
\* client before this one left a piece behind.  The buffer is written beyond what it
\* holds only when more bytes than that wait to be parsed.
FramesServed ==
  /\ TypeOK
  /\ (open \/ broken) /\ ~guessed =>
       /\ parsed <= Len(sent)
       /\ made = Requested(SubSeq(sent, 1, parsed))
       /\ IF broken
          THEN Len(Flat(Unparsed)) > Last
          ELSE Held(recv_buffer) \o wire = Flat(Unparsed)

\* A task for a request nobody made (the second handler does not look at the result
\* of xQueueReceive) needs a frame that was looked at too early, or one of a type
\* that the first handler does not queue.
StraysExplained ==
  stray => cut \/ \E k \in 1 .. parsed : ~IsKnown(sent[k].type)

\* A frame that was sent is parsed although only one is per round, unless a piece
\* of a frame was taken for one, the buffer overflows, or the client leaves (which
\* drops what waits).
FramesParsed ==
  \A k \in 1 .. MaxFrames :
    Len(sent) >= k ~> parsed >= k \/ guessed \/ broken \/ ~open
=============================================================================
