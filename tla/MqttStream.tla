----------------------------- MODULE MqttStream -----------------------------
(***************************************************************************)
(* The MQTT connection as two streams of bytes (mqtt_client.c): how        *)
(* iotx_mc_read_packet cuts packets out of what the broker sends, and how  *)
(* iotx_mc_send_packet writes them.                                        *)
(*                                                                         *)
(* A read returns any part of what was asked for, or nothing: SO_RCVTIMEO  *)
(* is over, the peer has closed, or the socket failed, which               *)
(* tcp_esp32_read does not tell apart.  A write takes any part of what it  *)
(* was given, or fails.                                                    *)
(*                                                                         *)
(* A packet is a header, the digits of the length of its body, and its     *)
(* body.  CONNECT and CONNACK, which go through the same functions before  *)
(* the state is connected, are part of NewConnection.  When requests are   *)
(* made, and what packets do, is in MqttConn, MqttPub and MqttSubs.        *)
(***************************************************************************)
EXTENDS Integers, Sequences, Lists

CONSTANTS
  Base,         \* 128: a digit is below it, and has it added when more follow
  MaxDigits,    \* MAX_NO_OF_REMAINING_LENGTH_BYTES (4)
  BufSize,      \* buf_size_read (2048)
  Publish,      \* the type of a packet that is delivered; others are only handled
  Packets,      \* packets the broker may send: a type and the length of the body
  Sizes,        \* sizes of the packets the client sends
  MaxDown,      \* bound: packets the broker sends on a connection
  MaxUp,        \* bound: packets the client begins on a connection
  MaxConns      \* bound: connections

ASSUME MqttStreamAssumption ==
  /\ Base \in Nat \ {0, 1} /\ MaxDigits \in Nat \ {0}
  /\ BufSize \in Nat /\ BufSize > MaxDigits
  /\ \A p \in Packets : /\ p.type \in Nat
                        /\ p.len \in 0 .. Base ^ MaxDigits - 1
  /\ Publish \in Nat
  /\ Sizes \subseteq Nat \ {0}
  /\ MaxDown \in Nat /\ MaxUp \in Nat /\ MaxConns \in Nat

VARIABLES
  state,        \* "connected"; "disconnected": seen by the client, not yet closed;
                \* "closed"
  incoming,     \* bytes the broker sent that no read has returned
  stage,        \* the read that comes next, or what the client does instead
  value, multiplier, len,       \* locals of iotx_mc_decode_packet
  buf_read,     \* what the read buffer holds of the packet being read
  sending,      \* the packet in iotx_mc_send_packet and its local "sent"
  outgoing,     \* the bytes the broker got
  sent,         \* history: the packets the broker sent on this connection
  handled,      \* history: what the buffer held at each packet handled
  astray,       \* history: reading goes on in the middle of a packet
  reported,     \* history: the packets the client was told had been sent
  broken,       \* history: the kind of packet that was written in part
  behind,       \* history: the kinds of packets written behind that one
  begun,        \* history: packets begun on this connection
  conns         \* history: connections so far

reader == <<stage, value, multiplier, len, buf_read>>
writer == <<sending, outgoing, reported, broken, behind, begun>>
broker == <<incoming, sent>>
streamVars == <<state, broker, reader, handled, astray, writer, conns>>

Nothing == [kind |-> "none", no |-> 0, size |-> 0, sent |-> 0]
Kinds == {"request", "report", "puback"}

\* MQTTPacket_encode: the digits of a length, the lowest first.
Encode(n) ==
  LET digits[k \in 0 .. n] ==
        IF k < Base THEN <<k>> ELSE <<(k % Base) + Base>> \o digits[k \div Base]
  IN  digits[n]

\* Bytes know the packet they belong to and their place in it.
Byte(no, at, val) == [no |-> no, at |-> at, val |-> val]

Bytes(no, p) ==
  LET digits == Encode(p.len)
      head == Len(digits) + 1
  IN  [k \in 1 .. head + p.len |->
         Byte(no, k, CASE k = 1 -> p.type [] k \in 2 .. head -> digits[k - 1] [] OTHER -> 0)]

StreamTypeOK ==
  /\ state \in {"connected", "disconnected", "closed"}
  /\ stage \in {"top", "length", "rest", "drop", "handle", "deliver", "ack"}
  /\ value \in Nat /\ multiplier \in Nat /\ len \in 0 .. MaxDigits
  /\ Len(buf_read) <= BufSize
  /\ sending = Nothing \/ /\ sending.kind \in Kinds /\ sending.size \in Sizes
                          /\ sending.no \in 1 .. MaxUp
                          /\ sending.sent \in 0 .. 2 * sending.size
  /\ sent \in Seq(Packets) /\ Len(sent) <= MaxDown
  /\ astray \in BOOLEAN
  /\ broken \in Kinds \cup {"none"} /\ behind \subseteq Kinds
  /\ begun \in 0 .. MaxUp /\ conns \in 0 .. MaxConns

StreamInit ==
  /\ state = "closed"
  /\ incoming = <<>> /\ sent = <<>>
  /\ stage = "top" /\ value = 0 /\ multiplier = 1 /\ len = 0 /\ buf_read = <<>>
  /\ handled = <<>> /\ astray = FALSE
  /\ sending = Nothing
  /\ outgoing = <<>> /\ reported = <<>> /\ broken = "none" /\ behind = {} /\ begun = 0
  /\ conns = 0

-----------------------------------------------------------------------------
(* Reading                                                                 *)

\* What a read of at most n bytes may return, as a length.
Returned(n) == 0 .. (IF n <= Len(incoming) THEN n ELSE Len(incoming))

Take(n) == /\ incoming' = SubSeq(incoming, n + 1, Len(incoming))
           /\ UNCHANGED sent

\* Seeded bug: a packet that ends too early is skipped.
KeepConnected == state

GiveUp == "disconnected"

\* iotx_mc_cycle disconnects a client whose packet cannot be read.
ReadFails ==
  /\ state' = GiveUp
  /\ stage' = "top"
  /\ UNCHANGED <<value, multiplier, len, buf_read, handled, astray, writer, conns>>

\* The header; nothing to read is no failure.
ReadHeader(n) ==
  /\ stage = "top" /\ state = "connected" /\ sending = Nothing /\ ~astray
  /\ n \in Returned(1)
  /\ Take(n)
  /\ IF n = 0
     THEN UNCHANGED reader
     ELSE /\ buf_read' = <<incoming[1]>>
          /\ value' = 0 /\ multiplier' = 1 /\ len' = 0
          /\ stage' = "length"
  /\ UNCHANGED <<state, handled, astray, writer, conns>>

\* One round of iotx_mc_decode_packet; behind the last digit the length goes to the
\* buffer, encoded again.
ReadDigit(n) ==
  /\ stage = "length"
  /\ n \in Returned(1)
  /\ Take(n)
  /\ IF len + 1 > MaxDigits \/ n = 0
     THEN ReadFails
     ELSE LET total == value + (incoming[1].val % Base) * multiplier
              more == incoming[1].val >= Base
              no == buf_read[1].no
              digits == Encode(total)
          IN  /\ value' = total
              /\ multiplier' = multiplier * Base
              /\ len' = len + 1
              /\ IF more
                 THEN UNCHANGED <<stage, buf_read>>
                 ELSE /\ stage' = IF total = 0 THEN "handle" ELSE "rest"
                      /\ buf_read' =
                           buf_read \o [k \in DOMAIN digits |-> Byte(no, k + 1, digits[k])]
              /\ UNCHANGED <<state, handled, astray, writer, conns>>

\* Seeded bug: the length is compared without the header and its digits.
BodyTooLong == value > BufSize

\* The header with its digits, and whether the body has room behind it.
HeadLen == 1 + Len(Encode(value))
TooLong == value + HeadLen > BufSize

\* The body, or as much of it as the buffer takes, with one read.
ReadRest(n) ==
  LET wanted == IF TooLong THEN BufSize - HeadLen ELSE value
  IN  /\ stage = "rest"
      /\ n \in Returned(wanted)
      /\ Take(n)
      /\ IF n # wanted
         THEN ReadFails
         ELSE /\ buf_read' = buf_read \o SubSeq(incoming, 1, n)
              /\ stage' = IF TooLong THEN "drop" ELSE "handle"
              /\ UNCHANGED <<state, value, multiplier, len, handled, astray, writer, conns>>

\* One byte is dropped of what did not fit, whatever there is of it.
ReadDrop(n) ==
  /\ stage = "drop"
  /\ n \in Returned(1)
  /\ Take(n)
  /\ IF n = 0
     THEN ReadFails
     ELSE /\ stage' = "handle"
          /\ astray' = (value - (BufSize - HeadLen) > 1)
          /\ UNCHANGED <<state, value, multiplier, len, buf_read, handled, writer, conns>>

\* In the middle of a packet its bytes are headers and lengths: a packet like any
\* other is found, or reading fails.
ReadAstray(n) ==
  /\ stage = "top" /\ state = "connected" /\ sending = Nothing /\ astray
  /\ n \in 0 .. Len(incoming)
  /\ Take(n)
  /\ state' \in {state, GiveUp}
  /\ UNCHANGED <<reader, handled, astray, writer, conns>>

ReadsOn == \E n \in 0 .. Len(incoming) : ReadDigit(n) \/ ReadRest(n) \/ ReadDrop(n)
ReadsFirst == \E n \in 0 .. Len(incoming) : ReadHeader(n) \/ ReadAstray(n)

-----------------------------------------------------------------------------
(* Writing                                                                 *)

Begin(kind, size) ==
  /\ begun < MaxUp
  /\ begun' = begun + 1
  /\ sending' = [kind |-> kind, no |-> begun + 1, size |-> size, sent |-> 0]
  /\ behind' = IF broken = "none" THEN behind ELSE behind \cup {kind}

\* Seeded bug: a report that was not sent leaves the state alone.
RequestsOnly == sending.kind = "request"

Disconnects == sending.kind # "puback"

\* iotx_mc_send_packet returns; a failed PUBACK is nobody's concern, any other packet
\* disconnects.
Return(success) ==
  /\ sending' = Nothing
  /\ stage' = IF sending.kind = "report" THEN "ack" ELSE "top"
  /\ IF success
     THEN reported' = Append(reported, [no |-> sending.no, size |-> sending.size])
          /\ UNCHANGED <<state, broken>>
     ELSE /\ state' = IF Disconnects THEN "disconnected" ELSE state
          /\ broken' = IF broken = "none" /\ sending.sent > 0 THEN sending.kind ELSE broken
          /\ UNCHANGED reported
  /\ UNCHANGED <<broker, value, multiplier, len, buf_read, handled, astray, outgoing,
                 behind, begun, conns>>

\* The loop's condition: the packet is out, or too much of it.
Returns == sending # Nothing /\ sending.sent >= sending.size
           /\ Return(sending.sent = sending.size)

\* One write: it is given the whole length again, so a second one may reach behind
\* the packet.
Writes(n) ==
  /\ sending # Nothing /\ sending.sent < sending.size
  /\ n \in 1 .. sending.size
  /\ outgoing' = outgoing \o [k \in 1 .. n |-> [no |-> sending.no, at |-> sending.sent + k]]
  /\ sending' = [sending EXCEPT !.sent = @ + n]
  /\ UNCHANGED <<state, broker, reader, handled, astray, reported, broken, behind,
                 begun, conns>>

\* A write fails, or the time is up.
WriteEnds == sending # Nothing /\ sending.sent < sending.size /\ Return(FALSE)

-----------------------------------------------------------------------------
(* The client                                                              *)

\* Keepalive, subscribing and publishing again, all behind a test of the state.
Request(size) ==
  /\ stage = "top" /\ state = "connected" /\ sending = Nothing
  /\ Begin("request", size)
  /\ UNCHANGED <<state, broker, reader, handled, astray, outgoing, reported, broken, conns>>

\* packet_type is a variable of iotx_mc_cycle without a first value, and for a packet
\* that was too long nobody sets it.
IsPublish == IF TooLong THEN BOOLEAN ELSE {buf_read[1].val = Publish}

\* Whoever handles a PUBLISH finds out from the buffer whether it is one.
Handle ==
  /\ stage = "handle"
  /\ handled' = Append(handled, buf_read)
  /\ \E publish \in IsPublish :
       stage' = IF publish /\ buf_read[1].val = Publish THEN "deliver" ELSE "top"
  /\ UNCHANGED <<state, broker, value, multiplier, len, buf_read, astray, writer, conns>>

\* iotx_mc_deliver_message: the command's handler may publish a report.
Deliver ==
  /\ stage = "deliver" /\ sending = Nothing
  /\ \/ /\ \E size \in Sizes : Begin("report", size)
        /\ UNCHANGED stage
     \/ /\ stage' = "ack"
        /\ UNCHANGED <<sending, behind, begun>>
  /\ UNCHANGED <<state, broker, value, multiplier, len, buf_read, handled, astray, outgoing,
                 reported, broken, conns>>

\* At QoS 1 the command is acknowledged, whatever became of the report.
Ack ==
  /\ stage = "ack" /\ sending = Nothing
  /\ \/ \E size \in Sizes : Begin("puback", size)
     \/ UNCHANGED <<sending, behind, begun>>
  /\ stage' = "top"
  /\ UNCHANGED <<state, broker, value, multiplier, len, buf_read, handled, astray, outgoing,
                 reported, broken, conns>>

\* iotx_mc_keepalive closes the socket of a disconnected client.
CloseSocket ==
  /\ stage = "top" /\ state = "disconnected" /\ sending = Nothing
  /\ state' = "closed"
  /\ UNCHANGED <<broker, reader, handled, astray, writer, conns>>

NewConnection ==
  /\ state = "closed"
  /\ conns < MaxConns
  /\ conns' = conns + 1
  /\ state' = "connected"
  /\ incoming' = <<>> /\ sent' = <<>> /\ handled' = <<>> /\ astray' = FALSE
  /\ outgoing' = <<>> /\ reported' = <<>> /\ broken' = "none" /\ behind' = {} /\ begun' = 0
  /\ UNCHANGED <<reader, sending>>

BrokerSends(p) ==
  /\ state # "closed"
  /\ Len(sent) < MaxDown
  /\ sent' = Append(sent, p)
  /\ incoming' = incoming \o Bytes(Len(sent) + 1, p)
  /\ UNCHANGED <<state, reader, handled, astray, writer, conns>>

-----------------------------------------------------------------------------
Sends == Returns \/ WriteEnds \/ \E n \in 1 .. sending.size : Writes(n)
Goes == ReadsOn \/ Handle \/ Deliver \/ Ack \/ Sends \/ CloseSocket
Client == Goes \/ ReadsFirst \/ NewConnection \/ \E size \in Sizes : Request(size)

\* No more connections are followed.
Done == state = "closed" /\ conns = MaxConns /\ UNCHANGED streamVars

StreamNext == Client \/ (\E p \in Packets : BrokerSends(p)) \/ Done

StreamSpec == StreamInit /\ [][StreamNext]_streamVars

\* vTaskMQTT runs, every read and every write returns, and what the broker sent
\* is there in the end.
FairStreamSpec == StreamSpec /\ WF_streamVars(Goes) /\ WF_streamVars(ReadHeader(1))

-----------------------------------------------------------------------------
(* Properties                                                              *)

\* What the buffer should hold of a packet: all, or as much as it takes.
Image(no, p) ==
  LET bytes == Bytes(no, p)
  IN  SubSeq(bytes, 1, IF Len(bytes) > BufSize THEN BufSize ELSE Len(bytes))

FlatDown(from) ==
  Joined([k \in 1 .. Len(sent) - from + 1 |-> Bytes(from + k - 1, sent[from + k - 1])])

\* Wherever the network cuts the stream, the packets handled on a connection are
\* those the broker sent on it, in order, each with its own bytes, and a connected
\* client waits at the first byte of the next.  It stops doing so only behind a
\* packet more than one byte longer than the buffer.
PacketsWhole ==
  /\ StreamTypeOK
  /\ astray => \E k \in DOMAIN sent : Len(Bytes(k, sent[k])) > BufSize + 1
  /\ Len(handled) <= Len(sent)
  /\ \A k \in DOMAIN handled : handled[k] = Image(k, sent[k])
  /\ stage = "top" /\ state = "connected" /\ ~astray => incoming = FlatDown(Len(handled) + 1)

Written(no, n) == [at \in 1 .. n |-> [no |-> no, at |-> at]]
FlatUp == Joined([k \in 1 .. Len(reported) |-> Written(reported[k].no, reported[k].size)])

\* The broker gets the packets reported as sent, each whole and once, in order, and
\* nothing else until a packet was written in part or with surplus bytes.  Then the
\* connection ends, and only the PUBACK of the command under way may still follow,
\* unless the packet was itself a PUBACK: its failure changes nothing.
SentWhole ==
  /\ broken = "none" /\ sending = Nothing => outgoing = FlatUp
  /\ broken \in {"request", "report"} =>
       state # "connected" /\ behind \subseteq {"puback"}

\* A packet the broker sends is handled, or the connection ends, or the client is
\* lost behind a packet that was too long: it does not wait in the middle of one.
HandledOrEnded ==
  \A k \in 1 .. MaxDown :
    Len(sent) >= k ~> Len(handled) >= k \/ astray \/ state # "connected"
=============================================================================
