------------------------------ MODULE MqttConn ------------------------------
(***************************************************************************)
(* The connection life cycle of the MQTT client (mqtt_client.c) as         *)
(* vTaskMQTT drives it (main.c, mqtt_esp32_client.c, utils_net.c): first   *)
(* connect, keepalive, reading one packet per cycle, reconnecting with     *)
(* back-off, and subscribing again after every reconnect.                  *)
(*                                                                         *)
(* The client is sequential: "pc" says which call of tcp_mqtt_yield comes  *)
(* next.  The network and the broker move between those calls.  A TCP      *)
(* connection carries two queues, "up" and "down"; what happens to a       *)
(* write on a connection whose other end is gone is a choice (swallowed by *)
(* the send buffer or refused), and a read there looks like a timeout,     *)
(* because tcp_esp32_read turns every result <= 0 into 0.                  *)
(*                                                                         *)
(* Publishing and its acknowledgements are in MqttPub.                     *)
(***************************************************************************)
EXTENDS Integers, Sequences, Lists

CONSTANTS
  SubMax,       \* IOTX_MC_SUB_REQUEST_NUM_MAX: nodes of sub_to_ack (10)
  ProbeMax,     \* IOTX_MC_KEEPALIVE_PROBE_MAX (3)
  IntervalMax,  \* IOTX_MC_RECONNECT_INTERVAL_MAX_MS in seconds (60)
  PacketIdMax,  \* IOTX_MC_PACKET_ID_MAX (65535)
  MaxSockets,   \* lwip sockets this task can hold
  MaxFaults,    \* bound: how often the network misbehaves
  QueueMax,     \* bound: packets in flight in one direction
  MayRefuseSub  \* the broker may answer a SUBSCRIBE with 0x80

ASSUME MqttConnAssumption ==
  /\ SubMax \in Nat \ {0}
  /\ ProbeMax \in Nat
  /\ IntervalMax \in Nat \ {0}
  /\ PacketIdMax \in Nat \ {0}
  /\ MaxSockets \in Nat
  /\ MaxFaults \in Nat
  /\ QueueMax \in Nat \ {0}
  /\ MayRefuseSub \in BOOLEAN

VARIABLES
  pc,                 \* next call of vTaskMQTT
  pmqtt,              \* the client handle is not NULL
  client_state,
  handle,             \* ipstack.handle: "none" (0) or "sock"
  reconnected,        \* set by tcp_esp32_connect, consumed by tcp_mqtt_yield
  keepalive_probes,
  ping_due,           \* next_ping_time has expired
  interval,           \* reconnect_time_interval_ms, in seconds
  reconnect_wait,     \* seconds reconnect_next_time was armed with; 0: expired
  sub_to_ack,         \* list of SUBSCRIBE requests waiting for their SUBACK
  sub_handle,         \* handle_switch is in the table of topic handlers
  packet_id,
  sockets,            \* lwip sockets held
  link,               \* the TCP connection: "none", "up" or "dead"
  up, down,           \* packets to and from the broker
  broker_sub,         \* the broker has a subscription for this session
  wifi_connected,
  asked,              \* history: a SUBSCRIBE was sent on this connection
  refusals,           \* history: sockets whose connect() failed
  faults              \* history: how often the network misbehaved

client == <<client_state, handle, keepalive_probes, ping_due, interval, reconnect_wait>>
subs == <<sub_to_ack, sub_handle, packet_id>>
net == <<link, up, down, broker_sub>>
vars == <<pc, pmqtt, client, reconnected, subs, sockets, net, wifi_connected,
          asked, refusals, faults>>

States == {"INVALID", "INITIALIZED", "CONNECTED", "DISCONNECTED",
           "DISCONNECTED_RECONNECTING"}
Node == [id : 1 .. PacketIdMax, state : {"NORMAL", "INVALID"}, late : BOOLEAN]
Packet == [type : {"PING", "SUBSCRIBE", "PINGRESP", "SUBACK", "SUBNACK", "PUBLISH"},
           id : 0 .. PacketIdMax]

TypeOK ==
  /\ pc \in {"construct", "top", "keepalive", "cycle", "proc", "resub"}
  /\ pmqtt \in BOOLEAN
  /\ client_state \in States
  /\ handle \in {"none", "sock"}
  /\ reconnected \in BOOLEAN
  /\ keepalive_probes \in 0 .. ProbeMax + 1
  /\ ping_due \in BOOLEAN
  /\ interval \in 1 .. 2 * IntervalMax
  /\ reconnect_wait \in 0 .. IntervalMax
  /\ sub_to_ack \in Seq(Node) /\ Len(sub_to_ack) <= SubMax
  /\ sub_handle \in BOOLEAN
  /\ packet_id \in 0 .. PacketIdMax
  /\ sockets \in 0 .. MaxSockets
  /\ link \in {"none", "up", "dead"}
  /\ up \in Seq(Packet) /\ down \in Seq(Packet)
  /\ broker_sub \in BOOLEAN
  /\ wifi_connected \in BOOLEAN
  /\ asked \in BOOLEAN
  /\ refusals \in 0 .. MaxSockets
  /\ faults \in 0 .. MaxFaults

Init ==
  /\ pc = "construct"
  /\ pmqtt = FALSE
  /\ client_state = "INVALID"
  /\ handle = "none"
  /\ reconnected = FALSE
  /\ keepalive_probes = 0
  /\ ping_due = TRUE
  /\ interval = 1
  /\ reconnect_wait = 0
  /\ sub_to_ack = <<>>
  /\ sub_handle = FALSE
  /\ packet_id = 0
  /\ sockets = 0
  /\ link = "none"
  /\ up = <<>> /\ down = <<>>
  /\ broker_sub = FALSE
  /\ wifi_connected \in BOOLEAN
  /\ asked = FALSE
  /\ refusals = 0
  /\ faults = 0

-----------------------------------------------------------------------------
(* The transport: utils_net.c over tcp_esp32_connect, _write, _disconnect  *)

\* Seeded bug: the descriptor is closed but not forgotten.
CloseKeepingHandle ==
  /\ sockets' = sockets - (IF handle = "sock" THEN 1 ELSE 0)
  /\ link' = "none"
  /\ up' = <<>> /\ down' = <<>>
  /\ broker_sub' = FALSE
  /\ UNCHANGED handle

\* ipstack.disconnect: the socket is closed and the handle forgotten.
Close ==
  /\ sockets' = sockets - (IF handle = "sock" THEN 1 ELSE 0)
  /\ handle' = "none"
  /\ link' = "none"
  /\ up' = <<>> /\ down' = <<>>
  /\ broker_sub' = FALSE

\* A write that the stack accepted; it reaches the broker on a live connection.
Write(p) == up' = IF link = "up" THEN Append(up, p) ELSE up

Fault == faults < MaxFaults /\ faults' = faults + 1

\* tcp_esp32_connect succeeds: a socket, and the flag for tcp_mqtt_yield, which
\* stays set when MQTT's own handshake fails.
TcpConnects ==
  /\ sockets < MaxSockets
  /\ wifi_connected
  /\ reconnected' = TRUE

\* connect() failed: the socket it was called on is not closed, and handle is
\* -1, which connect_tcp does not take for an error.  The CONNECT packet then
\* fails on it, and the disconnect that follows closes -1 and clears handle.
TcpRefused ==
  /\ IF sockets < MaxSockets
     THEN /\ IF wifi_connected THEN Fault ELSE UNCHANGED faults
          /\ sockets' = sockets + 1
          /\ refusals' = refusals + 1
     ELSE UNCHANGED <<sockets, refusals, faults>>   \* socket() itself failed
  /\ UNCHANGED <<handle, net, reconnected, asked>>

\* Seeded bug: a refused CONNECT leaves its socket open.
MqttRefusedLeaking ==
  /\ TcpConnects
  /\ Fault
  /\ sockets' = sockets + 1
  /\ UNCHANGED <<handle, net, refusals, asked>>

\* TCP is up but CONNECT cannot be sent, no CONNACK comes, or it refuses: the
\* socket is closed again.
MqttRefused ==
  /\ TcpConnects
  /\ Fault
  /\ UNCHANGED <<handle, net, sockets, refusals, asked>>

\* Seeded bug: only the first connect raises the flag "reconnected".
AcceptedUnflagged ==
  /\ sockets < MaxSockets
  /\ wifi_connected
  /\ sockets' = sockets + 1
  /\ handle' = "sock"
  /\ link' = "up" /\ up' = <<>> /\ down' = <<>>
  /\ broker_sub' = FALSE
  /\ reconnected' = ~pmqtt
  /\ asked' = FALSE
  /\ UNCHANGED <<refusals, faults>>

\* CONNACK accepts: a fresh (clean) session on a fresh socket.
Accepted ==
  /\ TcpConnects
  /\ sockets' = sockets + 1
  /\ handle' = "sock"
  /\ link' = "up" /\ up' = <<>> /\ down' = <<>>
  /\ broker_sub' = FALSE
  /\ asked' = FALSE
  /\ UNCHANGED <<refusals, faults>>

-----------------------------------------------------------------------------
(* tcp_mqtt_conn: IOT_MQTT_Construct, that is iotx_mc_init, then           *)
(* iotx_mc_connect, then iotx_mc_release when that failed                  *)

ResetClient ==
  /\ keepalive_probes' = 0
  /\ interval' = 1
  /\ reconnect_wait' = 0
  /\ sub_to_ack' = <<>>
  /\ sub_handle' = FALSE
  /\ packet_id' = 0

\* iotx_mc_release: disconnect once more, which finds handle 0, and forget it.
Released ==
  /\ client_state' = "INVALID"
  /\ ping_due' = TRUE
  /\ pmqtt' = FALSE

Construct ==
  /\ pc = "construct"
  /\ pc' = "top"
  /\ ResetClient
  /\ \/ /\ Accepted
        /\ client_state' = "CONNECTED"
        /\ ping_due' = FALSE
        /\ pmqtt' = TRUE
     \/ /\ TcpRefused \/ MqttRefused
        /\ Released
  /\ UNCHANGED wifi_connected

\* The loop of vTaskMQTT and the first test of tcp_mqtt_yield.
Top ==
  /\ pc = "top"
  /\ wifi_connected
  /\ pc' = IF pmqtt THEN "keepalive" ELSE "construct"
  /\ UNCHANGED <<pmqtt, client, reconnected, subs, sockets, net, wifi_connected,
                 asked, refusals, faults>>

-----------------------------------------------------------------------------
(* iotx_mc_keepalive, with iotx_mc_keepalive_sub                           *)

PingNow == client_state = "CONNECTED" /\ ping_due

\* MQTTKeepalive: PINGREQ is written.
SendPing == Write([type |-> "PING", id |-> 0])

KeepaliveIdle ==
  /\ pc = "keepalive"
  /\ \/ client_state = "CONNECTED" /\ ~ping_due
     \/ client_state = "DISCONNECTED_RECONNECTING" /\ reconnect_wait > 0
  /\ pc' = "cycle"
  /\ UNCHANGED <<pmqtt, client, reconnected, subs, sockets, net, wifi_connected,
                 asked, refusals, faults>>

Ping ==
  /\ pc = "keepalive"
  /\ PingNow
  /\ SendPing
  /\ ping_due' = FALSE
  /\ keepalive_probes' = keepalive_probes + 1
  /\ pc' = "cycle"
  /\ UNCHANGED <<pmqtt, client_state, handle, interval, reconnect_wait, reconnected,
                 subs, sockets, link, down, broker_sub, wifi_connected, asked,
                 refusals, faults>>

\* The connection is known to be lost, or the ping says so now: close it and
\* arm the first reconnect.
CloseDown ==
  /\ pc = "keepalive"
  /\ \/ client_state = "DISCONNECTED" /\ UNCHANGED ping_due
     \/ PingNow /\ link = "dead" /\ ping_due' = FALSE
  /\ Close
  /\ client_state' = "DISCONNECTED_RECONNECTING"
  /\ interval' = 1
  /\ reconnect_wait' = 1
  /\ pc' = "cycle"
  /\ UNCHANGED <<pmqtt, keepalive_probes, reconnected, subs, wifi_connected,
                 asked, refusals, faults>>

\* iotx_mc_handle_reconnect once reconnect_next_time has expired.
MayReconnect ==
  /\ pc = "keepalive"
  /\ client_state = "DISCONNECTED_RECONNECTING"
  /\ reconnect_wait = 0

Reconnect ==
  /\ MayReconnect
  /\ Accepted
  /\ client_state' = "CONNECTED"
  /\ ping_due' = FALSE
  /\ interval' = 1
  /\ pc' = "cycle"
  /\ UNCHANGED <<pmqtt, keepalive_probes, reconnect_wait, subs, wifi_connected>>

Capped(s) == IF s > IntervalMax THEN IntervalMax ELSE s

ReconnectFailed ==
  /\ MayReconnect
  /\ TcpRefused \/ MqttRefused
  /\ interval' = IF interval < IntervalMax THEN 2 * interval ELSE IntervalMax
  /\ reconnect_wait' = Capped(2 * interval')
  /\ pc' = "cycle"
  /\ UNCHANGED <<pmqtt, client_state, keepalive_probes, ping_due, subs, wifi_connected>>

-----------------------------------------------------------------------------
(* iotx_mc_cycle: at most one packet                                       *)

\* Anything but CONNECTED ends IOT_MQTT_Yield's loop.
CycleNotConnected ==
  /\ pc = "cycle"
  /\ client_state # "CONNECTED"
  /\ pc' = "resub"
  /\ UNCHANGED <<pmqtt, client, reconnected, subs, sockets, net, wifi_connected,
                 asked, refusals, faults>>

\* Seeded bug: the probes are counted, with no consequence.
ProbesIgnored == "CONNECTED"

\* Too many pings without an answer: the state changes, but the cycle goes on.
TooManyProbes == keepalive_probes > ProbeMax
AfterProbeCheck == IF TooManyProbes THEN "DISCONNECTED" ELSE "CONNECTED"

CycleTimeout ==
  /\ pc = "cycle"
  /\ client_state = "CONNECTED"
  /\ down = <<>>
  /\ client_state' = AfterProbeCheck
  /\ keepalive_probes' = IF TooManyProbes THEN 0 ELSE keepalive_probes
  /\ pc' = "proc"
  /\ UNCHANGED <<pmqtt, handle, ping_due, interval, reconnect_wait, reconnected, subs,
                 sockets, net, wifi_connected, asked, refusals, faults>>

\* Only a part of the packet is there: the rest was lost with the connection,
\* or it is merely in the next segment, since tcp_esp32_read reads once.
CycleReadError ==
  /\ pc = "cycle"
  /\ client_state = "CONNECTED"
  /\ down # <<>>
  /\ IF link = "up" THEN Fault ELSE UNCHANGED faults
  /\ client_state' = "DISCONNECTED"
  /\ keepalive_probes' = IF TooManyProbes THEN 0 ELSE keepalive_probes
  /\ down' = <<>>
  /\ pc' = "resub"
  /\ UNCHANGED <<pmqtt, handle, ping_due, interval, reconnect_wait, reconnected, subs,
                 sockets, link, up, broker_sub, wifi_connected, asked, refusals>>

\* iotx_mc_mask_subInfo_from: the first node with this id becomes INVALID.
HasNode(list, id) == \E i \in DOMAIN list : list[i].id = id
IsFirst(list, id, i) == list[i].id = id /\ \A j \in 1 .. i - 1 : list[j].id # id
Mask(list, id) ==
  [i \in DOMAIN list |->
     IF IsFirst(list, id, i) THEN [list[i] EXCEPT !.state = "INVALID"] ELSE list[i]]

\* Seeded bug: an answer does not reset the count of unanswered pings.
ProbesKept == keepalive_probes

\* A packet was read: every packet counts as an answer to the pings.
ProbesAnswered == 0

ReadPacket(state) ==
  /\ pc = "cycle"
  /\ client_state = "CONNECTED"
  /\ down # <<>>
  /\ client_state' = state
  /\ keepalive_probes' = ProbesAnswered
  /\ down' = Tail(down)
  /\ UNCHANGED <<pmqtt, handle, ping_due, interval, reconnect_wait, reconnected, packet_id,
                 sockets, link, up, broker_sub, wifi_connected, asked, refusals, faults>>

RecvPingresp ==
  /\ ReadPacket(AfterProbeCheck)
  /\ Head(down).type = "PINGRESP"
  /\ pc' = "proc"
  /\ UNCHANGED <<sub_to_ack, sub_handle>>

\* A SUBACK registers the handler kept in the node; one with 0x80 or for an
\* unknown id is an error, which ends the loop before the lists are cleaned.
RecvSuback ==
  /\ ReadPacket(AfterProbeCheck)
  /\ Head(down).type \in {"SUBACK", "SUBNACK"}
  /\ sub_to_ack' = Mask(sub_to_ack, Head(down).id)
  /\ IF Head(down).type = "SUBACK" /\ HasNode(sub_to_ack, Head(down).id)
     THEN sub_handle' = TRUE /\ pc' = "proc"
     ELSE UNCHANGED sub_handle /\ pc' = "resub"

\* MQTTPuback: one that cannot be sent only ends the loop of IOT_MQTT_Yield, the
\* state stays CONNECTED.
Puback ==
  \/ pc' = "proc"
  \/ link = "dead" /\ pc' = "resub"

\* A command is handed to its handler and acknowledged.  When the handler has
\* learned a code it publishes a report, which notices a dead link.
RecvPublish ==
  /\ \/ ReadPacket(AfterProbeCheck)
     \/ link = "dead" /\ ReadPacket("DISCONNECTED")
  /\ Head(down).type = "PUBLISH"
  /\ Puback
  /\ UNCHANGED <<sub_to_ack, sub_handle>>

-----------------------------------------------------------------------------
(* MQTTSubInfoProc, MQTTPubInfoProc and the condition of IOT_MQTT_Yield    *)

IsNormal(n) == n.state = "NORMAL"

\* list_remove of every node that is not.
Cleaned == Kept(sub_to_ack, {i \in DOMAIN sub_to_ack : IsNormal(sub_to_ack[i])})

\* MQTTPubInfoProc behind it may republish a report, and notice a dead link.
SubInfoProc ==
  /\ pc = "proc"
  /\ sub_to_ack' = Cleaned
  /\ \/ UNCHANGED client_state
     \/ link = "dead" /\ client_state = "CONNECTED" /\ client_state' = "DISCONNECTED"
  /\ pc' \in {"keepalive", "resub"}
  /\ UNCHANGED <<pmqtt, handle, keepalive_probes, ping_due, interval, reconnect_wait,
                 reconnected, sub_handle, packet_id, sockets, net, wifi_connected, asked,
                 refusals, faults>>

-----------------------------------------------------------------------------
(* The end of tcp_mqtt_yield: subscribe once after each (re)connect.  The  *)
(* flag is cleared first and the result ignored.                           *)

NextPacketId == IF packet_id = PacketIdMax THEN 1 ELSE packet_id + 1

NothingToSubscribe ==
  /\ pc = "resub"
  /\ ~reconnected
  /\ pc' = "top"
  /\ UNCHANGED <<pmqtt, client, reconnected, subs, sockets, net, wifi_connected,
                 asked, refusals, faults>>

SubscribeInBadState ==
  /\ pc = "resub"
  /\ reconnected
  /\ client_state # "CONNECTED"
  /\ reconnected' = FALSE
  /\ pc' = "top"
  /\ UNCHANGED <<pmqtt, client, subs, sockets, net, wifi_connected, asked, refusals, faults>>

SubscribeListFull ==
  /\ pc = "resub"
  /\ reconnected
  /\ client_state = "CONNECTED"
  /\ Len(sub_to_ack) >= SubMax
  /\ reconnected' = FALSE
  /\ packet_id' = NextPacketId
  /\ pc' = "top"
  /\ UNCHANGED <<pmqtt, client, sub_to_ack, sub_handle, sockets, net, wifi_connected,
                 asked, refusals, faults>>

Subscribe ==
  /\ pc = "resub"
  /\ reconnected
  /\ client_state = "CONNECTED"
  /\ Len(sub_to_ack) < SubMax
  /\ reconnected' = FALSE
  /\ packet_id' = NextPacketId
  /\ sub_to_ack' = Append(sub_to_ack, [id |-> packet_id', state |-> "NORMAL", late |-> FALSE])
  /\ Write([type |-> "SUBSCRIBE", id |-> packet_id'])
  /\ asked' = TRUE
  /\ pc' = "top"
  /\ UNCHANGED <<pmqtt, client, sub_handle, sockets, link, down, broker_sub,
                 wifi_connected, refusals, faults>>

\* The node is pushed, the write fails, the node is taken off again.
SubscribeWriteFailed ==
  /\ pc = "resub"
  /\ reconnected
  /\ client_state = "CONNECTED"
  /\ Len(sub_to_ack) < SubMax
  /\ link = "dead"
  /\ reconnected' = FALSE
  /\ packet_id' = NextPacketId
  /\ client_state' = "DISCONNECTED"
  /\ pc' = "top"
  /\ UNCHANGED <<pmqtt, handle, keepalive_probes, ping_due, interval, reconnect_wait,
                 sub_to_ack, sub_handle, sockets, net, wifi_connected, asked, refusals,
                 faults>>

-----------------------------------------------------------------------------
(* Time, the network and the broker                                        *)

\* next_ping_time expires.  A minute is long against a round trip and against
\* one pass of the loop: on a live connection everything sent before has been
\* answered and read, and the subscription that follows a reconnect is made.
PingTimer ==
  /\ client_state = "CONNECTED" /\ ~ping_due
  /\ link = "up" => (up = <<>> /\ down = <<>> /\ ~reconnected)
  /\ ping_due' = TRUE
  /\ UNCHANGED <<pc, pmqtt, client_state, handle, keepalive_probes, interval, reconnect_wait,
                 reconnected, subs, sockets, net, wifi_connected, asked, refusals, faults>>

ReconnectTimer ==
  /\ reconnect_wait > 0
  /\ reconnect_wait' = 0
  /\ UNCHANGED <<pc, pmqtt, client_state, handle, keepalive_probes, ping_due, interval,
                 reconnected, subs, sockets, net, wifi_connected, asked, refusals, faults>>

\* Twice request_timeout_ms has gone by since the waiting requests were sent.
RequestsTimeOut ==
  /\ \E i \in DOMAIN sub_to_ack : ~sub_to_ack[i].late
  /\ sub_to_ack' = [i \in DOMAIN sub_to_ack |-> [sub_to_ack[i] EXCEPT !.late = TRUE]]
  /\ UNCHANGED <<pc, pmqtt, client, reconnected, sub_handle, packet_id, sockets, net,
                 wifi_connected, asked, refusals, faults>>

\* The peer, the access point or a router is gone.  What had already arrived
\* may still be read or may be lost; the client is not told.
LinkDies ==
  /\ link = "up"
  /\ Fault
  /\ link' = "dead"
  /\ up' = <<>>
  /\ down' \in {down, <<>>}
  /\ broker_sub' = FALSE
  /\ UNCHANGED <<pc, pmqtt, client, reconnected, subs, sockets, wifi_connected, asked, refusals>>

WifiDrops ==
  /\ wifi_connected
  /\ Fault
  /\ wifi_connected' = FALSE
  /\ link' = IF link = "up" THEN "dead" ELSE link
  /\ up' = <<>>
  /\ broker_sub' = FALSE
  /\ UNCHANGED <<pc, pmqtt, client, reconnected, subs, sockets, down, asked, refusals>>

WifiReturns ==
  /\ ~wifi_connected
  /\ wifi_connected' = TRUE
  /\ UNCHANGED <<pc, pmqtt, client, reconnected, subs, sockets, net, asked, refusals, faults>>

BrokerAnswers ==
  /\ link = "up" /\ up # <<>>
  /\ up' = Tail(up)
  /\ IF Head(up).type = "PING"
     THEN /\ down' = Append(down, [type |-> "PINGRESP", id |-> 0])
          /\ UNCHANGED <<broker_sub, faults>>
     ELSE \/ /\ down' = Append(down, [type |-> "SUBACK", id |-> Head(up).id])
             /\ broker_sub' = TRUE
             /\ UNCHANGED faults
          \/ /\ MayRefuseSub
             /\ down' = Append(down, [type |-> "SUBNACK", id |-> Head(up).id])
             /\ UNCHANGED <<broker_sub, faults>>
  /\ UNCHANGED <<pc, pmqtt, client, reconnected, subs, sockets, link, wifi_connected, asked,
                 refusals>>

BrokerPublishes ==
  /\ link = "up" /\ broker_sub
  /\ Len(down) < QueueMax
  /\ down' = Append(down, [type |-> "PUBLISH", id |-> 0])
  /\ UNCHANGED <<pc, pmqtt, client, reconnected, subs, sockets, link, up, broker_sub,
                 wifi_connected, asked, refusals, faults>>

-----------------------------------------------------------------------------
Task ==
  \/ Construct \/ Top
  \/ KeepaliveIdle \/ Ping \/ CloseDown \/ Reconnect \/ ReconnectFailed
  \/ CycleNotConnected \/ CycleTimeout \/ CycleReadError
  \/ RecvPingresp \/ RecvSuback \/ RecvPublish
  \/ SubInfoProc
  \/ NothingToSubscribe \/ SubscribeInBadState \/ SubscribeListFull
  \/ Subscribe \/ SubscribeWriteFailed

Time == PingTimer \/ ReconnectTimer \/ RequestsTimeOut
Network == LinkDies \/ WifiDrops \/ WifiReturns \/ BrokerAnswers \/ BrokerPublishes

Next == Task \/ Time \/ Network

Spec == Init /\ [][Next]_vars

\* vTaskMQTT is scheduled and a call of IOT_MQTT_Yield ends when its 10 ms are
\* over; time passes, the broker answers, the access point comes back.  The
\* network misbehaves only MaxFaults times.
Fairness ==
  /\ WF_vars(Task)
  /\ SF_vars(SubInfoProc /\ pc' = "resub")
  /\ WF_vars(PingTimer) /\ WF_vars(ReconnectTimer)
  /\ WF_vars(BrokerAnswers) /\ WF_vars(WifiReturns)

FairSpec == Spec /\ Fairness

-----------------------------------------------------------------------------
(* Properties                                                              *)

\* The client believes it has a connection exactly while it owns a socket, and
\* the application has a handle exactly when the first connect succeeded: no
\* path writes to or reads from a closed handle (handle 0 would be a valid
\* descriptor), and none forgets an open one.
StateMatchesSocket ==
  /\ handle = "sock" <=> client_state \in {"CONNECTED", "DISCONNECTED"}
  /\ handle = "sock" <=> link # "none"
  /\ pmqtt <=> client_state # "INVALID"

\* Every socket is the current one or one whose connect() was refused: all other
\* failures (CONNECT not sent, CONNACK late or negative, dead link, failed ping,
\* failed SUBSCRIBE) give their socket back exactly once.
SocketsAccounted == sockets = refusals + (IF handle = "sock" THEN 1 ELSE 0)

\* A connected client has asked for its commands on this connection, or still
\* has the flag that will make it ask, or found the request list full: the flag
\* is never consumed by a failed or foreign connection (tcp_mqtt_yield clears
\* it before it looks at the result).
ConnectedAsks ==
  /\ TypeOK
  /\ client_state = "CONNECTED" => asked \/ reconnected \/ Len(sub_to_ack) = SubMax

\* The keepalive logic never gives up a connection the broker still answers on,
\* a packet that arrives in two pieces excepted (a fault of CycleReadError), as
\* long as the list of requests has room: the count of unanswered probes is not
\* reset by reconnecting, and only the answer to the SUBSCRIBE that follows does
\* it in time.
HealthyLinkKept ==
  [][client_state = "CONNECTED" /\ link = "up" /\ link' = "up"
       => \/ client_state' = "CONNECTED"
          \/ faults' > faults
          \/ Len(sub_to_ack) = SubMax]_vars

\* A connection that died silently is noticed: the unanswered pings add up.
DeadLinkNoticed == link = "dead" ~> link # "dead"

\* After finitely many faults the device is connected and receives commands
\* again: broker and handler table agree on the subscription, for good.  It holds
\* as long as the broker refuses no subscription, the list of requests, which keeps
\* the unanswered ones, does not fill up, and sockets are left by those a refused
\* connect() leaks: nothing in the code gets over any of the three.
Recoverable ==
  /\ \A i \in DOMAIN down : down[i].type # "SUBNACK"
  /\ Len(sub_to_ack) < SubMax
  /\ refusals < MaxSockets

Recovers ==
  []Recoverable
    => <>[](client_state = "CONNECTED" /\ broker_sub /\ sub_handle)
=============================================================================
