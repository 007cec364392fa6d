--------------------------- MODULE MqttConnProofs ---------------------------
(***************************************************************************)
(* Theorems about MqttConn for every value of its constants: the client's  *)
(* state, its socket and its handle always agree, every socket is          *)
(* accounted for, who is connected has asked for its commands, and a       *)
(* connection the broker answers on is never given up; about the timers it *)
(* waits on (UtilsTimer); and about the bytes on the connection            *)
(* (MqttStream): packets are read as they were sent, and what is reported  *)
(* as sent has arrived.                                                    *)
(***************************************************************************)
EXTENDS MqttConn, MqttStream, UtilsTimer, ListsProofs

\* What the proofs need of the types, and where in its loop the task can be with
\* and without a client handle and a socket.
ControlOK ==
  /\ sockets \in Nat /\ refusals \in Nat
  /\ client_state \in States
  /\ handle \in {"none", "sock"}
  /\ pmqtt \in BOOLEAN
  /\ pc \in {"construct", "top", "keepalive", "cycle", "proc", "resub"}
  /\ pc = "construct" => ~pmqtt
  /\ pc \in {"keepalive", "cycle", "proc", "resub"} => pmqtt

Inv == ControlOK /\ StateMatchesSocket /\ SocketsAccounted

LEMMA InvInit == Init => Inv
<1> SUFFICES ASSUME Init PROVE Inv
  OBVIOUS
<1>1. pmqtt \in BOOLEAN /\ ~pmqtt
  BY DEF Init
<1>2. /\ pc = "construct" /\ client_state = "INVALID" /\ handle = "none" /\ link = "none"
      /\ sockets = 0 /\ refusals = 0
  BY DEF Init
<1>3. QED
  BY <1>1, <1>2 DEF Inv, ControlOK, StateMatchesSocket, SocketsAccounted, States

\* A failed connect leaves the client without a socket, and counts what it lost.
LEMMA RefusedKeeps ==
  ASSUME Inv, TcpRefused \/ MqttRefused
  PROVE  /\ UNCHANGED <<handle, link>>
         /\ sockets' \in Nat /\ refusals' \in Nat
         /\ sockets' - refusals' = sockets - refusals
BY MqttConnAssumption DEF Inv, ControlOK, TcpRefused, MqttRefused, TcpConnects, Fault, net

\* A connection that is accepted is the only one.
LEMMA AcceptedKeeps ==
  ASSUME Inv, Accepted, handle = "none"
  PROVE  /\ handle' = "sock" /\ link' = "up"
         /\ sockets' \in Nat /\ refusals' \in Nat
         /\ sockets' = refusals' + 1
BY MqttConnAssumption DEF Inv, ControlOK, SocketsAccounted, Accepted, TcpConnects

LEMMA InvStep == Inv /\ [Next]_vars => Inv'
<1> SUFFICES ASSUME Inv, [Next]_vars PROVE Inv'
  OBVIOUS
<1> USE MqttConnAssumption DEF Inv, ControlOK, StateMatchesSocket, SocketsAccounted, States
<1>1. CASE Construct
  <2>1. handle = "none" /\ link = "none"
    BY <1>1 DEF Construct
  <2>2. CASE Accepted /\ client_state' = "CONNECTED" /\ pmqtt' = TRUE
    <3>1. pmqtt' \in BOOLEAN /\ pmqtt'
      BY <2>2
    <3>2. pc' = "top"
      BY <1>1 DEF Construct
    <3>3. QED
      BY <2>1, <2>2, <3>1, <3>2, AcceptedKeeps
  <2>3. CASE (TcpRefused \/ MqttRefused) /\ client_state' = "INVALID" /\ pmqtt' = FALSE
    <3>1. pmqtt' \in BOOLEAN /\ ~pmqtt'
      BY <2>3
    <3>2. pc' = "top"
      BY <1>1 DEF Construct
    <3>3. QED
      BY <2>1, <2>3, <3>1, <3>2, RefusedKeeps
  <2>4. QED
    BY <1>1, <2>2, <2>3 DEF Construct, Released
<1>2. CASE Top
  BY <1>2 DEF Top, client, subs, net
<1>3. CASE KeepaliveIdle
  BY <1>3 DEF KeepaliveIdle, client, subs, net
<1>4. CASE Ping
  BY <1>4 DEF Ping, subs
<1>5. CASE CloseDown
  BY <1>5 DEF CloseDown, Close, PingNow, subs
<1>6. CASE Reconnect
  <2>1. handle = "none"
    BY <1>6 DEF Reconnect, MayReconnect
  <2>2. QED
    BY <1>6, <2>1, AcceptedKeeps DEF Reconnect, MayReconnect, subs
<1>7. CASE ReconnectFailed
  BY <1>7, RefusedKeeps DEF ReconnectFailed, MayReconnect, subs
<1>8. CASE CycleNotConnected
  BY <1>8 DEF CycleNotConnected, client, subs, net
<1>9. CASE CycleTimeout
  BY <1>9 DEF CycleTimeout, AfterProbeCheck, subs, net
<1>10. CASE CycleReadError
  BY <1>10 DEF CycleReadError, subs
<1>11. CASE RecvPingresp \/ RecvSuback \/ RecvPublish
  BY <1>11 DEF RecvPingresp, RecvSuback, RecvPublish, Puback, ReadPacket, AfterProbeCheck
<1>12. CASE SubInfoProc
  BY <1>12 DEF SubInfoProc, client, net
<1>13. CASE NothingToSubscribe \/ SubscribeInBadState \/ SubscribeListFull
  BY <1>13 DEF NothingToSubscribe, SubscribeInBadState, SubscribeListFull, client, subs, net
<1>14. CASE Subscribe
  BY <1>14 DEF Subscribe, client
<1>15. CASE SubscribeWriteFailed
  BY <1>15 DEF SubscribeWriteFailed, net
<1>16. CASE Time
  BY <1>16 DEF Time, PingTimer, ReconnectTimer, RequestsTimeOut, client, subs, net
<1>17. CASE LinkDies \/ WifiDrops \/ WifiReturns
  BY <1>17 DEF LinkDies, WifiDrops, WifiReturns, client, subs, net
<1>18. CASE BrokerAnswers \/ BrokerPublishes
  BY <1>18 DEF BrokerAnswers, BrokerPublishes, client, subs
<1>19. CASE UNCHANGED vars
  BY <1>19 DEF vars, client, net
<1>20. QED
  BY <1>1, <1>2, <1>3, <1>4, <1>5, <1>6, <1>7, <1>8, <1>9, <1>10, <1>11, <1>12, <1>13,
     <1>14, <1>15, <1>16, <1>17, <1>18, <1>19 DEF Next, Task, Network

\* CONNECTED and DISCONNECTED mean a socket, every other state means none, and
\* the application holds a handle exactly when the first connect succeeded.
THEOREM StateAndSocketAgree == Spec => []StateMatchesSocket
<1>1. Inv => StateMatchesSocket
  BY DEF Inv
<1>2. QED
  BY <1>1, InvInit, InvStep, PTL DEF Spec

\* However the network fails, the only sockets lost are those whose connect()
\* was refused (tcp_esp32_connect returns without closing them).
THEOREM EverySocketAccounted == Spec => []SocketsAccounted
<1>1. Inv => SocketsAccounted
  BY DEF Inv
<1>2. QED
  BY <1>1, InvInit, InvStep, PTL DEF Spec

-----------------------------------------------------------------------------
(* Types, by the variables they are about                                  *)

FlagType ==
  /\ ping_due \in BOOLEAN /\ reconnected \in BOOLEAN /\ sub_handle \in BOOLEAN
  /\ broker_sub \in BOOLEAN /\ wifi_connected \in BOOLEAN /\ asked \in BOOLEAN

\* The count of pings exceeds its maximum only between the ping and the check.
NumberType ==
  /\ keepalive_probes \in 0 .. ProbeMax + 1
  /\ keepalive_probes = ProbeMax + 1 => pc = "cycle" /\ client_state = "CONNECTED"
  /\ interval \in 1 .. 2 * IntervalMax
  /\ reconnect_wait \in 0 .. IntervalMax
  /\ packet_id \in 0 .. PacketIdMax
  /\ sockets <= MaxSockets
  /\ link \in {"none", "up", "dead"}
  /\ faults \in 0 .. MaxFaults

ListType == sub_to_ack \in Seq(Node) /\ Len(sub_to_ack) <= SubMax
QueueType == up \in Seq(Packet) /\ down \in Seq(Packet)

Types == Inv /\ FlagType /\ NumberType /\ ListType /\ QueueType

LEMMA TypesGive == Types => TypeOK
<1> SUFFICES ASSUME Types PROVE TypeOK
  OBVIOUS
<1>1. refusals \in 0 .. MaxSockets /\ sockets \in 0 .. MaxSockets
  BY MqttConnAssumption DEF Types, Inv, ControlOK, SocketsAccounted, NumberType
<1>2. QED
  BY <1>1, Zenon DEF Types, Inv, ControlOK, FlagType, NumberType, ListType, QueueType, TypeOK

LEMMA NextIdType ==
  ASSUME packet_id \in 0 .. PacketIdMax
  PROVE  NextPacketId \in 1 .. PacketIdMax
BY MqttConnAssumption DEF NextPacketId

\* What connecting, whatever its result, does to the variables of these types.
LEMMA ConnectTypes ==
  ASSUME FlagType, NumberType, QueueType, Inv, TcpRefused \/ MqttRefused \/ Accepted
  PROVE  /\ reconnected' \in BOOLEAN /\ broker_sub' \in BOOLEAN /\ asked' \in BOOLEAN
         /\ sockets' <= MaxSockets /\ link' \in {"none", "up", "dead"}
         /\ faults' \in 0 .. MaxFaults
         /\ QueueType'
<1>1. reconnected' \in BOOLEAN /\ broker_sub' \in BOOLEAN /\ asked' \in BOOLEAN
  BY Zenon DEF TcpRefused, MqttRefused, Accepted, TcpConnects, FlagType, net
<1>2. sockets' <= MaxSockets /\ link' \in {"none", "up", "dead"}
  BY MqttConnAssumption DEF TcpRefused, MqttRefused, Accepted, TcpConnects, NumberType,
     Inv, ControlOK, net
<1>3. faults' \in 0 .. MaxFaults
  BY MqttConnAssumption DEF TcpRefused, MqttRefused, Accepted, TcpConnects, NumberType, Fault
<1>4. QueueType'
  <2>1. UNCHANGED <<up, down>> \/ (up' = <<>> /\ down' = <<>>)
    BY Zenon DEF TcpRefused, MqttRefused, Accepted, net
  <2>2. QED
    BY <2>1, NothingInIt DEF QueueType
<1>5. QED
  BY <1>1, <1>2, <1>3, <1>4

LEMMA FlagStep ==
  ASSUME Types, [Next]_vars
  PROVE  FlagType'
<1> USE DEF Types, FlagType
<1>1. CASE Construct
  <2>1. reconnected' \in BOOLEAN /\ broker_sub' \in BOOLEAN /\ asked' \in BOOLEAN
    BY <1>1, ConnectTypes DEF Construct
  <2>2. QED
    BY <1>1, <2>1, Zenon DEF Construct, ResetClient, Released
<1>2. CASE Reconnect \/ ReconnectFailed
  <2>1. reconnected' \in BOOLEAN /\ broker_sub' \in BOOLEAN /\ asked' \in BOOLEAN
    BY <1>2, ConnectTypes DEF Reconnect, ReconnectFailed
  <2>2. QED
    BY <1>2, <2>1, Zenon DEF Reconnect, ReconnectFailed, subs
<1>3. CASE Top \/ KeepaliveIdle \/ Ping \/ CloseDown
  BY <1>3, Zenon DEF Top, KeepaliveIdle, Ping, CloseDown, Close, client, subs, net
<1>4. CASE CycleNotConnected \/ CycleTimeout \/ CycleReadError
  BY <1>4, Zenon DEF CycleNotConnected, CycleTimeout, CycleReadError, client, subs, net
<1>5. CASE RecvPingresp \/ RecvSuback \/ RecvPublish
  <2>1. UNCHANGED <<ping_due, reconnected, broker_sub, wifi_connected, asked>>
    BY <1>5, Zenon DEF RecvPingresp, RecvSuback, RecvPublish, ReadPacket
  <2>2. sub_handle' = TRUE \/ sub_handle' = sub_handle
    BY <1>5, Zenon DEF RecvPingresp, RecvSuback, RecvPublish
  <2>3. QED
    BY <2>1, <2>2, Zenon
<1>6. CASE SubInfoProc \/ NothingToSubscribe \/ SubscribeInBadState \/ SubscribeListFull
  BY <1>6, Zenon DEF SubInfoProc, NothingToSubscribe, SubscribeInBadState, SubscribeListFull,
     client, subs, net
<1>7. CASE Subscribe \/ SubscribeWriteFailed
  BY <1>7, Zenon DEF Subscribe, SubscribeWriteFailed, client, net
<1>8. CASE Time
  BY <1>8, Zenon DEF Time, PingTimer, ReconnectTimer, RequestsTimeOut, client, subs, net
<1>9. CASE LinkDies \/ WifiDrops \/ WifiReturns
  BY <1>9, Zenon DEF LinkDies, WifiDrops, WifiReturns, client, subs, net
<1>10. CASE BrokerAnswers \/ BrokerPublishes
  BY <1>10, Zenon DEF BrokerAnswers, BrokerPublishes, client, subs
<1>11. CASE UNCHANGED vars
  BY <1>11, Zenon DEF vars, client, subs, net
<1>12. QED
  BY <1>1, <1>2, <1>3, <1>4, <1>5, <1>6, <1>7, <1>8, <1>9, <1>10, <1>11, Zenon
  DEF Next, Task, Network

LEMMA NumberStep ==
  ASSUME Types, [Next]_vars
  PROVE  NumberType'
<1> USE MqttConnAssumption DEF Types, NumberType
<1>1. sockets \in Nat /\ (handle = "sock" => sockets >= 1)
  BY DEF Inv, ControlOK, SocketsAccounted
<1>2. CASE Construct
  <2>1. /\ sockets' <= MaxSockets /\ link' \in {"none", "up", "dead"}
        /\ faults' \in 0 .. MaxFaults
    BY <1>2, ConnectTypes DEF Construct
  <2>2. QED
    BY <1>2, <2>1 DEF Construct, ResetClient
<1>3. CASE Reconnect \/ ReconnectFailed
  <2>1. /\ sockets' <= MaxSockets /\ link' \in {"none", "up", "dead"}
        /\ faults' \in 0 .. MaxFaults
    BY <1>3, ConnectTypes DEF Reconnect, ReconnectFailed
  <2>2. UNCHANGED <<keepalive_probes, packet_id>> /\ keepalive_probes # ProbeMax + 1
    BY <1>3 DEF Reconnect, ReconnectFailed, MayReconnect, subs
  <2>3. interval' \in 1 .. 2 * IntervalMax /\ reconnect_wait' \in 0 .. IntervalMax
    BY <1>3 DEF Reconnect, ReconnectFailed, Capped
  <2>4. QED
    BY <2>1, <2>2, <2>3
<1>4. CASE Top \/ KeepaliveIdle
  BY <1>4 DEF Top, KeepaliveIdle, client, subs, net
<1>5. CASE Ping
  <2>1. keepalive_probes \in 0 .. ProbeMax
    BY <1>5 DEF Ping
  <2>2. QED
    BY <1>5, <2>1 DEF Ping, PingNow, subs
<1>6. CASE CloseDown
  BY <1>1, <1>6 DEF CloseDown, Close, PingNow, subs
<1>7. CASE CycleNotConnected
  BY <1>7 DEF CycleNotConnected, client, subs, net
<1>8. CASE CycleTimeout \/ CycleReadError
  <2>1. keepalive_probes' \in 0 .. ProbeMax
    BY <1>8 DEF CycleTimeout, CycleReadError, TooManyProbes
  <2>2. faults' \in 0 .. MaxFaults
    BY <1>8 DEF CycleTimeout, CycleReadError, Fault
  <2>3. QED
    BY <1>8, <2>1, <2>2 DEF CycleTimeout, CycleReadError, subs, net
<1>9. CASE RecvPingresp \/ RecvSuback \/ RecvPublish
  BY <1>9 DEF RecvPingresp, RecvSuback, RecvPublish, ReadPacket, ProbesAnswered
<1>10. CASE SubInfoProc \/ NothingToSubscribe \/ SubscribeInBadState
  BY <1>10 DEF SubInfoProc, NothingToSubscribe, SubscribeInBadState, client, subs, net
<1>11. CASE SubscribeListFull \/ Subscribe \/ SubscribeWriteFailed
  <2>1. packet_id' = NextPacketId
    BY <1>11 DEF SubscribeListFull, Subscribe, SubscribeWriteFailed
  <2>2. packet_id' \in 0 .. PacketIdMax
    BY <2>1, NextIdType
  <2>3. UNCHANGED <<keepalive_probes, interval, reconnect_wait, sockets, link, faults>>
    BY <1>11, Zenon
    DEF SubscribeListFull, Subscribe, SubscribeWriteFailed, client, net
  <2>4. keepalive_probes # ProbeMax + 1
    BY <1>11 DEF SubscribeListFull, Subscribe, SubscribeWriteFailed
  <2>5. QED
    BY <2>2, <2>3, <2>4
<1>12. CASE PingTimer \/ ReconnectTimer \/ RequestsTimeOut
  BY <1>12 DEF PingTimer, ReconnectTimer, RequestsTimeOut, client, subs, net
<1>13. CASE LinkDies \/ WifiDrops
  BY <1>13 DEF LinkDies, WifiDrops, Fault, client, subs
<1>14. CASE WifiReturns
  BY <1>14 DEF WifiReturns, client, subs, net
<1>15. CASE BrokerAnswers \/ BrokerPublishes
  BY <1>15 DEF BrokerAnswers, BrokerPublishes, client, subs
<1>16. CASE UNCHANGED vars
  BY <1>16 DEF vars, client, subs, net
<1>17. QED
  BY <1>2, <1>3, <1>4, <1>5, <1>6, <1>7, <1>8, <1>9, <1>10, <1>11, <1>12, <1>13,
     <1>14, <1>15, <1>16 DEF Next, Task, Time, Network

\* Marking nodes, as answered or as late, changes neither length nor kind of the list.
LEMMA MarkedType ==
  ASSUME NEW list \in Seq(Node), NEW new, DOMAIN new = DOMAIN list,
         \A i \in DOMAIN list : new[i] \in Node, new = [i \in DOMAIN list |-> new[i]]
  PROVE  new \in Seq(Node) /\ Len(new) = Len(list)
<1>1. /\ DOMAIN list = 1 .. Len(list) /\ Len(list) \in Nat
      /\ new = [i \in 1 .. Len(list) |-> new[i]]
  BY Zenon, LenProperties
<1>2. QED
  BY <1>1, IsASeq

LEMMA MaskType ==
  ASSUME NEW list \in Seq(Node), NEW id
  PROVE  Mask(list, id) \in Seq(Node) /\ Len(Mask(list, id)) = Len(list)
<1>1. ASSUME NEW i \in DOMAIN list PROVE Mask(list, id)[i] \in Node
  <2>1. list[i] \in Node
    OBVIOUS
  <2>2. [list[i] EXCEPT !.state = "INVALID"] \in Node
    BY <2>1, Zenon DEF Node
  <2>3. Mask(list, id)[i] = [list[i] EXCEPT !.state = "INVALID"] \/ Mask(list, id)[i] = list[i]
    BY Zenon DEF Mask
  <2>4. QED
    BY <2>1, <2>2, <2>3
<1>2. /\ DOMAIN Mask(list, id) = DOMAIN list
      /\ Mask(list, id) = [i \in DOMAIN list |-> Mask(list, id)[i]]
  BY Zenon DEF Mask
<1>3. QED
  BY <1>1, <1>2, MarkedType

LEMMA LateType ==
  ASSUME NEW list \in Seq(Node)
  PROVE  LET late == [i \in DOMAIN list |-> [list[i] EXCEPT !.late = TRUE]]
         IN  late \in Seq(Node) /\ Len(late) = Len(list)
<1> DEFINE late == [i \in DOMAIN list |-> [list[i] EXCEPT !.late = TRUE]]
<1>1. ASSUME NEW i \in DOMAIN list PROVE late[i] \in Node
  <2>1. list[i] \in Node
    OBVIOUS
  <2>2. QED
    BY <2>1, Zenon DEF Node
<1>2. DOMAIN late = DOMAIN list /\ late = [i \in DOMAIN list |-> late[i]]
  BY Zenon
<1> HIDE DEF late
<1>3. late \in Seq(Node) /\ Len(late) = Len(list)
  BY <1>1, <1>2, MarkedType
<1>4. QED
  BY <1>3 DEF late

LEMMA ListStep ==
  ASSUME Types, [Next]_vars
  PROVE  ListType'
<1> USE DEF Types, ListType
<1>1. CASE Construct
  <2>1. sub_to_ack' = <<>>
    BY <1>1 DEF Construct, ResetClient
  <2>2. QED
    BY <2>1, NothingInIt, MqttConnAssumption
<1>2. CASE RecvSuback
  BY <1>2, MaskType DEF RecvSuback
<1>3. CASE SubInfoProc
  <2> DEFINE keep == {i \in DOMAIN sub_to_ack : IsNormal(sub_to_ack[i])}
  <2>1. sub_to_ack' = Kept(sub_to_ack, keep)
    BY <1>3 DEF SubInfoProc, Cleaned
  <2> HIDE DEF keep
  <2>2. Kept(sub_to_ack, keep) \in Seq(Node) /\ Len(Kept(sub_to_ack, keep)) <= Len(sub_to_ack)
    BY KeptNodes
  <2>3. Len(Kept(sub_to_ack, keep)) <= SubMax
    BY <2>2, MqttConnAssumption
  <2>4. QED
    BY <2>1, <2>2, <2>3
<1>4. CASE Subscribe
  <2>1. packet_id' \in 1 .. PacketIdMax
    BY <1>4, NextIdType DEF Subscribe, NumberType
  <2>2. [id |-> packet_id', state |-> "NORMAL", late |-> FALSE] \in Node
    BY <2>1, Zenon DEF Node
  <2>3. SUFFICES ASSUME NEW e \in Node, sub_to_ack' = Append(sub_to_ack, e)
                 PROVE  ListType'
    BY <1>4, <2>2 DEF Subscribe
  <2>4. Len(sub_to_ack) < SubMax
    BY <1>4 DEF Subscribe
  <2>5. QED
    BY <2>3, <2>4, MqttConnAssumption
<1>5. CASE RequestsTimeOut
  <2>1. sub_to_ack' = [i \in DOMAIN sub_to_ack |-> [sub_to_ack[i] EXCEPT !.late = TRUE]]
    BY <1>5 DEF RequestsTimeOut
  <2>2. QED
    BY <2>1, LateType
<1>6. CASE Top \/ KeepaliveIdle \/ Ping \/ CloseDown \/ Reconnect \/ ReconnectFailed
  BY <1>6 DEF Top, KeepaliveIdle, Ping, CloseDown, Reconnect, ReconnectFailed, subs
<1>7. CASE CycleNotConnected \/ CycleTimeout \/ CycleReadError \/ RecvPingresp \/ RecvPublish
  BY <1>7 DEF CycleNotConnected, CycleTimeout, CycleReadError, RecvPingresp, RecvPublish, subs
<1>8. CASE \/ NothingToSubscribe \/ SubscribeInBadState \/ SubscribeListFull
           \/ SubscribeWriteFailed \/ PingTimer \/ ReconnectTimer
  BY <1>8 DEF NothingToSubscribe, SubscribeInBadState, SubscribeListFull,
     SubscribeWriteFailed, PingTimer, ReconnectTimer, subs
<1>9. CASE Network
  BY <1>9 DEF Network, LinkDies, WifiDrops, WifiReturns, BrokerAnswers, BrokerPublishes, subs
<1>10. CASE UNCHANGED vars
  BY <1>10 DEF vars, subs
<1>11. QED
  BY <1>1, <1>2, <1>3, <1>4, <1>5, <1>6, <1>7, <1>8, <1>9, <1>10 DEF Next, Task, Time

\* What a step may put into the queues.
UpGrows == Subscribe \/ \A p \in NodesOf(up') : p \in NodesOf(up) \/ p.type = "PING"
DownGrows ==
  \/ BrokerPublishes
  \/ BrokerAnswers /\ Head(up).type # "PING"
  \/ \A p \in NodesOf(down') : p \in NodesOf(down) \/ p.type = "PINGRESP"

LEMMA QueueEffect ==
  ASSUME Types, [Next]_vars
  PROVE  QueueType' /\ UpGrows /\ DownGrows
<1>1. up \in Seq(Packet) /\ down \in Seq(Packet)
  BY DEF Types, QueueType
<1>2. ASSUME up' \in {up, <<>>} \/ (up # <<>> /\ up' = Tail(up))
      PROVE  up' \in Seq(Packet) /\ UpGrows
  <2>1. up' \in Seq(Packet) /\ NodesOf(up') \in SUBSET NodesOf(up)
    BY <1>1, <1>2, Shortened
  <2>2. QED
    BY <2>1 DEF UpGrows
<1>3. ASSUME down' \in {down, <<>>} \/ (down # <<>> /\ down' = Tail(down))
      PROVE  down' \in Seq(Packet) /\ DownGrows
  <2>1. down' \in Seq(Packet) /\ NodesOf(down') \in SUBSET NodesOf(down)
    BY <1>1, <1>3, Shortened
  <2>2. QED
    BY <2>1 DEF DownGrows
<1>4. ASSUME NEW p \in Packet, up' = Append(up, p) \/ up' = up, p.type = "PING" \/ Subscribe
      PROVE  up' \in Seq(Packet) /\ UpGrows
  <2>1. up' \in Seq(Packet) /\ NodesOf(up') \in SUBSET (NodesOf(up) \cup {p})
    BY <1>1, <1>4, Appended
  <2>2. QED
    BY <1>4, <2>1 DEF UpGrows
<1>5. ASSUME NEW p \in Packet, down' = Append(down, p),
             p.type = "PINGRESP" \/ BrokerPublishes \/ (BrokerAnswers /\ Head(up).type # "PING")
      PROVE  down' \in Seq(Packet) /\ DownGrows
  <2>1. down' \in Seq(Packet) /\ NodesOf(down') \in SUBSET (NodesOf(down) \cup {p})
    BY <1>1, <1>5, Appended
  <2>2. QED
    BY <1>5, <2>1 DEF DownGrows
<1>6. CASE Ping
  <2>1. [type |-> "PING", id |-> 0] \in Packet
    BY MqttConnAssumption DEF Packet
  <2>2. (up' = Append(up, [type |-> "PING", id |-> 0]) \/ up' = up) /\ down' = down
    BY <1>6 DEF Ping, SendPing, Write
  <2>3. QED
    BY <1>3, <1>4, <2>1, <2>2 DEF QueueType
<1>7. CASE Subscribe
  <2>1. packet_id' \in 1 .. PacketIdMax
    BY <1>7, NextIdType DEF Subscribe, Types, NumberType
  <2>2. [type |-> "SUBSCRIBE", id |-> packet_id'] \in Packet
    BY <2>1 DEF Packet
  <2>3. (up' = Append(up, [type |-> "SUBSCRIBE", id |-> packet_id']) \/ up' = up) /\ down' = down
    BY <1>7 DEF Subscribe, Write
  <2>4. QED
    BY <1>3, <1>4, <1>7, <2>2, <2>3 DEF QueueType
<1>8. CASE BrokerAnswers
  <2>1. up # <<>> /\ up' = Tail(up) /\ Head(up) \in Packet
    BY <1>1, <1>8 DEF BrokerAnswers
  <2>2. Head(up).id \in 0 .. PacketIdMax
    BY <2>1 DEF Packet
  <2>3. /\ [type |-> "PINGRESP", id |-> 0] \in Packet
        /\ [type |-> "SUBACK", id |-> Head(up).id] \in Packet
        /\ [type |-> "SUBNACK", id |-> Head(up).id] \in Packet
    BY <2>2, MqttConnAssumption DEF Packet
  <2>4. down' \in Seq(Packet) /\ DownGrows
    <3>1. CASE Head(up).type = "PING"
      <4>1. down' = Append(down, [type |-> "PINGRESP", id |-> 0])
        BY <1>8, <3>1 DEF BrokerAnswers
      <4>2. QED
        BY <1>5, <2>3, <4>1
    <3>2. CASE Head(up).type # "PING"
      <4>1. \/ down' = Append(down, [type |-> "SUBACK", id |-> Head(up).id])
            \/ down' = Append(down, [type |-> "SUBNACK", id |-> Head(up).id])
        BY <1>8, <3>2 DEF BrokerAnswers
      <4>2. QED
        BY <1>5, <1>8, <2>3, <3>2, <4>1
    <3>3. QED
      BY <3>1, <3>2
  <2>5. QED
    BY <1>2, <2>1, <2>4 DEF QueueType
<1>9. CASE BrokerPublishes
  <2>1. [type |-> "PUBLISH", id |-> 0] \in Packet
    BY MqttConnAssumption DEF Packet
  <2>2. down' = Append(down, [type |-> "PUBLISH", id |-> 0]) /\ up' = up
    BY <1>9 DEF BrokerPublishes
  <2>3. QED
    BY <1>2, <1>5, <1>9, <2>1, <2>2 DEF QueueType
<1>10. CASE RecvPingresp \/ RecvSuback \/ RecvPublish
  <2>1. up' = up /\ down # <<>> /\ down' = Tail(down)
    BY <1>10 DEF RecvPingresp, RecvSuback, RecvPublish, ReadPacket
  <2>2. QED
    BY <1>2, <1>3, <2>1 DEF QueueType
<1>11. ASSUME up' \in {up, <<>>}, down' \in {down, <<>>}
       PROVE  QueueType' /\ UpGrows /\ DownGrows
  BY <1>2, <1>3, <1>11 DEF QueueType
<1>12. CASE Construct \/ Reconnect \/ ReconnectFailed
  BY <1>11, <1>12 DEF Construct, Reconnect, ReconnectFailed, TcpRefused, MqttRefused, Accepted, net
<1>13. CASE Top \/ KeepaliveIdle \/ CloseDown \/ CycleNotConnected \/ CycleTimeout \/ CycleReadError
  BY <1>11, <1>13 DEF Top, KeepaliveIdle, CloseDown, Close, CycleNotConnected, CycleTimeout,
     CycleReadError, net
<1>14. CASE \/ SubInfoProc \/ NothingToSubscribe \/ SubscribeInBadState \/ SubscribeListFull
            \/ SubscribeWriteFailed \/ Time
  BY <1>11, <1>14 DEF SubInfoProc, NothingToSubscribe, SubscribeInBadState, SubscribeListFull,
     SubscribeWriteFailed, Time, PingTimer, ReconnectTimer, RequestsTimeOut, net
<1>15. CASE LinkDies \/ WifiDrops \/ WifiReturns \/ UNCHANGED vars
  BY <1>11, <1>15 DEF LinkDies, WifiDrops, WifiReturns, vars, net
<1>16. QED
  BY <1>6, <1>7, <1>8, <1>9, <1>10, <1>12, <1>13, <1>14, <1>15 DEF Next, Task, Network

LEMMA TypesInit == Init => Types
<1> SUFFICES ASSUME Init PROVE Types
  OBVIOUS
<1>1. FlagType
  BY Zenon DEF Init, FlagType
<1>2. NumberType
  <2>1. /\ 0 \in 0 .. ProbeMax + 1 /\ 0 # ProbeMax + 1 /\ 1 \in 1 .. 2 * IntervalMax
        /\ 0 \in 0 .. IntervalMax /\ 0 \in 0 .. PacketIdMax /\ 0 <= MaxSockets
        /\ 0 \in 0 .. MaxFaults
    BY MqttConnAssumption
  <2>2. QED
    BY <2>1, Zenon DEF Init, NumberType
<1>3. ListType /\ QueueType
  <2>1. sub_to_ack = <<>> /\ up = <<>> /\ down = <<>>
    BY DEF Init
  <2>2. 0 <= SubMax
    BY MqttConnAssumption
  <2>3. QED
    BY <2>1, <2>2, NothingInIt DEF ListType, QueueType
<1>4. QED
  BY <1>1, <1>2, <1>3, InvInit DEF Types

LEMMA TypesStep == Types /\ [Next]_vars => Types'
<1>1. SUFFICES ASSUME Types, [Next]_vars PROVE Types'
  OBVIOUS
<1>2. Inv'
  BY <1>1, InvStep DEF Types
<1>3. QED
  BY <1>1, <1>2, FlagStep, NumberStep, ListStep, QueueEffect DEF Types

\* Type correctness, for every value of the constants.
THEOREM TypeCorrect == Spec => []TypeOK
<1>1. QED
  BY TypesInit, TypesStep, TypesGive, PTL DEF Spec

-----------------------------------------------------------------------------
(* A connected client asks for its commands                                *)

AllNormal == \A i \in DOMAIN sub_to_ack : sub_to_ack[i].state = "NORMAL"

\* Before it has asked on this connection, nothing but pings has been exchanged ...
Silent ==
  ~asked => /\ \A p \in NodesOf(up) : p.type = "PING"
            /\ \A p \in NodesOf(down) : p.type = "PINGRESP"
            /\ ~broker_sub

\* ... and no request is answered, once the first cycle after the connect is over.
Unanswered ==
  (client_state = "CONNECTED" /\ ~asked /\ (pc \notin {"cycle", "proc"} \/ ~reconnected))
    => AllNormal

Asks == client_state = "CONNECTED" => asked \/ reconnected \/ Len(sub_to_ack) = SubMax

AskInv == Types /\ Silent /\ Unanswered /\ Asks

\* Where the history of asking begins and ends.
LEMMA AskedChanges ==
  ASSUME [Next]_vars
  PROVE  asked' = asked \/ (Subscribe /\ asked') \/ (Accepted /\ (Construct \/ Reconnect))
<1>1. CASE Construct \/ Reconnect \/ ReconnectFailed
  BY <1>1, Zenon DEF Construct, Reconnect, ReconnectFailed, TcpRefused, MqttRefused
<1>2. CASE Top \/ KeepaliveIdle \/ Ping \/ CloseDown \/ CycleNotConnected \/ CycleTimeout \/ CycleReadError
  BY <1>2, Zenon DEF Top, KeepaliveIdle, Ping, CloseDown, CycleNotConnected, CycleTimeout, CycleReadError
<1>3. CASE RecvPingresp \/ RecvSuback \/ RecvPublish \/ SubInfoProc
  BY <1>3, Zenon DEF RecvPingresp, RecvSuback, RecvPublish, ReadPacket, SubInfoProc
<1>4. CASE \/ NothingToSubscribe \/ SubscribeInBadState \/ SubscribeListFull \/ Subscribe
           \/ SubscribeWriteFailed
  BY <1>4, Zenon DEF NothingToSubscribe, SubscribeInBadState, SubscribeListFull, Subscribe,
     SubscribeWriteFailed
<1>5. CASE Time
  BY <1>5, Zenon DEF Time, PingTimer, ReconnectTimer, RequestsTimeOut
<1>6. CASE Network
  BY <1>6, Zenon DEF Network, LinkDies, WifiDrops, WifiReturns, BrokerAnswers, BrokerPublishes
<1>7. CASE UNCHANGED vars
  BY <1>7, Zenon DEF vars
<1>8. QED
  BY <1>1, <1>2, <1>3, <1>4, <1>5, <1>6, <1>7, Zenon DEF Next, Task

LEMMA BrokerSubChanges ==
  ASSUME [Next]_vars
  PROVE  \/ broker_sub' = broker_sub \/ broker_sub' = FALSE
         \/ BrokerAnswers /\ Head(up).type # "PING"
<1>1. CASE Construct \/ Reconnect \/ ReconnectFailed
  BY <1>1, Zenon DEF Construct, Reconnect, ReconnectFailed, TcpRefused, MqttRefused, Accepted, net
<1>2. CASE Top \/ KeepaliveIdle \/ Ping \/ CloseDown \/ CycleNotConnected \/ CycleTimeout \/ CycleReadError
  BY <1>2, Zenon DEF Top, KeepaliveIdle, Ping, CloseDown, Close, CycleNotConnected, CycleTimeout,
     CycleReadError, net
<1>3. CASE RecvPingresp \/ RecvSuback \/ RecvPublish \/ SubInfoProc
  BY <1>3, Zenon DEF RecvPingresp, RecvSuback, RecvPublish, ReadPacket, SubInfoProc, net
<1>4. CASE \/ NothingToSubscribe \/ SubscribeInBadState \/ SubscribeListFull \/ Subscribe
           \/ SubscribeWriteFailed
  BY <1>4, Zenon DEF NothingToSubscribe, SubscribeInBadState, SubscribeListFull, Subscribe,
     SubscribeWriteFailed, net
<1>5. CASE Time
  BY <1>5, Zenon DEF Time, PingTimer, ReconnectTimer, RequestsTimeOut, net
<1>6. CASE Network
  BY <1>6, Zenon DEF Network, LinkDies, WifiDrops, WifiReturns, BrokerAnswers, BrokerPublishes, net
<1>7. CASE UNCHANGED vars
  BY <1>7, Zenon DEF vars, net
<1>8. QED
  BY <1>1, <1>2, <1>3, <1>4, <1>5, <1>6, <1>7, Zenon DEF Next, Task

LEMMA SilentStep ==
  ASSUME Types, Silent, [Next]_vars
  PROVE  Silent'
<1>1. CASE Accepted
  <2>1. up' = <<>> /\ down' = <<>> /\ broker_sub' = FALSE
    BY <1>1, Zenon DEF Accepted
  <2>2. NodesOf(up') = {} /\ NodesOf(down') = {}
    BY <2>1, NodesOfEmpty
  <2>3. QED
    BY <2>1, <2>2, Zenon DEF Silent, NodesOf
<1>2. CASE ~Accepted
  <2>1. SUFFICES ASSUME ~asked'
                 PROVE  /\ \A p \in NodesOf(up') : p.type = "PING"
                        /\ \A p \in NodesOf(down') : p.type = "PINGRESP"
                        /\ ~broker_sub'
    BY Zenon DEF Silent, NodesOf
  <2>2. ~asked /\ ~Subscribe
    <3>1. asked' = asked
      BY <1>2, <2>1, AskedChanges, Zenon
    <3>2. ~Subscribe
      BY <2>1, Zenon DEF Subscribe
    <3>3. QED
      BY <2>1, <3>1, <3>2, Zenon
  <2>3. /\ \A p \in NodesOf(up) : p.type = "PING"
        /\ \A p \in NodesOf(down) : p.type = "PINGRESP"
        /\ ~broker_sub
    BY <2>2, Zenon DEF Silent
  <2>4. ~(BrokerAnswers /\ Head(up).type # "PING")
    <3>1. SUFFICES ASSUME BrokerAnswers PROVE Head(up).type = "PING"
      BY Zenon
    <3>2. up # <<>>
      BY <3>1 DEF BrokerAnswers
    <3>3. Head(up) \in NodesOf(up)
      BY <3>2, NodesOfTail DEF Types, QueueType
    <3>4. QED
      BY <2>3, <3>3
  <2>5. ~BrokerPublishes
    BY <2>3, Zenon DEF BrokerPublishes
  <2>6. ~broker_sub'
    BY <2>3, <2>4, BrokerSubChanges, Zenon
  <2>7. UpGrows /\ DownGrows
    BY QueueEffect
  <2>8. QED
    BY <2>2, <2>3, <2>4, <2>5, <2>6, <2>7, Zenon DEF UpGrows, DownGrows
<1>3. QED
  BY <1>1, <1>2

\* What is read before the first request is the answer to a ping.
LEMMA OnlyPingresp ==
  ASSUME Types, Silent, ~asked, down # <<>>
  PROVE  Head(down).type = "PINGRESP"
<1>1. Head(down) \in NodesOf(down)
  BY NodesOfTail DEF Types, QueueType
<1>2. QED
  BY <1>1, Zenon DEF Silent

\* The clean-up keeps every node that is not answered, so all if none is.
LEMMA CleanedIs ==
  ASSUME Types
  PROVE  /\ \A i \in DOMAIN Cleaned : Cleaned[i].state = "NORMAL"
         /\ AllNormal => Len(Cleaned) = Len(sub_to_ack)
<1> DEFINE keep == {i \in DOMAIN sub_to_ack : IsNormal(sub_to_ack[i])}
<1>1. sub_to_ack \in Seq(Node)
  BY DEF Types, ListType
<1>2. \A k \in keep : sub_to_ack[k].state = "NORMAL"
  BY Zenon DEF IsNormal
<1>3. AllNormal => DOMAIN sub_to_ack \subseteq keep
  BY Zenon DEF AllNormal, IsNormal
<1>4. Cleaned = Kept(sub_to_ack, keep)
  BY DEF Cleaned
<1> HIDE DEF keep
<1>5. /\ {Kept(sub_to_ack, keep)[i] : i \in DOMAIN Kept(sub_to_ack, keep)}
           = {sub_to_ack[k] : k \in keep \cap DOMAIN sub_to_ack}
      /\ DOMAIN sub_to_ack \subseteq keep => Len(Kept(sub_to_ack, keep)) = Len(sub_to_ack)
  BY <1>1, KeptNodes, ZenonT(30)
<1>6. ASSUME NEW i \in DOMAIN Cleaned PROVE Cleaned[i].state = "NORMAL"
  <2>1. Cleaned[i] \in {sub_to_ack[k] : k \in keep \cap DOMAIN sub_to_ack}
    BY <1>4, <1>5, <1>6, Zenon
  <2>2. QED
    BY <1>2, <2>1
<1>7. QED
  BY <1>3, <1>4, <1>5, <1>6, Zenon

LEMMA UnansweredStep ==
  ASSUME AskInv, [Next]_vars
  PROVE  Unanswered'
<1> SUFFICES ASSUME client_state' = "CONNECTED", ~asked',
                    pc' \notin {"cycle", "proc"} \/ ~reconnected'
             PROVE  AllNormal'
  BY Zenon DEF Unanswered, AllNormal
<1> USE DEF AskInv
<1>1. ASSUME UNCHANGED sub_to_ack, AllNormal PROVE AllNormal'
  BY <1>1 DEF AllNormal
<1>2. ASSUME client_state = "CONNECTED", ~asked, pc \notin {"cycle", "proc"} \/ ~reconnected,
             UNCHANGED sub_to_ack
      PROVE  AllNormal'
  BY <1>1, <1>2, Zenon DEF Unanswered
<1>3. CASE Construct
  <2>1. sub_to_ack' = <<>>
    BY <1>3 DEF Construct, ResetClient
  <2>2. QED
    BY <2>1 DEF AllNormal
<1>4. CASE Top
  <2>1. pc = "top" /\ UNCHANGED <<client_state, asked, sub_to_ack>>
    BY <1>4, Zenon DEF Top, client, subs
  <2>2. QED
    BY <1>2, <2>1
<1>5. CASE KeepaliveIdle \/ Ping
  <2>1. pc = "keepalive" /\ UNCHANGED <<client_state, asked, sub_to_ack>>
    BY <1>5, Zenon DEF KeepaliveIdle, Ping, client, subs
  <2>2. QED
    BY <1>2, <2>1
<1>6. CASE CloseDown \/ ReconnectFailed \/ CycleNotConnected \/ CycleReadError
  BY <1>6 DEF CloseDown, ReconnectFailed, MayReconnect, CycleNotConnected, CycleReadError, client
<1>7. CASE Reconnect
  BY <1>7, Zenon DEF Reconnect, Accepted, TcpConnects
<1>8. CASE CycleTimeout \/ RecvPingresp
  <2>1. /\ pc' = "proc" /\ client_state = "CONNECTED"
        /\ UNCHANGED <<reconnected, asked, sub_to_ack>>
    BY <1>8, Zenon DEF CycleTimeout, RecvPingresp, ReadPacket, subs
  <2>2. ~asked /\ ~reconnected
    BY <2>1, Zenon
  <2>3. QED
    BY <1>2, <2>1, <2>2
<1>9. CASE RecvSuback \/ RecvPublish
  <2>1. down # <<>> /\ Head(down).type \in {"SUBACK", "SUBNACK", "PUBLISH"}
    BY <1>9 DEF RecvSuback, RecvPublish, ReadPacket
  <2>2. UNCHANGED asked
    BY <1>9, Zenon DEF RecvSuback, RecvPublish, ReadPacket
  <2>3. Head(down).type = "PINGRESP"
    BY <2>1, <2>2, OnlyPingresp
  <2>4. QED
    BY <2>1, <2>3
<1>10. CASE SubInfoProc
  <2>1. sub_to_ack' = Cleaned
    BY <1>10 DEF SubInfoProc
  <2>2. QED
    BY <2>1, CleanedIs, Zenon DEF AllNormal
<1>11. CASE NothingToSubscribe \/ SubscribeListFull
  <2>1. pc = "resub" /\ UNCHANGED <<client_state, asked, sub_to_ack>>
    BY <1>11, Zenon DEF NothingToSubscribe, SubscribeListFull, client, subs
  <2>2. QED
    BY <1>2, <2>1
<1>12. CASE SubscribeInBadState \/ SubscribeWriteFailed
  BY <1>12 DEF SubscribeInBadState, SubscribeWriteFailed, client
<1>13. CASE Subscribe
  BY <1>13, Zenon DEF Subscribe
<1>14. CASE RequestsTimeOut
  <2>1. UNCHANGED <<pc, client_state, asked, reconnected>>
    BY <1>14, Zenon DEF RequestsTimeOut, client
  <2>2. AllNormal
    BY <2>1, Zenon DEF Unanswered
  <2>3. sub_to_ack' = [i \in DOMAIN sub_to_ack |-> [sub_to_ack[i] EXCEPT !.late = TRUE]]
    BY <1>14 DEF RequestsTimeOut
  <2>4. ASSUME NEW i \in DOMAIN sub_to_ack PROVE sub_to_ack'[i].state = "NORMAL"
    <3>1. sub_to_ack[i] \in Node
      BY DEF Types, ListType
    <3>2. [sub_to_ack[i] EXCEPT !.late = TRUE].state = sub_to_ack[i].state
      BY <3>1, Zenon DEF Node
    <3>3. QED
      BY <2>2, <2>3, <3>2, Zenon DEF AllNormal
  <2>5. DOMAIN sub_to_ack' = DOMAIN sub_to_ack
    BY <2>3, Zenon
  <2>6. QED
    BY <2>4, <2>5, Zenon DEF AllNormal
<1>15. CASE PingTimer \/ ReconnectTimer \/ Network \/ UNCHANGED vars
  <2>1. UNCHANGED <<pc, client_state, asked, reconnected, sub_to_ack>>
    BY <1>15, Zenon DEF PingTimer, ReconnectTimer, Network, LinkDies, WifiDrops, WifiReturns,
       BrokerAnswers, BrokerPublishes, vars, client, subs
  <2>2. ~asked /\ (pc \notin {"cycle", "proc"} \/ ~reconnected)
    BY <2>1, Zenon
  <2>3. QED
    BY <1>2, <2>1, <2>2
<1>16. QED
  BY <1>3, <1>4, <1>5, <1>6, <1>7, <1>8, <1>9, <1>10, <1>11, <1>12, <1>13, <1>14, <1>15
  DEF Next, Task, Time

LEMMA AsksStep ==
  ASSUME AskInv, [Next]_vars
  PROVE  Asks'
<1> SUFFICES ASSUME client_state' = "CONNECTED", ~asked', ~reconnected'
             PROVE  Len(sub_to_ack') = SubMax
  BY Zenon DEF Asks
<1> USE DEF AskInv
<1>1. ASSUME client_state = "CONNECTED", UNCHANGED <<asked, reconnected>>
      PROVE  Len(sub_to_ack) = SubMax
  BY <1>1, Zenon DEF Asks
<1>2. CASE Construct \/ Reconnect
  <2>1. CASE Accepted
    BY <2>1, Zenon DEF Accepted, TcpConnects
  <2>2. CASE ~Accepted
    BY <1>2, <2>2 DEF Construct, Released, Reconnect
  <2>3. QED
    BY <2>1, <2>2
<1>3. CASE Top \/ KeepaliveIdle \/ Ping \/ NothingToSubscribe
  <2>1. UNCHANGED <<client_state, asked, reconnected, sub_to_ack>>
    BY <1>3, Zenon DEF Top, KeepaliveIdle, Ping, NothingToSubscribe, client, subs
  <2>2. QED
    BY <1>1, <2>1
<1>4. CASE CloseDown \/ ReconnectFailed \/ CycleNotConnected \/ CycleReadError
  BY <1>4 DEF CloseDown, ReconnectFailed, MayReconnect, CycleNotConnected, CycleReadError, client
<1>5. CASE CycleTimeout \/ RecvPingresp \/ RecvPublish
  <2>1. client_state = "CONNECTED" /\ UNCHANGED <<asked, reconnected, sub_to_ack>>
    BY <1>5, Zenon DEF CycleTimeout, RecvPingresp, RecvPublish, ReadPacket, subs
  <2>2. QED
    BY <1>1, <2>1
<1>6. CASE RecvSuback
  <2>1. client_state = "CONNECTED" /\ UNCHANGED <<asked, reconnected>>
    BY <1>6, Zenon DEF RecvSuback, ReadPacket
  <2>2. sub_to_ack' = Mask(sub_to_ack, Head(down).id)
    BY <1>6 DEF RecvSuback
  <2>3. Len(sub_to_ack') = Len(sub_to_ack)
    BY <2>2, MaskType DEF Types, ListType
  <2>4. QED
    BY <1>1, <2>1, <2>3
<1>7. CASE SubInfoProc
  <2>1. UNCHANGED <<client_state, asked, reconnected>> /\ sub_to_ack' = Cleaned
    BY <1>7, Zenon DEF SubInfoProc, client
  <2>2. AllNormal
    BY <2>1, Zenon DEF Unanswered
  <2>3. Len(sub_to_ack') = Len(sub_to_ack)
    BY <2>1, <2>2, CleanedIs
  <2>4. QED
    BY <1>1, <2>1, <2>3
<1>8. CASE SubscribeListFull
  <2>1. Len(sub_to_ack) >= SubMax /\ UNCHANGED sub_to_ack
    BY <1>8 DEF SubscribeListFull
  <2>2. QED
    BY <2>1, MqttConnAssumption DEF Types, ListType
<1>9. CASE SubscribeInBadState \/ SubscribeWriteFailed
  BY <1>9 DEF SubscribeInBadState, SubscribeWriteFailed, client
<1>10. CASE Subscribe
  BY <1>10, Zenon DEF Subscribe
<1>11. CASE RequestsTimeOut
  <2>1. UNCHANGED <<client_state, asked, reconnected>>
    BY <1>11, Zenon DEF RequestsTimeOut, client
  <2>2. sub_to_ack' = [i \in DOMAIN sub_to_ack |-> [sub_to_ack[i] EXCEPT !.late = TRUE]]
    BY <1>11 DEF RequestsTimeOut
  <2>3. Len(sub_to_ack') = Len(sub_to_ack)
    BY <2>2, LateType DEF Types, ListType
  <2>4. QED
    BY <1>1, <2>1, <2>3
<1>12. CASE PingTimer \/ ReconnectTimer \/ Network \/ UNCHANGED vars
  <2>1. UNCHANGED <<client_state, asked, reconnected, sub_to_ack>>
    BY <1>12, Zenon DEF PingTimer, ReconnectTimer, Network, LinkDies, WifiDrops, WifiReturns,
       BrokerAnswers, BrokerPublishes, vars, client, subs
  <2>2. QED
    BY <1>1, <2>1
<1>13. QED
  BY <1>2, <1>3, <1>4, <1>5, <1>6, <1>7, <1>8, <1>9, <1>10, <1>11, <1>12 DEF Next, Task, Time

LEMMA AskInit == Init => AskInv
<1>1. SUFFICES ASSUME Init PROVE Silent /\ Unanswered /\ Asks
  BY TypesInit DEF AskInv
<1>2. up = <<>> /\ down = <<>> /\ client_state = "INVALID"
  BY <1>1 DEF Init
<1>3. ~broker_sub
  BY <1>1, Zenon DEF Init
<1>4. NodesOf(up) = {} /\ NodesOf(down) = {}
  BY <1>2, NodesOfEmpty
<1>5. QED
  BY <1>2, <1>3, <1>4 DEF Silent, Unanswered, Asks

LEMMA AskStep == AskInv /\ [Next]_vars => AskInv'
BY TypesStep, SilentStep, UnansweredStep, AsksStep DEF AskInv

\* ConnectedAsks: the flag that makes the device subscribe is never spent on a
\* connection that is gone: whoever is connected has asked for its commands, will
\* ask, or found the list of requests full.
THEOREM ConnectedHasAsked == Spec => []ConnectedAsks
<1>1. AskInv => ConnectedAsks
  BY TypesGive DEF AskInv, Asks, ConnectedAsks
<1>2. QED
  BY <1>1, AskInit, AskStep, PTL DEF Spec

-----------------------------------------------------------------------------
(* The count of unanswered pings on a live connection                      *)

\* Something is on its way that will reset the count once it is answered and read.
Awaits == reconnected \/ up # <<>> \/ down # <<>>

\* A client that never asked and never will (its list was full) counts freely;
\* any other has at most the pings of earlier connections and one of its own in
\* the count, and starts a new one only when the last was answered.
Counts ==
  \/ ~asked /\ ~reconnected
  \/ /\ keepalive_probes <= ProbeMax
     /\ keepalive_probes = 0 \/ Awaits
     /\ ping_due => keepalive_probes = 0

Counted ==
  client_state = "CONNECTED" /\ link = "up" => ~(asked /\ reconnected) /\ Counts

CountInv == AskInv /\ Counted

\* A connection becomes one, or stays one, in no other way than by Accepted.
LEMMA UpOrAccepted ==
  ASSUME AskInv, [Next]_vars, client_state' = "CONNECTED", link' = "up"
  PROVE  \/ client_state = "CONNECTED" /\ link = "up"
         \/ (Construct \/ Reconnect) /\ Accepted
<1>1. CASE Construct
  BY <1>1 DEF Construct, Released
<1>2. CASE Reconnect
  BY <1>2 DEF Reconnect
<1>3. CASE Top \/ KeepaliveIdle \/ CycleNotConnected
  BY <1>3, Zenon DEF Top, KeepaliveIdle, CycleNotConnected, client, net
<1>4. CASE Ping
  BY <1>4, Zenon DEF Ping, PingNow
<1>5. CASE CloseDown \/ ReconnectFailed \/ CycleReadError
  BY <1>5 DEF CloseDown, ReconnectFailed, MayReconnect, CycleReadError
<1>6. CASE CycleTimeout
  BY <1>6, Zenon DEF CycleTimeout, net
<1>7. CASE RecvPingresp \/ RecvSuback \/ RecvPublish
  BY <1>7, Zenon DEF RecvPingresp, RecvSuback, RecvPublish, ReadPacket
<1>8. CASE SubInfoProc \/ NothingToSubscribe \/ SubscribeInBadState
  BY <1>8, Zenon DEF SubInfoProc, NothingToSubscribe, SubscribeInBadState, client, net
<1>9. CASE SubscribeListFull \/ Subscribe
  BY <1>9, Zenon DEF SubscribeListFull, Subscribe, client, net
<1>10. CASE SubscribeWriteFailed
  BY <1>10 DEF SubscribeWriteFailed
<1>11. CASE Time
  BY <1>11, Zenon DEF Time, PingTimer, ReconnectTimer, RequestsTimeOut, client, net
<1>12. CASE LinkDies \/ WifiDrops
  BY <1>12 DEF LinkDies, WifiDrops, client
<1>13. CASE WifiReturns \/ BrokerAnswers \/ BrokerPublishes
  BY <1>13, Zenon DEF WifiReturns, BrokerAnswers, BrokerPublishes, client, net
<1>14. CASE UNCHANGED vars
  BY <1>14, Zenon DEF vars, client, net
<1>15. QED
  BY <1>1, <1>2, <1>3, <1>4, <1>5, <1>6, <1>7, <1>8, <1>9, <1>10, <1>11, <1>12, <1>13, <1>14
  DEF Next, Task, Network

\* What is put on a queue is on it.
LEMMA AppendedIsNotEmpty ==
  ASSUME NEW S, NEW s \in Seq(S), NEW e
  PROVE  Append(s, e) # <<>>
<1>1. s \in Seq(S \cup {e})
  OBVIOUS
<1>2. Append(s, e) \in Seq(S \cup {e}) /\ Len(Append(s, e)) = Len(s) + 1
  BY <1>1
<1>3. Len(s) \in Nat
  OBVIOUS
<1>4. QED
  BY <1>2, <1>3

LEMMA CountedStep ==
  ASSUME CountInv, [Next]_vars, ProbeMax # 0
  PROVE  Counted'
<1> SUFFICES ASSUME client_state' = "CONNECTED", link' = "up"
             PROVE  ~(asked' /\ reconnected') /\ Counts'
  BY Zenon DEF Counted, Counts, Awaits
<1> DEFINE Live == client_state = "CONNECTED" /\ link = "up"
<1>0. Live => ~(asked /\ reconnected) /\ Counts
  BY Zenon DEF CountInv, Counted
<1>1. Types
  BY Zenon DEF CountInv, AskInv
<1>2. keepalive_probes \in Nat /\ ProbeMax \in Nat
  BY <1>1, MqttConnAssumption DEF Types, NumberType
<1>3. CASE (Construct \/ Reconnect) /\ Accepted
  <2>1. reconnected' /\ ~asked'
    BY <1>3, Zenon DEF Accepted, TcpConnects
  <2>2. ~ping_due'
    <3>1. CASE Construct
      BY <3>1, Zenon DEF Construct, Released
    <3>2. CASE Reconnect
      BY <3>2, Zenon DEF Reconnect
    <3>3. QED
      BY <1>3, <3>1, <3>2
  <2>3. keepalive_probes' <= ProbeMax
    <3>1. CASE Construct
      BY <1>2, <3>1 DEF Construct, ResetClient
    <3>2. CASE Reconnect
      <4>1. UNCHANGED keepalive_probes /\ client_state # "CONNECTED"
        BY <3>2 DEF Reconnect, MayReconnect
      <4>2. keepalive_probes # ProbeMax + 1 /\ keepalive_probes \in 0 .. ProbeMax + 1
        BY <1>1, <4>1 DEF Types, NumberType
      <4>3. QED
        BY <1>2, <4>1, <4>2
    <3>3. QED
      BY <1>3, <3>1, <3>2
  <2>4. QED
    BY <2>1, <2>2, <2>3, Zenon DEF Counts, Awaits
<1>4. CASE Live
  <2>0. ~(asked /\ reconnected) /\ Counts
    BY <1>0, <1>4
  <2>1. ASSUME UNCHANGED <<keepalive_probes, ping_due, asked, reconnected>>,
               up # <<>> \/ down # <<>> => up' # <<>> \/ down' # <<>>
        PROVE  ~(asked' /\ reconnected') /\ Counts'
    BY <2>0, <2>1, Zenon DEF Counts, Awaits
  <2>2. ASSUME UNCHANGED <<keepalive_probes, ping_due, asked, reconnected, up, down>>
        PROVE  ~(asked' /\ reconnected') /\ Counts'
    BY <2>1, <2>2, Zenon
  <2>3. CASE Construct \/ Reconnect \/ ReconnectFailed \/ CycleNotConnected
    <3>1. pmqtt => pc # "construct"
      BY <1>1, Zenon DEF Types, Inv, ControlOK
    <3>2. pmqtt
      BY <1>1, <1>4 DEF Types, Inv, StateMatchesSocket
    <3>3. QED
      BY <1>4, <2>3, <3>1, <3>2
      DEF Construct, Reconnect, ReconnectFailed, MayReconnect, CycleNotConnected
  <2>4. CASE Top \/ KeepaliveIdle \/ SubInfoProc \/ NothingToSubscribe
    BY <2>2, <2>4, Zenon DEF Top, KeepaliveIdle, SubInfoProc, NothingToSubscribe, client, net
  <2>5. CASE Ping
    <3>1. /\ ping_due /\ ~ping_due'
          /\ keepalive_probes' = keepalive_probes + 1
          /\ up' = Append(up, [type |-> "PING", id |-> 0])
          /\ UNCHANGED <<asked, reconnected>>
      BY <1>4, <2>5, Zenon DEF Ping, PingNow, SendPing, Write
    <3>2. up' # <<>>
      BY <1>1, <3>1, AppendedIsNotEmpty DEF Types, QueueType
    <3>3. ping_due => keepalive_probes = 0 \/ (~asked /\ ~reconnected)
      BY <2>0, Zenon DEF Counts
    <3>4. keepalive_probes = 0 => keepalive_probes' <= ProbeMax
      BY <1>2, <3>1
    <3>5. QED
      BY <2>0, <3>1, <3>2, <3>3, <3>4, Zenon DEF Counts, Awaits
  <2>6. CASE CloseDown \/ CycleReadError \/ SubscribeInBadState \/ SubscribeWriteFailed
    BY <2>6 DEF CloseDown, CycleReadError, SubscribeInBadState, SubscribeWriteFailed, client
  <2>7. CASE CycleTimeout
    <3>1. ~TooManyProbes
      BY <2>7 DEF CycleTimeout, AfterProbeCheck
    <3>2. QED
      BY <2>2, <2>7, <3>1, Zenon DEF CycleTimeout, net
  <2>8. CASE RecvPingresp \/ RecvSuback \/ RecvPublish
    <3>1. keepalive_probes' = 0 /\ UNCHANGED <<asked, reconnected>>
      BY <2>8, Zenon DEF RecvPingresp, RecvSuback, RecvPublish, ReadPacket, ProbesAnswered
    <3>2. keepalive_probes' <= ProbeMax
      BY <1>2, <3>1
    <3>3. QED
      BY <2>0, <3>1, <3>2, Zenon DEF Counts
  <2>9. CASE SubscribeListFull
    <3>1. reconnected /\ ~reconnected' /\ UNCHANGED asked
      BY <2>9, Zenon DEF SubscribeListFull
    <3>2. QED
      BY <2>0, <3>1, Zenon DEF Counts
  <2>10. CASE Subscribe
    <3>1. /\ reconnected /\ ~reconnected'
          /\ up' = Append(up, [type |-> "SUBSCRIBE", id |-> packet_id'])
          /\ UNCHANGED <<keepalive_probes, ping_due>>
      BY <1>4, <2>10, Zenon DEF Subscribe, Write, client
    <3>2. up' # <<>>
      BY <1>1, <3>1, AppendedIsNotEmpty DEF Types, QueueType
    <3>3. QED
      BY <2>0, <3>1, <3>2, Zenon DEF Counts, Awaits
  <2>11. CASE PingTimer
    <3>1. /\ ~Awaits
          /\ UNCHANGED <<keepalive_probes, asked, reconnected>>
      BY <1>4, <2>11, Zenon DEF PingTimer, Awaits
    <3>2. QED
      BY <2>0, <3>1, Zenon DEF Counts
  <2>12. CASE ReconnectTimer \/ RequestsTimeOut
    BY <2>2, <2>12, Zenon DEF ReconnectTimer, RequestsTimeOut, client, net
  <2>13. CASE LinkDies \/ WifiDrops
    BY <1>4, <2>13 DEF LinkDies, WifiDrops
  <2>14. CASE WifiReturns
    BY <2>2, <2>14, Zenon DEF WifiReturns, client, net
  <2>15. CASE BrokerAnswers
    <3>1. /\ \E p : down' = Append(down, p)
          /\ UNCHANGED <<keepalive_probes, ping_due, asked, reconnected>>
      BY <2>15, Zenon DEF BrokerAnswers, client
    <3>2. down' # <<>>
      BY <1>1, <3>1, AppendedIsNotEmpty DEF Types, QueueType
    <3>3. QED
      BY <2>1, <3>1, <3>2, Zenon
  <2>16. CASE BrokerPublishes
    <3>1. /\ \E p : down' = Append(down, p)
          /\ UNCHANGED <<keepalive_probes, ping_due, asked, reconnected>>
      BY <2>16, Zenon DEF BrokerPublishes, client
    <3>2. down' # <<>>
      BY <1>1, <3>1, AppendedIsNotEmpty DEF Types, QueueType
    <3>3. QED
      BY <2>1, <3>1, <3>2, Zenon
  <2>17. CASE UNCHANGED vars
    BY <2>2, <2>17, Zenon DEF vars, client, net
  <2>18. QED
    BY <2>3, <2>4, <2>5, <2>6, <2>7, <2>8, <2>9, <2>10, <2>11, <2>12, <2>13, <2>14, <2>15,
       <2>16, <2>17 DEF Next, Task, Time, Network
<1>5. QED
  BY <1>3, <1>4, UpOrAccepted DEF CountInv

\* The step of the property: on a live connection only the check of the count
\* and a failing read leave CONNECTED, and the count is never too high.
LEMMA KeptStep ==
  ASSUME CountInv, [Next]_vars, client_state = "CONNECTED", link = "up", link' = "up",
         Len(sub_to_ack) # SubMax
  PROVE  client_state' = "CONNECTED" \/ faults' > faults
<1>1. Types
  BY Zenon DEF CountInv, AskInv
<1>2. keepalive_probes \in Nat /\ ProbeMax \in Nat /\ faults \in Nat
  BY <1>1, MqttConnAssumption DEF Types, NumberType
<1>3. asked \/ reconnected
  BY Zenon DEF CountInv, AskInv, Asks
<1>4. keepalive_probes <= ProbeMax
  BY <1>3, Zenon DEF CountInv, Counted, Counts
<1>5. ~TooManyProbes
  BY <1>2, <1>4 DEF TooManyProbes
<1>6. CASE Construct
  <2>1. pmqtt => pc # "construct"
    BY <1>1, Zenon DEF Types, Inv, ControlOK
  <2>2. pmqtt
    BY <1>1 DEF Types, Inv, StateMatchesSocket
  <2>3. QED
    BY <1>6, <2>1, <2>2 DEF Construct
<1>7. CASE Top \/ KeepaliveIdle \/ Ping \/ SubInfoProc
  BY <1>7, Zenon DEF Top, KeepaliveIdle, Ping, SubInfoProc, client
<1>8. CASE CloseDown
  BY <1>8 DEF CloseDown, Close
<1>9. CASE Reconnect \/ ReconnectFailed \/ CycleNotConnected
  BY <1>9 DEF Reconnect, ReconnectFailed, MayReconnect, CycleNotConnected
<1>10. CASE CycleTimeout \/ RecvPingresp \/ RecvSuback \/ RecvPublish
  BY <1>5, <1>10, Zenon DEF CycleTimeout, RecvPingresp, RecvSuback, RecvPublish, ReadPacket,
     AfterProbeCheck
<1>11. CASE CycleReadError
  BY <1>2, <1>11 DEF CycleReadError, Fault
<1>12. CASE NothingToSubscribe \/ SubscribeInBadState \/ SubscribeListFull \/ Subscribe
  BY <1>12, Zenon DEF NothingToSubscribe, SubscribeInBadState, SubscribeListFull, Subscribe,
     client
<1>13. CASE SubscribeWriteFailed
  BY <1>13 DEF SubscribeWriteFailed
<1>14. CASE Time \/ Network \/ UNCHANGED vars
  BY <1>14, Zenon DEF Time, PingTimer, ReconnectTimer, RequestsTimeOut, Network, LinkDies,
     WifiDrops, WifiReturns, BrokerAnswers, BrokerPublishes, vars, client
<1>15. QED
  BY <1>6, <1>7, <1>8, <1>9, <1>10, <1>11, <1>12, <1>13, <1>14 DEF Next, Task

\* HealthyLinkKept: as long as at least one unanswered ping is tolerated (the code
\* tolerates IOTX_MC_KEEPALIVE_PROBE_MAX, three), the keepalive logic never gives
\* up a connection the broker still answers on, although the count of unanswered
\* pings is carried over from one connection to the next.
THEOREM HealthyKept ==
  ASSUME ProbeMax # 0
  PROVE  Spec => HealthyLinkKept
<1>1. Init => CountInv
  <2>1. Init => AskInv
    BY AskInit
  <2>2. Init => client_state # "CONNECTED"
    BY DEF Init
  <2>3. QED
    BY <2>1, <2>2 DEF CountInv, Counted
<1>2. CountInv /\ [Next]_vars => CountInv'
  BY AskStep, CountedStep DEF CountInv
<1>3. CountInv /\ [Next]_vars =>
        [client_state = "CONNECTED" /\ link = "up" /\ link' = "up"
           => \/ client_state' = "CONNECTED"
              \/ faults' > faults
              \/ Len(sub_to_ack) = SubMax]_vars
  BY KeptStep
<1>4. QED
  BY <1>1, <1>2, <1>3, PTL DEF Spec, HealthyLinkKept

-----------------------------------------------------------------------------
(* The timers it waits on, at every width of the clock (UtilsTimer)        *)

TimerInv == TimerTypeOK /\ TimerTracksClock

LEMMA HalfBounds == Half \in Nat /\ 2 * Half <= Word - 1
BY UtilsTimerAssumption DEF Half

\* Unsigned sums and differences are words.
LEMMA WordClosed ==
  ASSUME NEW a \in 0 .. Word - 1, NEW b \in 0 .. Word - 1
  PROVE  Plus(a, b) \in 0 .. Word - 1 /\ Minus(a, b) \in 0 .. Word - 1
BY UtilsTimerAssumption DEF Plus, Minus

\* The stored word follows the clock through every arming, tick and wrap
\* (utils_time_countdown_ms, iotx_time_left).
THEOREM TimerTypeAndTracking == TimerSpec => [](TimerTypeOK /\ TimerTracksClock)
<1> USE UtilsTimerAssumption, HalfBounds
<1>1. TimerInit => TimerInv
  <2> SUFFICES ASSUME TimerInit PROVE TimerInv
    OBVIOUS
  <2>1. reading \in BOOLEAN /\ ~reading
    BY DEF TimerInit
  <2>2. now \in 0 .. Word - 1 /\ delay \in 0 .. MaxDelay /\ elapsed = 0 /\ gap = 0 /\ left = 0
    BY DEF TimerInit
  <2>3. timer = Plus(now, delay) /\ timer \in 0 .. Word - 1
    BY <2>2, WordClosed DEF TimerInit
  <2>4. TimerTypeOK
    BY <2>1, <2>2, <2>3 DEF TimerTypeOK
  <2>5. TimerTracksClock
    BY <2>1, <2>2, <2>3 DEF TimerTracksClock, Plus, Minus
  <2>6. QED
    BY <2>4, <2>5 DEF TimerInv
<1>2. TimerInv /\ [TimerNext]_timerVars => TimerInv'
  <2> SUFFICES ASSUME TimerInv, [TimerNext]_timerVars PROVE TimerInv'
    OBVIOUS
  <2>1. CASE Tick
    BY <2>1 DEF TimerInv, TimerTypeOK, TimerTracksClock, Tick, Plus, Minus
  <2>2. CASE AskLeft
    <3>1. CASE IsExpired(timer)
      BY <2>2, <3>1 DEF TimerInv, TimerTypeOK, TimerTracksClock, AskLeft, Plus, Minus
    <3>2. CASE ~IsExpired(timer)
      <4>1. elapsed < delay
        BY <3>2 DEF TimerInv, TimerTypeOK, TimerTracksClock, IsExpired, Minus
      <4>2. QED
        BY <2>2, <3>2, <4>1 DEF TimerInv, TimerTypeOK, TimerTracksClock, AskLeft, Plus, Minus
    <3>3. QED
      BY <3>1, <3>2
  <2>3. CASE AnswerLeft
    <3>1. left' \in 0 .. Word - 1
      BY <2>3, WordClosed DEF TimerInv, TimerTypeOK, AnswerLeft
    <3>2. UNCHANGED <<now, timer, delay, elapsed>> /\ gap' = 0
      BY <2>3 DEF AnswerLeft
    <3>3. reading' \in BOOLEAN /\ ~reading'
      BY <2>3 DEF AnswerLeft
    <3>4. TimerTypeOK'
      BY <3>1, <3>2, <3>3 DEF TimerInv, TimerTypeOK
    <3>5. TimerTracksClock'
      BY <3>2, <3>3 DEF TimerInv, TimerTypeOK, TimerTracksClock, Plus, Minus
    <3>6. QED
      BY <3>4, <3>5 DEF TimerInv
  <2>4. ASSUME NEW ms \in 0 .. MaxDelay, Countdown(ms) PROVE TimerInv'
    BY <2>4 DEF TimerInv, TimerTypeOK, TimerTracksClock, Countdown, Plus, Minus
  <2>5. CASE UNCHANGED timerVars
    BY <2>5 DEF TimerInv, TimerTypeOK, TimerTracksClock, timerVars, Plus, Minus
  <2>6. QED
    BY <2>1, <2>2, <2>3, <2>4, <2>5 DEF TimerNext
<1>3. QED
  BY <1>1, <1>2, PTL DEF TimerSpec, TimerInv

\* utils_time_is_expired is right across the wrap of the clock.
THEOREM ExpiryTrue == TimerSpec => []ExpiryIsTrue
<1>1. TimerTypeOK /\ TimerTracksClock => ExpiryIsTrue
  BY UtilsTimerAssumption, HalfBounds
     DEF TimerTypeOK, TimerTracksClock, ExpiryIsTrue, IsExpired, Plus, Minus
<1>2. QED
  BY <1>1, TimerTypeAndTracking, PTL

\* utils_time_spend measures the age of a request across the wrap of the clock.
THEOREM SpentTrue == TimerSpec => []SpentIsTrue
<1>1. TimerTypeOK /\ TimerTracksClock => SpentIsTrue
  BY UtilsTimerAssumption, HalfBounds
     DEF TimerTypeOK, TimerTracksClock, SpentIsTrue, TimeSpent, Plus, Minus
<1>2. QED
  BY <1>1, TimerTypeAndTracking, PTL

\* iotx_time_left is right, or says more than half the range, which it does only
\* when the time ran out between its two reads, however far apart they are.
THEOREM LeftTrue == TimerSpec => LeftIsTrue
<1> DEFINE Answer ==
      reading /\ ~reading' =>
        \/ elapsed <= delay /\ left' = delay - elapsed
        \/ elapsed - gap < delay /\ delay < elapsed /\ left' > Half
<1>1. TimerTypeOK /\ TimerTracksClock /\ [TimerNext]_timerVars => [Answer]_timerVars
  <2> SUFFICES ASSUME TimerTypeOK, TimerTracksClock, TimerNext, reading, ~reading'
               PROVE  Answer
    OBVIOUS
  <2>1. AnswerLeft
    BY DEF TimerNext, Tick, AskLeft, Countdown
  <2>2. left' = Minus(timer, now) /\ elapsed - gap < delay
    BY <2>1 DEF AnswerLeft, TimerTracksClock
  <2>3. CASE elapsed <= delay
    BY <2>2, <2>3, UtilsTimerAssumption, HalfBounds
       DEF TimerTypeOK, TimerTracksClock, Plus, Minus
  <2>4. CASE elapsed > delay
    BY <2>2, <2>4, UtilsTimerAssumption, HalfBounds
       DEF TimerTypeOK, TimerTracksClock, Plus, Minus
  <2>5. QED
    BY <2>3, <2>4 DEF TimerTypeOK
<1>2. QED
  BY <1>1, TimerTypeAndTracking, PTL DEF TimerSpec, LeftIsTrue

-----------------------------------------------------------------------------
(* Pieces of sequences                                                     *)

\* What is left of s when its first i elements are gone, with t behind it.
From(s, i) == SubSeq(s, i + 1, Len(s))

LEMMA Single ==
  ASSUME NEW E, NEW x \in E
  PROVE  <<x>> \in Seq(E) /\ Len(<<x>>) = 1 /\ <<x>>[1] = x /\ <<x>> \o <<>> = <<x>>
OBVIOUS

LEMMA FromIs ==
  ASSUME NEW E, NEW s \in Seq(E), NEW i \in 0 .. Len(s)
  PROVE  /\ From(s, i) \in Seq(E) /\ Len(From(s, i)) = Len(s) - i
         /\ \A k \in 1 .. Len(s) - i : From(s, i)[k] = s[i + k]
BY DEF From

LEMMA PieceIs ==
  ASSUME NEW E, NEW s \in Seq(E), NEW i \in 0 .. Len(s), NEW n \in 0 .. Len(s) - i
  PROVE  /\ SubSeq(s, i + 1, i + n) \in Seq(E) /\ Len(SubSeq(s, i + 1, i + n)) = n
         /\ \A k \in 1 .. n : SubSeq(s, i + 1, i + n)[k] = s[i + k]
<1>1. i \in Nat /\ n \in Nat /\ i + n <= Len(s) /\ Len(s) \in Nat
  OBVIOUS
<1>2. \A k \in (i + 1) .. (i + n) : s[k] \in E
  BY <1>1
<1>3. /\ SubSeq(s, i + 1, i + n) \in Seq(E)
      /\ Len(SubSeq(s, i + 1, i + n)) = IF i + 1 <= i + n THEN (i + n) - (i + 1) + 1 ELSE 0
      /\ \A k \in 1 .. (i + n) - (i + 1) + 1 :
           SubSeq(s, i + 1, i + n)[k] = s[(i + 1) + k - 1]
  BY <1>1, <1>2, SubSeqProperties
<1>4. (i + n) - (i + 1) + 1 = n /\ (i + 1 <= i + n <=> n # 0)
  BY <1>1
<1>5. \A k \in 1 .. n : (i + 1) + k - 1 = i + k
  BY <1>1
<1>6. QED
  BY <1>3, <1>4, <1>5

LEMMA DropFrom ==
  ASSUME NEW E, NEW s \in Seq(E), NEW t \in Seq(E), NEW i \in 0 .. Len(s),
         NEW n \in 0 .. Len(s) - i
  PROVE  LET u == From(s, i) \o t
         IN  /\ u \in Seq(E) /\ Len(u) = Len(s) - i + Len(t)
             /\ SubSeq(u, n + 1, Len(u)) = From(s, i + n) \o t
             /\ SubSeq(u, 1, n) = SubSeq(s, i + 1, i + n)
             /\ \A k \in 1 .. Len(s) - i : u[k] = s[i + k]
<1> DEFINE u == From(s, i) \o t
           b == From(s, i + n) \o t
<1>0. PICK l, m : l = Len(s) - i /\ m = Len(s) - (i + n)
  OBVIOUS
<1>1. /\ From(s, i) \in Seq(E) /\ Len(From(s, i)) = l /\ Len(s) \in Nat /\ Len(t) \in Nat
      /\ l \in Nat /\ m \in Nat /\ n \in Nat /\ m = l - n /\ i + n \in 0 .. Len(s)
      /\ \A k \in 1 .. l : From(s, i)[k] = s[i + k]
  BY <1>0, FromIs
<1>2. /\ From(s, i + n) \in Seq(E) /\ Len(From(s, i + n)) = m
      /\ \A k \in 1 .. m : From(s, i + n)[k] = s[(i + n) + k]
  BY <1>0, <1>1, FromIs
<1>3. /\ u \in Seq(E) /\ Len(u) = l + Len(t)
      /\ \A k \in 1 .. l : u[k] = From(s, i)[k]
      /\ \A k \in 1 .. Len(t) : u[l + k] = t[k]
  <2>1. PICK f : f = From(s, i) /\ f \in Seq(E) /\ Len(f) = l
    BY <1>1
  <2>2. /\ f \o t \in Seq(E) /\ Len(f \o t) = Len(f) + Len(t)
        /\ \A k \in 1 .. Len(f) : (f \o t)[k] = f[k]
        /\ \A k \in 1 .. Len(t) : (f \o t)[Len(f) + k] = t[k]
    BY <2>1, BehindIs
  <2>3. QED
    BY <2>1, <2>2
<1>4. /\ b \in Seq(E) /\ Len(b) = m + Len(t)
      /\ \A k \in 1 .. m : b[k] = From(s, i + n)[k]
      /\ \A k \in 1 .. Len(t) : b[m + k] = t[k]
  <2>1. PICK f : f = From(s, i + n) /\ f \in Seq(E) /\ Len(f) = m
    BY <1>1, <1>2
  <2>2. /\ f \o t \in Seq(E) /\ Len(f \o t) = Len(f) + Len(t)
        /\ \A k \in 1 .. Len(f) : (f \o t)[k] = f[k]
        /\ \A k \in 1 .. Len(t) : (f \o t)[Len(f) + k] = t[k]
    BY <2>1, BehindIs
  <2>3. QED
    BY <2>1, <2>2
<1> HIDE DEF u, b
<1>5. \A k \in 1 .. l : u[k] = s[i + k]
  BY <1>1, <1>3
<1>6. SubSeq(u, n + 1, Len(u)) = b
  <2> DEFINE a == SubSeq(u, n + 1, Len(u))
  <2>1. a \in Seq(E) /\ Len(a) = m + Len(t) /\ \A k \in 1 .. m + Len(t) : a[k] = u[n + k]
    <3>1. n \in 0 .. Len(u) /\ m + Len(t) \in 0 .. Len(u) - n /\ n + (m + Len(t)) = Len(u)
      BY <1>1, <1>3, SMTT(30)
    <3>2. a = SubSeq(u, n + 1, n + (m + Len(t)))
      BY <3>1
    <3> HIDE DEF a
    <3>3. QED
      BY <1>3, <3>1, <3>2, PieceIs, SMTT(30)
  <2> HIDE DEF a
  <2>2. ASSUME NEW k \in 1 .. m + Len(t) PROVE a[k] = b[k]
    <3>1. CASE k <= m
      <4>1. k \in 1 .. m /\ n + k \in 1 .. l /\ (i + n) + k = i + (n + k)
        BY <1>1, <3>1, SMTT(30)
      <4>2. QED
        BY <1>2, <1>4, <1>5, <2>1, <4>1
    <3>2. CASE ~(k <= m)
      <4>1. PICK j \in 1 .. Len(t) : k = m + j
        <5>1. PICK o \in Nat : o = Len(t) /\ k \in 1 .. m + o
          BY <1>1
        <5>2. k - m \in 1 .. o /\ k = m + (k - m)
          BY <1>1, <3>2, <5>1
        <5>3. QED
          BY <5>1, <5>2
      <4>2. n + k = l + j
        BY <1>1, <4>1
      <4>3. QED
        BY <1>3, <1>4, <2>1, <4>1, <4>2
    <3>3. QED
      BY <3>1, <3>2
  <2>3. a = b
    BY <1>4, <2>1, <2>2, SeqEqual
  <2>4. QED
    BY <2>3 DEF a
<1>7. SubSeq(u, 1, n) = SubSeq(s, i + 1, i + n)
  <2> DEFINE a == SubSeq(u, 1, n)
             c == SubSeq(s, i + 1, i + n)
  <2>1. n <= l /\ n <= Len(u) /\ Len(u) \in Nat
    BY <1>1, <1>3
  <2>2. a \in Seq(E) /\ Len(a) = n /\ \A k \in 1 .. n : a[k] = u[k]
    <3>1. 0 \in 0 .. Len(u) /\ n \in 0 .. Len(u) - 0 /\ a = SubSeq(u, 0 + 1, 0 + n)
          /\ \A k \in 1 .. n : 0 + k = k
      BY <1>1, <2>1
    <3> HIDE DEF a
    <3>2. QED
      BY <1>3, <3>1, PieceIs
  <2>3. c \in Seq(E) /\ Len(c) = n /\ \A k \in 1 .. n : c[k] = s[i + k]
    BY PieceIs, Zenon
  <2>4. \A k \in 1 .. n : u[k] = s[i + k]
    BY <1>1, <1>5, <2>1
  <2> HIDE DEF a, c
  <2>5. a = c
    BY <2>2, <2>3, <2>4, SeqEqual
  <2>6. QED
    BY <2>5 DEF a, c
<1>8. QED
  BY <1>0, <1>3, <1>5, <1>6, <1>7 DEF u, b

LEMMA OneFrom ==
  ASSUME NEW E, NEW s \in Seq(E), NEW t \in Seq(E), NEW i \in 0 .. Len(s) - 1
  PROVE  LET u == From(s, i) \o t
         IN  SubSeq(u, 2, Len(u)) = From(s, i + 1) \o t /\ u[1] = s[i + 1]
<1> DEFINE u == From(s, i) \o t
<1>1. i \in 0 .. Len(s) /\ i \in Nat /\ Len(s) \in Nat
  OBVIOUS
<1>2. PICK one \in 0 .. Len(s) - i : one = 1 /\ one + 1 = 2 /\ one \in 1 .. Len(s) - i
  BY <1>1
<1>3. LET v == From(s, i) \o t
      IN  /\ v \in Seq(E) /\ Len(v) = Len(s) - i + Len(t)
          /\ SubSeq(v, one + 1, Len(v)) = From(s, i + one) \o t
          /\ SubSeq(v, 1, one) = SubSeq(s, i + 1, i + one)
          /\ \A k \in 1 .. Len(s) - i : v[k] = s[i + k]
  BY <1>1, DropFrom, ZenonT(30)
<1>4. u[one] = s[i + one]
  BY <1>2, <1>3
<1>5. QED
  BY <1>2, <1>3, <1>4

LEMMA FromEnd ==
  ASSUME NEW E, NEW s \in Seq(E), NEW t \in Seq(E)
  PROVE  From(s, Len(s)) \o t = t /\ From(s, 0) = s
<1>1. From(s, Len(s)) = <<>> /\ From(s, 0) = s
  BY DEF From
<1>2. QED
  BY <1>1

\* Two neighbouring pieces.
LEMMA Glued ==
  ASSUME NEW E, NEW s \in Seq(E), NEW i \in 0 .. Len(s), NEW j \in i .. Len(s)
  PROVE  SubSeq(s, 1, i) \o SubSeq(s, i + 1, j) = SubSeq(s, 1, j)
<1> DEFINE a == SubSeq(s, 1, i)
           b == SubSeq(s, i + 1, j)
           c == SubSeq(s, 1, j)
<1>1. /\ a \in Seq(E) /\ Len(a) = i /\ (\A k \in 1 .. i : a[k] = s[k])
      /\ b \in Seq(E) /\ Len(b) = j - i /\ (\A k \in 1 .. j - i : b[k] = s[i + k])
      /\ c \in Seq(E) /\ Len(c) = j /\ (\A k \in 1 .. j : c[k] = s[k])
      /\ i \in Nat /\ j \in Nat /\ i <= j
  <2>1. i \in Nat /\ j \in Nat /\ i <= j /\ j <= Len(s) /\ Len(s) \in Nat
    OBVIOUS
  <2>2. ASSUME NEW n \in 0 .. Len(s)
        PROVE  /\ SubSeq(s, 1, n) \in Seq(E) /\ Len(SubSeq(s, 1, n)) = n
               /\ \A k \in 1 .. n : SubSeq(s, 1, n)[k] = s[k]
    OBVIOUS
  <2>3. PICK n \in 0 .. Len(s) - i : n = j - i /\ i + n = j
    BY <2>1
  <2>4. /\ SubSeq(s, i + 1, i + n) \in Seq(E) /\ Len(SubSeq(s, i + 1, i + n)) = n
        /\ \A k \in 1 .. n : SubSeq(s, i + 1, i + n)[k] = s[i + k]
    BY PieceIs
  <2>5. i \in 0 .. Len(s) /\ j \in 0 .. Len(s)
    BY <2>1
  <2>6. QED
    BY <2>1, <2>2, <2>3, <2>4, <2>5
<1> HIDE DEF a, b, c
<1>2. /\ a \o b \in Seq(E) /\ Len(a \o b) = j
      /\ \A k \in 1 .. j : (a \o b)[k] = IF k <= i THEN a[k] ELSE b[k - i]
  <2>1. PICK x \in Seq(E), y \in Seq(E) : x = a /\ y = b
    BY <1>1
  <2>2. /\ x \o y \in Seq(E) /\ Len(x \o y) = Len(x) + Len(y)
        /\ \A k \in 1 .. Len(x) + Len(y) :
             (x \o y)[k] = IF k <= Len(x) THEN x[k] ELSE y[k - Len(x)]
    BY ConcatProperties
  <2>3. Len(x) = i /\ Len(x) + Len(y) = j
    BY <1>1, <2>1
  <2>4. QED
    BY <2>1, <2>2, <2>3
<1>3. ASSUME NEW k \in 1 .. j PROVE (a \o b)[k] = c[k]
  <2>1. CASE k <= i
    BY <1>1, <1>2, <2>1
  <2>2. CASE ~(k <= i)
    <3>1. k - i \in 1 .. j - i /\ i + (k - i) = k
      BY <1>1, <2>2
    <3>2. b[k - i] = s[i + (k - i)]
      BY <1>1, <3>1
    <3>3. QED
      BY <1>1, <1>2, <2>2, <3>1, <3>2
  <2>3. QED
    BY <2>1, <2>2
<1>4. a \o b = c
  BY <1>1, <1>2, <1>3, SeqEqual
<1>5. QED
  BY <1>4 DEF a, b, c

-----------------------------------------------------------------------------
(* The digits of a length                                                  *)

LEMMA BaseIs == Base \in Nat /\ Base > 1
BY MqttStreamAssumption

LEMMA Divided ==
  ASSUME NEW n \in Nat
  PROVE  /\ n % Base \in 0 .. Base - 1 /\ n \div Base \in Nat
         /\ n = (n \div Base) * Base + (n % Base)
         /\ n # 0 => n \div Base < n
         /\ n < Base => n % Base = n
         /\ ((n % Base) + Base) % Base = n % Base
<1>1. n % Base \in 0 .. Base - 1 /\ n \div Base \in Nat
  BY BaseIs
<1>2. n = (n \div Base) * Base + (n % Base)
  BY BaseIs
<1>3. n # 0 => n \div Base < n
  BY BaseIs
<1>4. \A r \in 0 .. Base - 1 : r % Base = r /\ (r + Base) % Base = r
  BY BaseIs
<1>5. QED
  BY <1>1, <1>2, <1>3, <1>4, BaseIs

\* What the recursion of MQTTPacket_encode means, up to n.
IsEncoding(f, n) ==
  f = [k \in 0 .. n |->
         IF k < Base THEN <<k>> ELSE <<(k % Base) + Base>> \o f[k \div Base]]

LEMMA EncodeIs ==
  ASSUME NEW n
  PROVE  Encode(n) = (CHOOSE f : IsEncoding(f, n))[n]
BY DEF Encode, IsEncoding

LEMMA EncodingStep ==
  ASSUME NEW f, NEW n, IsEncoding(f, n), NEW k \in 0 .. n
  PROVE  f[k] = IF k < Base THEN <<k>> ELSE <<(k % Base) + Base>> \o f[k \div Base]
<1>1. f = [l \in 0 .. n |->
             IF l < Base THEN <<l>> ELSE <<(l % Base) + Base>> \o f[l \div Base]]
  BY DEF IsEncoding
<1>2. QED
  BY <1>1

LEMMA EncodingExists ==
  ASSUME NEW n \in Nat
  PROVE  \E f : IsEncoding(f, n)
<1> DEFINE T == {m \in Nat : ~\E f : IsEncoding(f, m)}
<1>1. SUFFICES ASSUME T # {} PROVE FALSE
  OBVIOUS
<1>2. PICK m \in T : \A l \in T : m <= l
  BY <1>1, Least
<1>3. CASE m = 0
  <2> DEFINE f == [k \in 0 .. 0 |-> <<k>>]
  <2>1. \A k \in 0 .. 0 : k < Base
    BY BaseIs
  <2>2. f = [k \in 0 .. 0 |->
               IF k < Base THEN <<k>> ELSE <<(k % Base) + Base>> \o f[k \div Base]]
    BY <2>1
  <2>3. IsEncoding(f, 0)
    BY <2>2 DEF IsEncoding
  <2>4. QED
    BY <1>3, <2>3
<1>4. CASE m # 0
  <2>1. m - 1 \in Nat /\ ~(m <= m - 1)
    BY <1>4
  <2>2. PICK g : IsEncoding(g, m - 1)
    BY <1>2, <2>1
  <2> DEFINE last == IF m < Base THEN <<m>> ELSE <<(m % Base) + Base>> \o g[m \div Base]
             f == [k \in 0 .. m |-> IF k = m THEN last ELSE g[k]]
  <2>3. (\A k \in 0 .. m - 1 : f[k] = g[k]) /\ f[m] = last
    <3>1. \A k \in 0 .. m : f[k] = IF k = m THEN last ELSE g[k]
      OBVIOUS
    <3>2. m \in 0 .. m /\ \A k \in 0 .. m - 1 : k \in 0 .. m /\ k # m
      BY <2>1
    <3> HIDE DEF f, last
    <3>3. QED
      BY <3>1, <3>2
  <2>4. f = [k \in 0 .. m |-> f[k]]
    OBVIOUS
  <2>5. last = IF m < Base THEN <<m>> ELSE <<(m % Base) + Base>> \o g[m \div Base]
    OBVIOUS
  <2> HIDE DEF f, last
  <2>6. ASSUME NEW k \in 0 .. m
        PROVE  f[k] = IF k < Base THEN <<k>> ELSE <<(k % Base) + Base>> \o f[k \div Base]
    <3>1. k # 0 => k \div Base \in 0 .. m - 1
      <4>1. k # 0 => k \div Base \in Nat /\ k \div Base < k
        BY Divided
      <4>2. QED
        BY <2>1, <4>1
    <3>2. CASE k # m
      <4>1. k \in 0 .. m - 1
        BY <2>1, <3>2
      <4>2. g[k] = IF k < Base THEN <<k>> ELSE <<(k % Base) + Base>> \o g[k \div Base]
        BY <2>2, <4>1, EncodingStep
      <4>3. ~(k < Base) => g[k \div Base] = f[k \div Base]
        BY <2>3, <3>1, BaseIs
      <4>4. QED
        BY <2>3, <4>1, <4>2, <4>3
    <3>3. CASE k = m
      <4>1. g[m \div Base] = f[m \div Base]
        BY <1>4, <2>3, <3>1, <3>3
      <4>2. QED
        BY <2>3, <2>5, <3>3, <4>1
    <3>4. QED
      BY <3>2, <3>3
  <2>7. IsEncoding(f, m)
    BY <2>4, <2>6 DEF IsEncoding
  <2>8. QED
    BY <2>7
<1>5. QED
  BY <1>3, <1>4

LEMMA EncodingAgree ==
  ASSUME NEW n \in Nat, NEW m \in Nat, n <= m,
         NEW f, IsEncoding(f, n), NEW g, IsEncoding(g, m)
  PROVE  \A k \in 0 .. n : f[k] \in Seq(Nat) /\ g[k] = f[k]
<1> DEFINE T == {k \in Nat : k <= n /\ ~(f[k] \in Seq(Nat) /\ g[k] = f[k])}
<1>1. SUFFICES ASSUME T # {} PROVE FALSE
  OBVIOUS
<1>2. PICK k \in T : \A l \in T : k <= l
  BY <1>1, Least
<1>3. k \in Nat /\ k \in 0 .. n /\ k \in 0 .. m
  OBVIOUS
<1>4. /\ f[k] = IF k < Base THEN <<k>> ELSE <<(k % Base) + Base>> \o f[k \div Base]
      /\ g[k] = IF k < Base THEN <<k>> ELSE <<(k % Base) + Base>> \o g[k \div Base]
  BY <1>3, EncodingStep
<1>5. CASE k < Base
  <2>1. f[k] = <<k>> /\ g[k] = <<k>>
    BY <1>4, <1>5
  <2>2. <<k>> \in Seq(Nat)
    BY <1>3
  <2>3. QED
    BY <2>1, <2>2
<1>6. CASE ~(k < Base)
  <2>1. k # 0
    BY <1>6, BaseIs
  <2>2. k \div Base \in Nat /\ k \div Base < k /\ k % Base \in 0 .. Base - 1
    BY <1>3, <2>1, Divided
  <2>3. f[k \div Base] \in Seq(Nat) /\ g[k \div Base] = f[k \div Base]
    <3>1. k \div Base <= n /\ ~(k <= k \div Base)
      BY <1>3, <2>2
    <3>2. QED
      BY <1>2, <2>2, <3>1
  <2>4. <<(k % Base) + Base>> \in Seq(Nat)
    <3>1. (k % Base) + Base \in Nat
      BY <2>2, BaseIs
    <3>2. QED
      BY <3>1
  <2>5. <<(k % Base) + Base>> \o f[k \div Base] \in Seq(Nat)
    BY <2>3, <2>4, ConcatProperties
  <2>6. QED
    BY <1>4, <1>6, <2>3, <2>5
<1>7. QED
  BY <1>5, <1>6

\* A length has its lowest digit first, and behind it the digits of the rest.
LEMMA Encoded ==
  ASSUME NEW n \in Nat
  PROVE  /\ Encode(n) \in Seq(Nat)
         /\ n < Base => Encode(n) = <<n>>
         /\ ~(n < Base) => Encode(n) = <<(n % Base) + Base>> \o Encode(n \div Base)
<1>1. PICK f : IsEncoding(f, n) /\ Encode(n) = f[n]
  BY EncodeIs, EncodingExists
<1>2. n \in 0 .. n /\ n <= n
  OBVIOUS
<1>3. f[n] \in Seq(Nat)
  BY <1>1, <1>2, EncodingAgree
<1>4. f[n] = IF n < Base THEN <<n>> ELSE <<(n % Base) + Base>> \o f[n \div Base]
  BY <1>1, <1>2, EncodingStep
<1>5. CASE ~(n < Base)
  <2>1. n \div Base \in Nat /\ n \div Base <= n
    BY <1>5, BaseIs, Divided
  <2>2. PICK m \in Nat : m = n \div Base
    BY <2>1
  <2>3. PICK g : IsEncoding(g, m) /\ Encode(m) = g[m]
    BY EncodeIs, EncodingExists
  <2>4. m <= n /\ m \in 0 .. m
    BY <2>1, <2>2
  <2>5. f[m] = g[m]
    BY <1>1, <2>3, <2>4, EncodingAgree
  <2>6. QED
    BY <1>1, <1>3, <1>4, <1>5, <2>2, <2>3, <2>5
<1>6. QED
  BY <1>1, <1>3, <1>4, <1>5

\* u is r with one element before it.
OneBehind(u, o, r) ==
  /\ Len(u) = 1 + Len(r) /\ u[1] = o[1]
  /\ \A k \in 1 .. Len(r) : u[1 + k] = r[k]

LEMMA OneBehindIs ==
  ASSUME NEW E, NEW o \in Seq(E), NEW r \in Seq(E)
  PROVE  o \o r \in Seq(E) /\ (Len(o) = 1 => OneBehind(o \o r, o, r))
<1> DEFINE u == o \o r
<1>1. /\ u \in Seq(E) /\ Len(u) = Len(o) + Len(r) /\ Len(r) \in Nat
      /\ \A k \in 1 .. Len(o) + Len(r) : u[k] = IF k <= Len(o) THEN o[k] ELSE r[k - Len(o)]
  BY ConcatProperties
<1> HIDE DEF u
<1> SUFFICES ASSUME Len(o) = 1 PROVE OneBehind(u, o, r)
  BY <1>1 DEF u
<1>2. Len(u) = 1 + Len(r) /\ u[1] = o[1]
  BY <1>1
<1>3. ASSUME NEW k \in 1 .. Len(r) PROVE u[1 + k] = r[k]
  <2>1. 1 + k \in 1 .. Len(o) + Len(r) /\ ~(1 + k <= Len(o)) /\ (1 + k) - Len(o) = k
    BY <1>1
  <2>2. QED
    BY <1>1, <2>1
<1>4. QED
  BY <1>2, <1>3 DEF OneBehind

\* What is left of s after its first i elements is x, with r behind it.
FirstLeft(s, i, x, r) ==
  /\ i + 1 \in 0 .. Len(s) /\ s[i + 1] = x /\ From(s, i + 1) = r
  /\ Len(s) = i + 1 + Len(r)

\* The digits of a length come off one by one.
LEMMA FromStep ==
  ASSUME NEW E, NEW s \in Seq(E), NEW i \in 0 .. Len(s), NEW o \in Seq(E), NEW r \in Seq(E),
         Len(o) = 1, From(s, i) = o \o r
  PROVE  FirstLeft(s, i, o[1], r)
<1>2. PICK u \in Seq(E) : u = o \o r /\ OneBehind(u, o, r)
  BY OneBehindIs
<1>3. /\ Len(u) = 1 + Len(r) /\ u[1] = o[1]
      /\ \A k \in 1 .. Len(r) : u[1 + k] = r[k]
  BY <1>2 DEF OneBehind
<1>4. Len(u) = Len(s) - i /\ \A k \in 1 .. Len(s) - i : u[k] = s[i + k]
  BY <1>2, FromIs
<1>5. Len(s) \in Nat /\ Len(r) \in Nat /\ i \in Nat
  OBVIOUS
<1>6. i + 1 \in 0 .. Len(s) /\ Len(s) = i + 1 + Len(r) /\ Len(s) - i = 1 + Len(r)
  <2>1. Len(s) - i = 1 + Len(r)
    BY <1>3, <1>4
  <2>2. PICK l \in Nat, m \in Nat : l = Len(s) /\ m = Len(r)
    BY <1>5
  <2>3. l - i = 1 + m
    BY <2>1, <2>2
  <2>4. i + 1 \in 0 .. l /\ l = i + 1 + m
    BY <1>5, <2>3
  <2>5. QED
    BY <2>1, <2>2, <2>4
<1>7. s[i + 1] = o[1]
  <2>1. 1 \in 1 .. Len(s) - i
    BY <1>5, <1>6
  <2>2. QED
    BY <1>3, <1>4, <2>1
<1>8. /\ From(s, i + 1) \in Seq(E) /\ Len(From(s, i + 1)) = Len(r)
      /\ \A k \in 1 .. Len(r) : From(s, i + 1)[k] = s[(i + 1) + k]
  <2>1. Len(s) - (i + 1) = Len(r)
    BY <1>5, <1>6
  <2>2. QED
    BY <1>6, <2>1, FromIs
<1>9. ASSUME NEW k \in 1 .. Len(r) PROVE From(s, i + 1)[k] = r[k]
  <2>1. 1 + k \in 1 .. Len(s) - i /\ (i + 1) + k = i + (1 + k)
    BY <1>5, <1>6
  <2>2. QED
    BY <1>3, <1>4, <1>8, <2>1
<1>10. From(s, i + 1) = r
  BY <1>8, <1>9, SeqEqual
<1>11. QED
  BY <1>6, <1>7, <1>10 DEF FirstLeft

-----------------------------------------------------------------------------
(* The bytes of a packet and of several                                    *)

AByte == [no : Nat, at : Nat, val : Nat]
HeadOf(p) == 1 + Len(Encode(p.len))

LEMMA PacketIs == \A p \in Packets : p.type \in Nat /\ p.len \in Nat
BY MqttStreamAssumption

LEMMA BytesIs ==
  ASSUME NEW no \in Nat, NEW p \in Packets
  PROVE  /\ Bytes(no, p) \in Seq(AByte)
         /\ Len(Bytes(no, p)) = HeadOf(p) + p.len /\ HeadOf(p) \in Nat \ {0}
         /\ Bytes(no, p)[1] = Byte(no, 1, p.type)
         /\ \A k \in 1 .. HeadOf(p) - 1 :
              Bytes(no, p)[k + 1] = Byte(no, k + 1, Encode(p.len)[k])
<1>1. p.len \in Nat /\ p.type \in Nat
  BY PacketIs
<1>2. PICK digits : digits = Encode(p.len) /\ digits \in Seq(Nat)
  BY <1>1, Encoded
<1>3. PICK head \in Nat \ {0} : head = Len(digits) + 1 /\ head = HeadOf(p)
  BY <1>2 DEF HeadOf
<1>4. PICK size \in Nat : size = head + p.len /\ head <= size
  BY <1>1, <1>3
<1> DEFINE val(k) == CASE k = 1 -> p.type [] k \in 2 .. head -> digits[k - 1] [] OTHER -> 0
<1>5. Bytes(no, p) = [k \in 1 .. size |-> Byte(no, k, val(k))]
  BY <1>2, <1>3, <1>4 DEF Bytes
<1>6. val(1) = p.type
  OBVIOUS
<1>7. ASSUME NEW k \in 1 .. head - 1 PROVE val(k + 1) = digits[k] /\ k + 1 \in 1 .. size
  BY <1>4
<1>8. ASSUME NEW k \in 1 .. size PROVE val(k) \in Nat
  <2>1. k \in 2 .. head => k - 1 \in 1 .. Len(digits)
    BY <1>3
  <2>2. \A j \in 1 .. Len(digits) : digits[j] \in Nat
    BY <1>2
  <2>3. CASE k = 1
    BY <1>1, <2>3
  <2>4. CASE k # 1 /\ k \in 2 .. head
    <3>1. val(k) = digits[k - 1]
      BY <2>4
    <3> HIDE DEF val
    <3>2. QED
      BY <2>1, <2>2, <2>4, <3>1
  <2>5. CASE k # 1 /\ k \notin 2 .. head
    BY <2>5
  <2>6. QED
    BY <2>3, <2>4, <2>5
<1> HIDE DEF val
<1>9. ASSUME NEW k \in 1 .. size PROVE Byte(no, k, val(k)) \in AByte
  BY <1>8 DEF Byte, AByte
<1>10. Bytes(no, p) \in Seq(AByte) /\ Len(Bytes(no, p)) = size
  BY <1>5, <1>9
<1>11. \A k \in 1 .. size : Bytes(no, p)[k] = Byte(no, k, val(k))
  BY <1>5
<1>12. 1 \in 1 .. size
  BY <1>4
<1>13. QED
  BY <1>2, <1>3, <1>4, <1>6, <1>7, <1>10, <1>11, <1>12

\* The packets of s from one on.
Parts(s, from) == [k \in 1 .. Len(s) - from + 1 |-> Bytes(from + k - 1, s[from + k - 1])]
Flat(s, from) == Joined(Parts(s, from))

LEMMA PartsAre ==
  ASSUME NEW s \in Seq(Packets), NEW from \in 1 .. Len(s) + 1
  PROVE  /\ Parts(s, from) \in Seq(Seq(AByte)) /\ Len(Parts(s, from)) = Len(s) - from + 1
         /\ \A k \in 1 .. Len(s) - from + 1 :
              Parts(s, from)[k] = Bytes(from + k - 1, s[from + k - 1])
<1>1. PICK size \in Nat : size = Len(s) - from + 1
  OBVIOUS
<1>2. ASSUME NEW k \in 1 .. size
      PROVE  Bytes(from + k - 1, s[from + k - 1]) \in Seq(AByte)
  <2>1. from + k - 1 \in 1 .. Len(s)
    BY <1>1
  <2>2. from + k - 1 \in Nat /\ s[from + k - 1] \in Packets
    BY <2>1
  <2>3. QED
    BY <2>2, BytesIs
<1>3. Parts(s, from) = [k \in 1 .. size |-> Bytes(from + k - 1, s[from + k - 1])]
  BY <1>1 DEF Parts
<1>4. QED
  BY <1>1, <1>2, <1>3

LEMMA FlatEnd ==
  ASSUME NEW s \in Seq(Packets)
  PROVE  Flat(s, Len(s) + 1) = <<>>
<1>1. Len(s) + 1 \in 1 .. Len(s) + 1 /\ Len(s) - (Len(s) + 1) + 1 = 0
  OBVIOUS
<1>2. Parts(s, Len(s) + 1) \in Seq(Seq(AByte)) /\ Len(Parts(s, Len(s) + 1)) = 0
  BY <1>1, PartsAre
<1>3. Parts(s, Len(s) + 1) = <<>>
  BY <1>2, EmptySeq
<1>4. QED
  BY <1>3, JoinedEmpty DEF Flat

LEMMA FlatAppend ==
  ASSUME NEW s \in Seq(Packets), NEW from \in 1 .. Len(s) + 1, NEW p \in Packets
  PROVE  /\ Flat(s, from) \in Seq(AByte)
         /\ Flat(Append(s, p), from) = Flat(s, from) \o Bytes(Len(s) + 1, p)
<1> DEFINE a == Parts(s, from)
           b == Parts(Append(s, p), from)
           x == Bytes(Len(s) + 1, p)
<1>1. /\ Append(s, p) \in Seq(Packets) /\ Len(Append(s, p)) = Len(s) + 1 /\ Len(s) \in Nat
      /\ Append(s, p)[Len(s) + 1] = p /\ \A k \in 1 .. Len(s) : Append(s, p)[k] = s[k]
  OBVIOUS
<1>2. PICK size \in Nat : size = Len(s) - from + 1 /\ size + 1 = (Len(s) + 1) - from + 1
  OBVIOUS
<1>3. /\ a \in Seq(Seq(AByte)) /\ Len(a) = size
      /\ \A k \in 1 .. size : a[k] = Bytes(from + k - 1, s[from + k - 1])
  BY <1>2, PartsAre
<1>4. /\ b \in Seq(Seq(AByte)) /\ Len(b) = size + 1
      /\ \A k \in 1 .. size + 1 : b[k] = Bytes(from + k - 1, Append(s, p)[from + k - 1])
  <2>1. PICK t \in Seq(Packets) : t = Append(s, p)
    BY <1>1
  <2>2. from \in 1 .. Len(t) + 1 /\ Len(t) - from + 1 = size + 1
    BY <1>1, <1>2, <2>1
  <2>3. /\ Parts(t, from) \in Seq(Seq(AByte)) /\ Len(Parts(t, from)) = size + 1
        /\ \A k \in 1 .. size + 1 : Parts(t, from)[k] = Bytes(from + k - 1, t[from + k - 1])
    BY <2>2, PartsAre
  <2>4. QED
    BY <2>1, <2>3
<1>5. x \in Seq(AByte)
  BY <1>1, BytesIs
<1> HIDE DEF a, b
<1>6. Append(a, x) \in Seq(Seq(AByte)) /\ Len(Append(a, x)) = size + 1
      /\ Append(a, x)[size + 1] = x /\ \A k \in 1 .. size : Append(a, x)[k] = a[k]
  BY <1>3, <1>5
<1>7. ASSUME NEW k \in 1 .. size + 1 PROVE b[k] = Append(a, x)[k]
  <2>1. CASE k = size + 1
    <3>1. from + k - 1 = Len(s) + 1
      BY <1>1, <1>2, <2>1
    <3>2. QED
      BY <1>1, <1>4, <1>6, <2>1, <3>1
  <2>2. CASE k # size + 1
    <3>1. k \in 1 .. size /\ from + k - 1 \in 1 .. Len(s)
      BY <1>1, <1>2, <2>2
    <3>2. QED
      BY <1>1, <1>3, <1>4, <1>6, <3>1
  <2>3. QED
    BY <2>1, <2>2
<1>8. b = Append(a, x)
  BY <1>4, <1>6, <1>7, SeqEqual
<1>9. Joined(a) \in Seq(AByte) /\ Joined(Append(a, x)) = Joined(a) \o x
  BY <1>3, <1>5, JoinedAppend
<1>10. QED
  BY <1>8, <1>9 DEF Flat, a, b

LEMMA FlatHead ==
  ASSUME NEW s \in Seq(Packets), NEW from \in 1 .. Len(s)
  PROVE  /\ Flat(s, from + 1) \in Seq(AByte)
         /\ Flat(s, from) = Bytes(from, s[from]) \o Flat(s, from + 1)
<1> DEFINE a == Parts(s, from)
           b == Parts(s, from + 1)
<1>1. PICK size \in Nat : size = Len(s) - (from + 1) + 1 /\ size + 1 = Len(s) - from + 1
  OBVIOUS
<1>2. from \in 1 .. Len(s) + 1 /\ from + 1 \in 1 .. Len(s) + 1 /\ s[from] \in Packets
  OBVIOUS
<1>3. /\ a \in Seq(Seq(AByte)) /\ Len(a) = size + 1
      /\ \A k \in 1 .. size + 1 : a[k] = Bytes(from + k - 1, s[from + k - 1])
  BY <1>1, <1>2, PartsAre
<1>4. /\ b \in Seq(Seq(AByte)) /\ Len(b) = size
      /\ \A k \in 1 .. size : b[k] = Bytes((from + 1) + k - 1, s[(from + 1) + k - 1])
  BY <1>1, <1>2, PartsAre
<1> HIDE DEF a, b
<1>5. /\ a # <<>> /\ Head(a) = a[1] /\ Tail(a) \in Seq(Seq(AByte)) /\ Len(Tail(a)) = size
      /\ \A k \in 1 .. size : Tail(a)[k] = a[k + 1]
  BY <1>3
<1>6. Head(a) = Bytes(from, s[from])
  <2>1. 1 \in 1 .. size + 1 /\ from + 1 - 1 = from
    OBVIOUS
  <2>2. QED
    BY <1>3, <1>5, <2>1
<1>7. ASSUME NEW k \in 1 .. size PROVE Tail(a)[k] = b[k]
  <2>1. k + 1 \in 1 .. size + 1 /\ from + (k + 1) - 1 = (from + 1) + k - 1
    OBVIOUS
  <2>2. QED
    BY <1>3, <1>4, <1>5, <2>1
<1>8. Tail(a) = b
  BY <1>4, <1>5, <1>7, SeqEqual
<1>9. Joined(a) = Head(a) \o Joined(Tail(a))
  BY <1>3, <1>5, JoinedHead
<1>10. Joined(b) \in Seq(AByte)
  <2>1. <<>> \in Seq(AByte)
    OBVIOUS
  <2>2. QED
    BY <1>4, <2>1, JoinedAppend
<1>11. QED
  BY <1>6, <1>8, <1>9, <1>10 DEF Flat, a, b

-----------------------------------------------------------------------------
(* The invariant                                                           *)

StreamTypes ==
  /\ state \in {"connected", "disconnected", "closed"}
  /\ stage \in {"top", "length", "rest", "drop", "handle", "deliver", "ack"}
  /\ len \in 0 .. MaxDigits
  /\ sending \in {Nothing} \cup
                 [kind : Kinds, no : 1 .. MaxUp, size : Sizes, sent : Nat]
  /\ sending.sent <= 2 * sending.size
  /\ sent \in Seq(Packets) /\ Len(sent) <= MaxDown
  /\ astray \in BOOLEAN
  /\ broken \in Kinds \cup {"none"} /\ behind \subseteq Kinds
  /\ begun \in 0 .. MaxUp /\ conns \in 0 .. MaxConns

\* Only a connected client is in the middle of a packet or handles one, and what it
\* sends belongs to the place it is at.
Control ==
  /\ stage \in {"length", "rest", "drop", "handle"} => sending = Nothing
  /\ stage \in {"length", "rest", "drop", "handle", "deliver"} => state = "connected"
  /\ state = "closed" => stage = "top" /\ sending = Nothing
  /\ sending.kind = "report" => stage = "deliver"
  /\ sending.kind = "request" => stage = "top" /\ state = "connected"
  /\ sending.kind = "puback" => stage = "top"

\* The broker has what was reported as sent and what is out of the packet on its way.
Writer ==
  /\ reported \in Seq([no : Nat, size : Nat])
  /\ broken = "none" => behind = {} /\ outgoing = FlatUp \o Written(sending.no, sending.sent)
  /\ broken \in {"request", "report"} =>
       /\ state # "connected" /\ behind \subseteq {"puback"}
       /\ stage \in {"top", "ack"} /\ sending.kind \in {"none", "puback"}

Current == Len(handled) + 1
This == Bytes(Current, sent[Current])

\* The first bytes of the current packet were read, and no others.
ReadTo(at) == incoming = From(This, at) \o Flat(sent, Current + 1)

AtTop ==
  stage \in {"top", "deliver", "ack"} /\ state = "connected" /\ ~astray =>
    incoming = Flat(sent, Current)

\* What was decoded of the length and what its other digits are worth is the length.
AtLength ==
  stage = "length" =>
    /\ ~astray /\ Current \in DOMAIN sent
    /\ buf_read = <<This[1]>>
    /\ len <= Len(Encode(sent[Current].len)) /\ ReadTo(len + 1)
    /\ \E rest \in Nat : /\ sent[Current].len = value + multiplier * rest
                         /\ Encode(rest) = From(Encode(sent[Current].len), len)

InBody ==
  stage \in {"rest", "drop"} =>
    /\ ~astray /\ Current \in DOMAIN sent
    /\ value = sent[Current].len /\ HeadOf(sent[Current]) <= BufSize
    /\ stage = "drop" => Len(This) > BufSize
    /\ LET at == IF stage = "rest" THEN HeadOf(sent[Current]) ELSE BufSize
       IN  buf_read = SubSeq(This, 1, at) /\ ReadTo(at)

AtHandle ==
  stage = "handle" =>
    /\ Current \in DOMAIN sent
    /\ buf_read = Image(Current, sent[Current])
    /\ ~astray => incoming = Flat(sent, Current + 1)

Past ==
  /\ value \in Nat /\ multiplier \in Nat /\ Len(buf_read) \in Nat /\ Len(buf_read) <= BufSize
  /\ handled \in Seq(Seq(AByte)) /\ Len(handled) <= Len(sent)
  /\ \A k \in DOMAIN handled : handled[k] = Image(k, sent[k])
  /\ astray => \E k \in DOMAIN sent : Len(Bytes(k, sent[k])) > BufSize + 1

Reader == AtTop /\ AtLength /\ InBody /\ AtHandle /\ Past

StreamInv == StreamTypes /\ Control /\ Writer /\ Reader

LEMMA BoundsAre ==
  /\ MaxDigits \in Nat /\ BufSize \in Nat /\ BufSize > MaxDigits /\ Publish \in Nat
  /\ Sizes \subseteq Nat \ {0} /\ MaxDown \in Nat /\ MaxUp \in Nat /\ MaxConns \in Nat
BY MqttStreamAssumption

\* The actions that end a read in the middle of a packet.
ReadEnds ==
  /\ stage \in {"length", "rest", "drop"} /\ stage' = "top" /\ state' = "disconnected"
  /\ UNCHANGED <<sent, value, multiplier, len, buf_read, handled, astray, writer, conns>>

\* The steps, one by one.
LEMMA Steps ==
  ASSUME [StreamNext]_streamVars
  PROVE  \/ UNCHANGED streamVars
         \/ ReadEnds
         \/ \E n \in 0 .. Len(incoming) :
              \/ ReadHeader(n) \/ ReadAstray(n)
              \/ (ReadDigit(n) \/ ReadRest(n) \/ ReadDrop(n)) /\ ~ReadEnds
         \/ Handle \/ Deliver \/ Ack \/ CloseSocket \/ NewConnection
         \/ Returns \/ WriteEnds
         \/ \E n \in 1 .. sending.size : Writes(n)
         \/ \E size \in Sizes : Request(size)
         \/ \E p \in Packets : BrokerSends(p)
BY DEF StreamNext, Client, Goes, ReadsOn, ReadsFirst, Sends, Done

\* Where an unsuccessful read leaves the client.
LEMMA Failed ==
  ASSUME NEW n, (ReadDigit(n) /\ (len + 1 > MaxDigits \/ n = 0))
                \/ (ReadRest(n) /\ n # IF TooLong THEN BufSize - HeadLen ELSE value)
                \/ (ReadDrop(n) /\ n = 0)
  PROVE  ReadEnds
BY DEF ReadDigit, ReadRest, ReadDrop, ReadFails, ReadEnds, Take, GiveUp

LEMMA SendingIs ==
  ASSUME StreamTypes
  PROVE  /\ sending = Nothing \/ /\ sending # Nothing
                                 /\ sending.kind \in Kinds /\ sending.no \in 1 .. MaxUp
                                 /\ sending.size \in Nat \ {0} /\ sending.size \in Sizes
                                 /\ sending.sent \in Nat
         /\ sending = Nothing <=> sending.kind = "none"
<1>1. CASE sending = Nothing
  BY <1>1 DEF Nothing
<1>2. CASE sending # Nothing
  <2>1. sending \in [kind : Kinds, no : 1 .. MaxUp, size : Sizes, sent : Nat]
    BY <1>2 DEF StreamTypes
  <2>2. sending.kind \in Kinds /\ sending.no \in 1 .. MaxUp /\ sending.size \in Sizes
        /\ sending.sent \in Nat
    BY <2>1
  <2>3. sending.kind # "none"
    BY <2>2 DEF Kinds
  <2>4. QED
    BY <1>2, <2>2, <2>3, BoundsAre
<1>3. QED
  BY <1>1, <1>2

LEMMA TypesAndControl ==
  ASSUME StreamTypes, Control, [StreamNext]_streamVars
  PROVE  StreamTypes' /\ Control'
<1>1. CASE UNCHANGED streamVars
  BY <1>1 DEF StreamTypes, Control, streamVars, broker, reader, writer
<1>2. CASE ReadEnds
  BY <1>2 DEF StreamTypes, Control, ReadEnds, writer
<1>3. ASSUME NEW n \in 0 .. Len(incoming), ReadHeader(n)
      PROVE  StreamTypes' /\ Control'
  <2>1. /\ stage = "top" /\ state = "connected" /\ sending = Nothing
        /\ len' \in {len, 0} /\ stage' \in {"top", "length"}
        /\ UNCHANGED <<state, sent, sending, astray, broken, behind, begun, conns>>
    BY <1>3 DEF ReadHeader, Take, reader, writer
  <2>2. len' \in 0 .. MaxDigits
    BY <2>1, BoundsAre DEF StreamTypes
  <2>3. QED
    BY <2>1, <2>2 DEF StreamTypes, Control, Nothing
<1>4. ASSUME NEW n \in 0 .. Len(incoming), ReadAstray(n)
      PROVE  StreamTypes' /\ Control'
  <2>1. /\ stage = "top" /\ sending = Nothing /\ state' \in {"connected", "disconnected"}
        /\ UNCHANGED <<stage, len, sent, sending, astray, broken, behind, begun, conns>>
    BY <1>4 DEF ReadAstray, Take, reader, writer, GiveUp
  <2>2. Nothing.kind = "none"
    BY DEF Nothing
  <2>3. QED
    BY <2>1, <2>2 DEF StreamTypes, Control
<1>5. ASSUME NEW n \in 0 .. Len(incoming), ReadDigit(n), ~ReadEnds
      PROVE  StreamTypes' /\ Control'
  <2>1. ~(len + 1 > MaxDigits) /\ ~(n = 0)
    BY <1>5, Failed
  <2>2. /\ stage = "length" /\ stage' \in {"length", "handle", "rest"} /\ len' = len + 1
        /\ UNCHANGED <<state, sent, handled, astray, writer, conns>>
    BY <1>5, <2>1 DEF ReadDigit, Take
  <2>3. len' \in 0 .. MaxDigits
    BY <2>1, <2>2, BoundsAre DEF StreamTypes
  <2>4. QED
    BY <2>2, <2>3 DEF StreamTypes, Control, writer
<1>6. ASSUME NEW n \in 0 .. Len(incoming), ReadRest(n), ~ReadEnds
      PROVE  StreamTypes' /\ Control'
  <2>1. /\ stage = "rest" /\ stage' \in {"drop", "handle"}
        /\ UNCHANGED <<state, sent, len, handled, astray, writer, conns>>
    BY <1>6, Failed DEF ReadRest, Take
  <2>2. QED
    BY <2>1 DEF StreamTypes, Control, writer
<1>7. ASSUME NEW n \in 0 .. Len(incoming), ReadDrop(n), ~ReadEnds
      PROVE  StreamTypes' /\ Control'
  <2>1. /\ stage = "drop" /\ stage' = "handle"
        /\ astray' = (value - (BufSize - HeadLen) > 1)
        /\ UNCHANGED <<state, sent, len, handled, writer, conns>>
    BY <1>7, Failed DEF ReadDrop, Take
  <2>2. astray' \in BOOLEAN
    BY <2>1
  <2>3. QED
    BY <2>1, <2>2 DEF StreamTypes, Control, writer
<1>8. CASE Handle
  <2>1. /\ stage = "handle" /\ stage' \in {"top", "deliver"}
        /\ UNCHANGED <<state, sent, len, astray, writer, conns>>
    BY <1>8 DEF Handle, broker
  <2>2. QED
    BY <2>1 DEF StreamTypes, Control, writer, Nothing
<1>9. ASSUME NEW kind \in Kinds, NEW size \in Sizes, Begin(kind, size)
      PROVE  /\ sending' \in [kind : Kinds, no : 1 .. MaxUp, size : Sizes, sent : Nat]
             /\ sending'.kind = kind /\ sending'.sent = 0 /\ sending'.sent <= 2 * sending'.size
             /\ sending' # Nothing
             /\ begun' \in 0 .. MaxUp /\ behind' \subseteq Kinds
             /\ sending'.no = begun + 1 /\ sending'.size = size
  <2>1. begun + 1 \in 1 .. MaxUp /\ size \in Nat
    BY <1>9, BoundsAre DEF StreamTypes, Begin
  <2>2. sending' = [kind |-> kind, no |-> begun + 1, size |-> size, sent |-> 0]
    BY <1>9 DEF Begin
  <2>3. begun' \in 0 .. MaxUp
    BY <1>9, <2>1 DEF Begin
  <2>4. behind' \subseteq Kinds
    BY <1>9 DEF StreamTypes, Begin
  <2>5. QED
    BY <2>1, <2>2, <2>3, <2>4 DEF Nothing, Kinds
<1>10. CASE Deliver
  <2>1. /\ stage = "deliver" /\ sending = Nothing
        /\ UNCHANGED <<state, sent, len, handled, astray, reported, broken, conns>>
    BY <1>10 DEF Deliver, broker
  <2>2. CASE \E size \in Sizes : Begin("report", size) /\ UNCHANGED stage
    <3>1. PICK size \in Sizes : Begin("report", size) /\ UNCHANGED stage
      BY <2>2
    <3>2. "report" \in Kinds
      BY DEF Kinds
    <3>3. QED
      BY <1>9, <2>1, <3>1, <3>2 DEF StreamTypes, Control
  <2>3. CASE stage' = "ack" /\ UNCHANGED <<sending, behind, begun>>
    BY <2>1, <2>3 DEF StreamTypes, Control, Nothing
  <2>4. QED
    BY <1>10, <2>2, <2>3 DEF Deliver
<1>11. CASE Ack
  <2>1. /\ stage = "ack" /\ stage' = "top" /\ sending = Nothing
        /\ UNCHANGED <<state, sent, len, handled, astray, reported, broken, conns>>
    BY <1>11 DEF Ack, broker
  <2>2. CASE \E size \in Sizes : Begin("puback", size)
    <3>1. PICK size \in Sizes : Begin("puback", size)
      BY <2>2
    <3>2. "puback" \in Kinds
      BY DEF Kinds
    <3>3. QED
      BY <1>9, <2>1, <3>1, <3>2 DEF StreamTypes, Control
  <2>3. CASE UNCHANGED <<sending, behind, begun>>
    BY <2>1, <2>3 DEF StreamTypes, Control, Nothing
  <2>4. QED
    BY <1>11, <2>2, <2>3 DEF Ack
<1>12. CASE CloseSocket
  BY <1>12 DEF StreamTypes, Control, CloseSocket, broker, reader, writer, Nothing
<1>13. CASE NewConnection
  <2>1. <<>> \in Seq(Packets) /\ Len(<<>>) = 0
    OBVIOUS
  <2>2. conns' \in 0 .. MaxConns
    BY <1>13, BoundsAre DEF NewConnection, StreamTypes
  <2>3. /\ state = "closed" /\ state' = "connected" /\ sent' = <<>> /\ astray' = FALSE
        /\ broken' = "none" /\ behind' = {} /\ begun' = 0
        /\ UNCHANGED <<stage, len, sending>>
    BY <1>13 DEF NewConnection, reader
  <2>4. StreamTypes'
    <3>1. sent' \in Seq(Packets) /\ Len(sent') <= MaxDown /\ begun' \in 0 .. MaxUp
      BY <2>1, <2>3, BoundsAre
    <3>2. behind' \subseteq Kinds /\ astray' \in BOOLEAN
      BY <2>3
    <3>3. QED
      BY <2>2, <2>3, <3>1, <3>2 DEF StreamTypes
  <2>5. Control'
    BY <2>3 DEF Control, Nothing
  <2>6. QED
    BY <2>4, <2>5
<1>14. ASSUME NEW success \in BOOLEAN, sending # Nothing, Return(success)
       PROVE  StreamTypes' /\ Control'
  <2>1. /\ sending' = Nothing /\ stage' = IF sending.kind = "report" THEN "ack" ELSE "top"
        /\ state' = state \/ state' = "disconnected"
        /\ broken' = broken \/ broken' = sending.kind
        /\ UNCHANGED <<sent, len, handled, astray, behind, begun, conns>>
    BY <1>14 DEF Return, broker
  <2>2. sending.kind \in Kinds
    BY <1>14, SendingIs
  <2>3. Nothing.sent <= 2 * Nothing.size /\ Nothing.kind = "none"
    BY DEF Nothing
  <2>4. StreamTypes'
    BY <2>1, <2>2, <2>3 DEF StreamTypes
  <2>5. state = "closed" => FALSE
    BY <1>14 DEF Control
  <2>6. Control'
    BY <2>1, <2>3, <2>5 DEF Control
  <2>7. QED
    BY <2>4, <2>6
<1>15. CASE Returns
  BY <1>14, <1>15 DEF Returns
<1>16. CASE WriteEnds
  BY <1>14, <1>16 DEF WriteEnds
<1>17. ASSUME NEW n \in 1 .. sending.size, Writes(n)
       PROVE  StreamTypes' /\ Control'
  <2>1. /\ sending # Nothing /\ sending.sent < sending.size
        /\ sending' = [sending EXCEPT !.sent = @ + n]
        /\ UNCHANGED <<state, broker, reader, handled, astray, reported, broken, behind,
                       begun, conns>>
    BY <1>17 DEF Writes
  <2>2. sending \in [kind : Kinds, no : 1 .. MaxUp, size : Sizes, sent : Nat]
    BY <2>1 DEF StreamTypes
  <2>3. n \in Nat /\ n <= sending.size /\ sending.sent \in Nat /\ sending.size \in Nat
    <3>1. sending.size \in Nat /\ sending.sent \in Nat
      BY <2>1, SendingIs
    <3>2. QED
      BY <3>1
  <2>4. /\ sending' \in [kind : Kinds, no : 1 .. MaxUp, size : Sizes, sent : Nat]
        /\ sending'.kind = sending.kind /\ sending'.size = sending.size
        /\ sending'.sent = sending.sent + n /\ sending' # Nothing
    BY <2>1, <2>2, <2>3 DEF Nothing, Kinds
  <2>5. sending'.sent <= 2 * sending'.size
    BY <2>1, <2>3, <2>4
  <2>6. QED
    BY <2>1, <2>4, <2>5 DEF StreamTypes, Control, broker, reader
<1>18. ASSUME NEW size \in Sizes, Request(size)
       PROVE  StreamTypes' /\ Control'
  <2>1. "request" \in Kinds
    BY DEF Kinds
  <2>2. Begin("request", size)
    BY <1>18 DEF Request
  <2>3. QED
    BY <1>9, <1>18, <2>1, <2>2 DEF StreamTypes, Control, Request, broker, reader
<1>19. ASSUME NEW p \in Packets, BrokerSends(p)
       PROVE  StreamTypes' /\ Control'
  <2>1. Append(sent, p) \in Seq(Packets) /\ Len(Append(sent, p)) = Len(sent) + 1
    BY DEF StreamTypes
  <2>2. Len(sent) + 1 <= MaxDown
    BY <1>19, BoundsAre DEF StreamTypes, BrokerSends
  <2>3. QED
    BY <1>19, <2>1, <2>2 DEF StreamTypes, Control, BrokerSends, reader, writer
<1>20. QED
  BY Steps, <1>1, <1>2, <1>3, <1>4, <1>5, <1>6, <1>7, <1>8, <1>10, <1>11, <1>12, <1>13, <1>15,
     <1>16, <1>17, <1>18, <1>19

-----------------------------------------------------------------------------
(* Writing                                                                 *)

UpByte == [no : Nat, at : Nat]
Report == [no : Nat, size : Nat]

LEMMA WrittenIs ==
  ASSUME NEW no \in Nat, NEW n \in Nat
  PROVE  /\ Written(no, n) \in Seq(UpByte) /\ Len(Written(no, n)) = n
         /\ \A k \in 1 .. n : Written(no, n)[k] = [no |-> no, at |-> k]
BY DEF Written, UpByte

LEMMA WrittenNothing == ASSUME NEW no PROVE Written(no, 0) = <<>>
BY DEF Written

WritesOn(no, n, m) ==
  LET more == [k \in 1 .. m |-> [no |-> no, at |-> n + k]]
  IN  more \in Seq(UpByte) /\ Written(no, n) \o more = Written(no, n + m)

LEMMA WrittenOn ==
  ASSUME NEW no \in Nat, NEW n \in Nat, NEW m \in Nat
  PROVE  WritesOn(no, n, m)
<1> DEFINE more == [k \in 1 .. m |-> [no |-> no, at |-> n + k]]
<1>1. /\ more \in Seq(UpByte) /\ Len(more) = m
      /\ \A k \in 1 .. m : more[k] = [no |-> no, at |-> n + k]
  BY DEF UpByte
<1> HIDE DEF more
<1>2. PICK w \in Seq(UpByte) : /\ w = Written(no, n) /\ Len(w) = n
                               /\ \A k \in 1 .. n : w[k] = [no |-> no, at |-> k]
  BY WrittenIs
<1>3. /\ w \o more \in Seq(UpByte) /\ Len(w \o more) = n + m
      /\ \A k \in 1 .. n : (w \o more)[k] = w[k]
      /\ \A k \in 1 .. m : (w \o more)[n + k] = more[k]
  <2>1. PICK t \in Seq(UpByte) : t = more /\ Len(t) = m
    BY <1>1
  <2>2. /\ w \o t \in Seq(UpByte) /\ Len(w \o t) = Len(w) + Len(t)
        /\ \A k \in 1 .. Len(w) : (w \o t)[k] = w[k]
        /\ \A k \in 1 .. Len(t) : (w \o t)[Len(w) + k] = t[k]
    BY BehindIs
  <2>3. QED
    BY <1>2, <2>1, <2>2
<1>4. /\ Written(no, n + m) \in Seq(UpByte) /\ Len(Written(no, n + m)) = n + m
      /\ \A k \in 1 .. n + m : Written(no, n + m)[k] = [no |-> no, at |-> k]
  <2>1. n + m \in Nat
    OBVIOUS
  <2>2. QED
    BY <2>1, WrittenIs
<1>5. ASSUME NEW k \in 1 .. n + m PROVE (w \o more)[k] = Written(no, n + m)[k]
  <2>1. CASE k <= n
    BY <1>2, <1>3, <1>4, <2>1
  <2>2. CASE ~(k <= n)
    <3>1. PICK j \in 1 .. m : k = n + j
      <4>1. k - n \in 1 .. m /\ k = n + (k - n)
        BY <2>2
      <4>2. QED
        BY <4>1
    <3>2. QED
      BY <1>1, <1>3, <1>4, <3>1
  <2>3. QED
    BY <2>1, <2>2
<1>6. w \o more = Written(no, n + m)
  BY <1>3, <1>4, <1>5, SeqEqual
<1>7. QED
  BY <1>1, <1>2, <1>6 DEF more, WritesOn

\* The packets reported as sent, one behind the other.
UpParts(r) == [k \in 1 .. Len(r) |-> Written(r[k].no, r[k].size)]
Up(r) == Joined(UpParts(r))

LEMMA UpPartsAre ==
  ASSUME NEW r \in Seq(Report)
  PROVE  /\ UpParts(r) \in Seq(Seq(UpByte)) /\ Len(UpParts(r)) = Len(r)
         /\ \A k \in 1 .. Len(r) : UpParts(r)[k] = Written(r[k].no, r[k].size)
<1>1. ASSUME NEW k \in 1 .. Len(r) PROVE Written(r[k].no, r[k].size) \in Seq(UpByte)
  <2>1. r[k] \in Report
    OBVIOUS
  <2>2. r[k].no \in Nat /\ r[k].size \in Nat
    BY <2>1 DEF Report
  <2>3. QED
    BY <2>2, WrittenIs
<1>2. QED
  BY <1>1 DEF UpParts

LEMMA UpAppend ==
  ASSUME NEW r \in Seq(Report), NEW no \in Nat, NEW size \in Nat
  PROVE  LET x == [no |-> no, size |-> size]
         IN  /\ Append(r, x) \in Seq(Report) /\ Up(r) \in Seq(UpByte)
             /\ Up(Append(r, x)) = Up(r) \o Written(no, size)
<1>1. PICK x \in Report : x = [no |-> no, size |-> size]
  BY DEF Report
<1>2. /\ Append(r, x) \in Seq(Report) /\ Len(Append(r, x)) = Len(r) + 1 /\ Len(r) \in Nat
      /\ Append(r, x)[Len(r) + 1] = x /\ \A k \in 1 .. Len(r) : Append(r, x)[k] = r[k]
  OBVIOUS
<1>3. PICK w \in Seq(UpByte) : w = Written(no, size) /\ w = Written(x.no, x.size)
  BY <1>1, WrittenIs
<1>4. PICK a \in Seq(Seq(UpByte)) :
        /\ a = UpParts(r) /\ Len(a) = Len(r)
        /\ \A k \in 1 .. Len(r) : a[k] = Written(r[k].no, r[k].size)
  BY UpPartsAre
<1>5. PICK b \in Seq(Seq(UpByte)) :
        /\ b = UpParts(Append(r, x)) /\ Len(b) = Len(r) + 1
        /\ \A k \in 1 .. Len(r) + 1 :
             b[k] = Written(Append(r, x)[k].no, Append(r, x)[k].size)
  BY <1>2, UpPartsAre
<1>6. Append(a, w) \in Seq(Seq(UpByte)) /\ Len(Append(a, w)) = Len(r) + 1
      /\ Append(a, w)[Len(r) + 1] = w /\ \A k \in 1 .. Len(r) : Append(a, w)[k] = a[k]
  BY <1>4
<1>7. ASSUME NEW k \in 1 .. Len(r) + 1 PROVE b[k] = Append(a, w)[k]
  <2>1. CASE k = Len(r) + 1
    BY <1>2, <1>3, <1>5, <1>6, <2>1
  <2>2. CASE k # Len(r) + 1
    <3>1. k \in 1 .. Len(r)
      BY <1>2, <2>2
    <3>2. QED
      BY <1>2, <1>4, <1>5, <1>6, <3>1
  <2>3. QED
    BY <2>1, <2>2
<1>8. b = Append(a, w)
  BY <1>5, <1>6, <1>7, SeqEqual
<1>9. Joined(a) \in Seq(UpByte) /\ Joined(Append(a, w)) = Joined(a) \o w
  BY JoinedAppend
<1>10. QED
  BY <1>1, <1>2, <1>3, <1>4, <1>5, <1>8, <1>9 DEF Up

LEMMA UpIs == FlatUp = Up(reported) /\ FlatUp' = Up(reported')
BY DEF FlatUp, Up, UpParts

LEMMA UpStart == Up(<<>>) = <<>> /\ <<>> \in Seq(Report)
<1>1. <<>> \in Seq(Report) /\ Len(<<>>) = 0
  OBVIOUS
<1>2. UpParts(<<>>) \in Seq(Seq(UpByte)) /\ Len(UpParts(<<>>)) = 0
  BY <1>1, UpPartsAre
<1>3. UpParts(<<>>) = <<>>
  BY <1>2, EmptySeq
<1>4. QED
  BY <1>1, <1>3, JoinedEmpty DEF Up

\* A step that writes nothing.
LEMMA WriterKept ==
  ASSUME Writer, UNCHANGED writer,
         state = "connected" \/ (state' # "connected" /\ stage' = stage)
  PROVE  Writer'
<1>1. UNCHANGED <<sending, outgoing, reported, broken, behind>>
  BY DEF writer
<1>2. FlatUp' = FlatUp /\ Written(sending'.no, sending'.sent) = Written(sending.no, sending.sent)
  BY <1>1, UpIs
<1>3. QED
  BY <1>1, <1>2 DEF Writer

\* A packet is begun.
LEMMA WriterBegins ==
  ASSUME Writer, StreamTypes, sending = Nothing, NEW kind, NEW size, Begin(kind, size),
         UNCHANGED <<state, outgoing, reported, broken>>,
         broken \in {"request", "report"} => kind = "puback" /\ stage' \in {"top", "ack"}
  PROVE  Writer'
<1>1. /\ sending'.no = begun + 1 /\ sending'.sent = 0 /\ sending'.kind = kind
      /\ behind' = IF broken = "none" THEN behind ELSE behind \cup {kind}
  BY DEF Begin
<1>2. outgoing = FlatUp \o <<>> <=> outgoing = FlatUp \o Written(sending.no, sending.sent)
  BY WrittenNothing DEF Nothing
<1>3. Written(sending'.no, sending'.sent) = <<>> /\ FlatUp' = FlatUp
  BY <1>1, WrittenNothing, UpIs
<1>4. broken' = "none" =>
        behind' = {} /\ outgoing' = FlatUp' \o Written(sending'.no, sending'.sent)
  BY <1>1, <1>2, <1>3 DEF Writer
<1>5. broken' \in {"request", "report"} =>
        /\ state' # "connected" /\ behind' \subseteq {"puback"}
        /\ stage' \in {"top", "ack"} /\ sending'.kind \in {"none", "puback"}
  BY <1>1 DEF Writer
<1>6. QED
  BY <1>4, <1>5 DEF Writer

\* iotx_mc_send_packet returns.
LEMMA WriterReturns ==
  ASSUME StreamTypes, Control, Writer, sending # Nothing, NEW success \in BOOLEAN,
         Return(success), success => sending.sent = sending.size
  PROVE  Writer'
<1>1. /\ sending' = Nothing /\ stage' = IF sending.kind = "report" THEN "ack" ELSE "top"
      /\ UNCHANGED <<outgoing, behind>>
  BY DEF Return
<1>2. sending'.no = 0 /\ sending'.sent = 0 /\ sending'.kind = "none"
  BY <1>1 DEF Nothing
<1>3. Written(sending'.no, sending'.sent) = <<>>
  BY <1>2, WrittenNothing
<1>4. sending.no \in Nat /\ sending.size \in Nat /\ sending.sent \in Nat /\ sending.kind \in Kinds
  BY SendingIs
<1>5. Up(reported) \in Seq(UpByte)
  BY <1>4, UpAppend DEF Writer, Report
<1>6. CASE success
  <2>1. /\ reported' = Append(reported, [no |-> sending.no, size |-> sending.size])
        /\ UNCHANGED <<state, broken>> /\ sending.sent = sending.size
    BY <1>6 DEF Return
  <2>2. /\ reported' \in Seq(Report)
        /\ Up(reported') = Up(reported) \o Written(sending.no, sending.size)
    BY <1>4, <2>1, UpAppend DEF Writer, Report
  <2>3. Up(reported') \in Seq(UpByte)
    BY <1>4, <2>2, UpAppend
  <2>4. Up(reported') \o <<>> = Up(reported')
    BY <2>3
  <2>5. broken' = "none" =>
          behind' = {} /\ outgoing' = FlatUp' \o Written(sending'.no, sending'.sent)
    BY <1>1, <1>3, <2>1, <2>2, <2>4, UpIs DEF Writer
  <2>6. broken' \in {"request", "report"} =>
          /\ state' # "connected" /\ behind' \subseteq {"puback"}
          /\ stage' \in {"top", "ack"} /\ sending'.kind \in {"none", "puback"}
    BY <1>1, <1>2, <2>1 DEF Writer
  <2>7. QED
    BY <2>2, <2>5, <2>6 DEF Writer, Report
<1>7. CASE ~success
  <2>1. /\ state' = IF sending.kind # "puback" THEN "disconnected" ELSE state
        /\ broken' = IF broken = "none" /\ sending.sent > 0 THEN sending.kind ELSE broken
        /\ UNCHANGED reported
    BY <1>7 DEF Return, Disconnects
  <2>2. Up(reported) \o <<>> = Up(reported) /\ FlatUp' = FlatUp
    BY <1>5, <2>1, UpIs
  <2>3. sending.kind # "none"
    BY <1>4 DEF Kinds
  <2>4. broken' = "none" =>
          behind' = {} /\ outgoing' = FlatUp' \o Written(sending'.no, sending'.sent)
    <3>1. broken' = "none" => broken = "none" /\ sending.sent = 0
      BY <1>4, <2>1, <2>3
    <3>2. sending.sent = 0 => Written(sending.no, sending.sent) = <<>>
      BY WrittenNothing
    <3>3. QED
      BY <1>1, <1>3, <2>2, <3>1, <3>2 DEF Writer
  <2>5. broken' \in {"request", "report"} =>
          /\ state' # "connected" /\ behind' \subseteq {"puback"}
          /\ stage' \in {"top", "ack"} /\ sending'.kind \in {"none", "puback"}
    BY <1>1, <1>2, <2>1, <2>3 DEF Writer, Kinds
  <2>6. QED
    BY <2>1, <2>4, <2>5 DEF Writer
<1>8. QED
  BY <1>6, <1>7

LEMMA WriterStep ==
  ASSUME StreamTypes, Control, Writer, [StreamNext]_streamVars
  PROVE  Writer'
<1>1. CASE UNCHANGED streamVars
  BY <1>1, WriterKept DEF streamVars, reader
<1>2. CASE ReadEnds
  BY <1>2, WriterKept DEF ReadEnds, Control
<1>3. ASSUME NEW n \in 0 .. Len(incoming), ReadHeader(n) \/ ReadAstray(n) PROVE Writer'
  BY <1>3, WriterKept DEF ReadHeader, ReadAstray
<1>4. ASSUME NEW n \in 0 .. Len(incoming), ReadDigit(n) \/ ReadRest(n) \/ ReadDrop(n),
             ~ReadEnds
      PROVE  Writer'
  <2>1. stage \in {"length", "rest", "drop"} /\ UNCHANGED writer
    BY <1>4, Failed DEF ReadDigit, ReadRest, ReadDrop
  <2>2. QED
    BY <2>1, WriterKept DEF Control
<1>5. CASE Handle
  BY <1>5, WriterKept DEF Handle, Control
<1>6. CASE Deliver
  <2>1. /\ stage = "deliver" /\ sending = Nothing /\ state = "connected"
        /\ UNCHANGED <<state, outgoing, reported, broken>>
    BY <1>6 DEF Deliver, Control
  <2>2. broken \notin {"request", "report"}
    BY <2>1 DEF Writer
  <2>3. CASE \E size \in Sizes : Begin("report", size)
    BY <2>1, <2>2, <2>3, WriterBegins
  <2>4. CASE UNCHANGED <<sending, behind, begun>>
    BY <2>1, <2>4, WriterKept DEF writer
  <2>5. QED
    BY <1>6, <2>3, <2>4 DEF Deliver
<1>7. CASE Ack
  <2>1. /\ stage = "ack" /\ sending = Nothing /\ stage' = "top"
        /\ UNCHANGED <<state, outgoing, reported, broken>>
    BY <1>7 DEF Ack
  <2>2. CASE \E size \in Sizes : Begin("puback", size)
    BY <2>1, <2>2, WriterBegins
  <2>3. CASE UNCHANGED <<sending, behind, begun>>
    <3>1. FlatUp' = FlatUp
      BY <2>1, UpIs
    <3>2. QED
      BY <2>1, <2>3, <3>1 DEF Writer
  <2>4. QED
    BY <1>7, <2>2, <2>3 DEF Ack
<1>8. CASE CloseSocket
  BY <1>8, WriterKept DEF CloseSocket, reader
<1>9. CASE NewConnection
  <2>1. /\ sending = Nothing /\ sending' = Nothing /\ outgoing' = <<>> /\ reported' = <<>>
        /\ broken' = "none" /\ behind' = {}
    BY <1>9 DEF NewConnection, Control
  <2>2. FlatUp' = <<>> /\ <<>> \in Seq(Report)
    BY <2>1, UpIs, UpStart
  <2>3. Written(sending'.no, sending'.sent) = <<>>
    BY <2>1, WrittenNothing DEF Nothing
  <2>4. <<>> \o <<>> = <<>>
    OBVIOUS
  <2>5. QED
    BY <2>1, <2>2, <2>3, <2>4 DEF Writer, Report
<1>10. CASE Returns
  <2>1. (sending.sent = sending.size) \in BOOLEAN
    OBVIOUS
  <2>2. sending # Nothing /\ Return(sending.sent = sending.size)
    BY <1>10 DEF Returns
  <2>3. QED
    BY <2>1, <2>2, WriterReturns
<1>11. CASE WriteEnds
  BY <1>11, WriterReturns DEF WriteEnds
<1>12. ASSUME NEW n \in 1 .. sending.size, Writes(n) PROVE Writer'
  <2>1. /\ sending # Nothing
        /\ outgoing' = outgoing \o [k \in 1 .. n |-> [no |-> sending.no,
                                                      at |-> sending.sent + k]]
        /\ sending' = [sending EXCEPT !.sent = @ + n]
        /\ UNCHANGED <<state, stage, reported, broken, behind>>
    BY <1>12 DEF Writes, reader
  <2>2. sending \in [kind : Kinds, no : 1 .. MaxUp, size : Sizes, sent : Nat]
    BY <2>1 DEF StreamTypes
  <2>3. n \in Nat /\ sending.no \in Nat /\ sending.sent \in Nat
    BY <2>1, SendingIs
  <2>4. /\ sending'.no = sending.no /\ sending'.kind = sending.kind
        /\ sending'.sent = sending.sent + n
    BY <2>1, <2>2
  <2>5. FlatUp' = FlatUp /\ FlatUp \in Seq(UpByte)
    BY <2>1, <2>3, UpIs, UpAppend DEF Writer, Report
  <2>6. PICK more : more = [k \in 1 .. n |-> [no |-> sending.no, at |-> sending.sent + k]]
    OBVIOUS
  <2>7. /\ Written(sending.no, sending.sent) \in Seq(UpByte) /\ more \in Seq(UpByte)
        /\ Written(sending'.no, sending'.sent) = Written(sending.no, sending.sent) \o more
    <3>1. PICK no \in Nat, to \in Nat, m \in Nat :
            no = sending.no /\ to = sending.sent /\ m = n
      BY <2>3
    <3>2. more = [k \in 1 .. m |-> [no |-> no, at |-> to + k]]
      BY <2>6, <3>1
    <3>3. WritesOn(no, to, m)
      BY WrittenOn
    <3>4. more \in Seq(UpByte) /\ Written(no, to) \o more = Written(no, to + m)
      BY <3>2, <3>3 DEF WritesOn
    <3>5. Written(no, to) \in Seq(UpByte)
      BY WrittenIs
    <3>6. sending'.no = no /\ sending'.sent = to + m
      BY <2>4, <3>1
    <3>7. Written(sending'.no, sending'.sent) = Written(no, to + m)
      BY <3>6
    <3>8. QED
      BY <3>1, <3>4, <3>5, <3>7
  <2>8. PICK u, w : u = FlatUp /\ w = Written(sending.no, sending.sent)
    OBVIOUS
  <2>9. Regroup(u, w, more)
    BY <2>5, <2>7, <2>8, Regrouped
  <2>10. broken' = "none" =>
           behind' = {} /\ outgoing' = FlatUp' \o Written(sending'.no, sending'.sent)
    <3>1. broken = "none" => behind = {} /\ outgoing = u \o w
      BY <2>8 DEF Writer
    <3>2. outgoing' = outgoing \o more
      BY <2>1, <2>6
    <3>3. FlatUp' = u /\ Written(sending'.no, sending'.sent) = w \o more
      BY <2>5, <2>7, <2>8
    <3>4. QED
      BY <2>1, <2>9, <3>1, <3>2, <3>3 DEF Regroup
  <2>11. QED
    BY <2>1, <2>4, <2>10 DEF Writer
<1>13. ASSUME NEW size \in Sizes, Request(size) PROVE Writer'
  <2>1. /\ state = "connected" /\ sending = Nothing /\ Begin("request", size)
        /\ UNCHANGED <<state, outgoing, reported, broken>>
    BY <1>13 DEF Request
  <2>2. broken \notin {"request", "report"}
    BY <2>1 DEF Writer
  <2>3. QED
    BY <2>1, <2>2, WriterBegins
<1>14. ASSUME NEW p \in Packets, BrokerSends(p) PROVE Writer'
  BY <1>14, WriterKept DEF BrokerSends, reader
<1>15. QED
  BY Steps, <1>1, <1>2, <1>3, <1>4, <1>5, <1>6, <1>7, <1>8, <1>9, <1>10, <1>11, <1>12, <1>13,
     <1>14

-----------------------------------------------------------------------------
(* Reading                                                                 *)

\* The packet a connected client is at, and what comes behind it.
LEMMA ThisIs ==
  ASSUME StreamTypes, Past, Current \in DOMAIN sent
  PROVE  /\ Current \in Nat /\ sent[Current] \in Packets /\ sent[Current].len \in Nat
         /\ This \in Seq(AByte)
         /\ Len(This) = HeadOf(sent[Current]) + sent[Current].len
         /\ HeadOf(sent[Current]) \in Nat \ {0} /\ Len(This) \in Nat
         /\ This[1].no = Current
         /\ \A k \in 1 .. HeadOf(sent[Current]) - 1 :
              This[k + 1] = Byte(Current, k + 1, Encode(sent[Current].len)[k])
         /\ Flat(sent, Current + 1) \in Seq(AByte)
         /\ Flat(sent, Current) = This \o Flat(sent, Current + 1)
<1>1. PICK no \in 1 .. Len(sent) : no = Current
  BY DEF StreamTypes
<1>2. no \in Nat /\ sent[no] \in Packets /\ sent \in Seq(Packets)
  BY <1>1 DEF StreamTypes
<1>3. sent[no].len \in Nat
  BY <1>2, PacketIs
<1>4. /\ Bytes(no, sent[no]) \in Seq(AByte)
      /\ Len(Bytes(no, sent[no])) = HeadOf(sent[no]) + sent[no].len
      /\ HeadOf(sent[no]) \in Nat \ {0}
      /\ Bytes(no, sent[no])[1] = Byte(no, 1, sent[no].type)
      /\ \A k \in 1 .. HeadOf(sent[no]) - 1 :
           Bytes(no, sent[no])[k + 1] = Byte(no, k + 1, Encode(sent[no].len)[k])
  BY <1>2, BytesIs
<1>5. Bytes(no, sent[no])[1].no = no
  BY <1>4 DEF Byte
<1>6. Len(Bytes(no, sent[no])) \in Nat
  BY <1>4
<1>7. /\ Flat(sent, no + 1) \in Seq(AByte)
      /\ Flat(sent, no) = Bytes(no, sent[no]) \o Flat(sent, no + 1)
  BY <1>2, FlatHead
<1>8. QED
  BY <1>1, <1>2, <1>3, <1>4, <1>5, <1>6, <1>7 DEF This

\* A step that does not read.
LEMMA ReaderKept ==
  ASSUME Reader, UNCHANGED <<incoming, sent, value, multiplier, len, buf_read, handled, astray>>,
         stage' = stage \/ {stage, stage'} \subseteq {"top", "deliver", "ack"},
         state' = "connected" => state = "connected"
  PROVE  Reader'
<1>1. Current' = Current /\ This' = This
  BY DEF Current, This
<1>2. AtTop'
  <2>1. stage' \in {"top", "deliver", "ack"} => stage \in {"top", "deliver", "ack"}
    OBVIOUS
  <2>2. QED
    BY <1>1, <2>1 DEF Reader, AtTop
<1>3. stage' \in {"length", "rest", "drop", "handle"} => stage' = stage
  OBVIOUS
<1>4. AtLength' /\ InBody' /\ AtHandle'
  BY <1>1, <1>3 DEF Reader, AtLength, InBody, AtHandle, ReadTo
<1>5. Past'
  BY DEF Reader, Past
<1>6. QED
  BY <1>2, <1>4, <1>5 DEF Reader

\* A step that ends the reading, or reads where nothing is known any more.
LEMMA ReaderLost ==
  ASSUME Reader, UNCHANGED <<sent, value, multiplier, len, buf_read, handled, astray>>,
         stage' = "top", state' # "connected" \/ astray
  PROVE  Reader'
BY DEF Reader, AtTop, AtLength, InBody, AtHandle, Past

LEMMA ReaderHeader ==
  ASSUME StreamTypes, Reader, NEW n, ReadHeader(n)
  PROVE  Reader'
<1>1. /\ stage = "top" /\ state = "connected" /\ ~astray /\ n \in Returned(1)
      /\ incoming' = SubSeq(incoming, n + 1, Len(incoming))
      /\ UNCHANGED <<state, sent, handled, astray>>
  BY DEF ReadHeader, Take
<1>2. PICK in \in Seq(AByte) : in = incoming /\ in = Flat(sent, Current)
  <2>1. incoming = Flat(sent, Current)
    BY <1>1 DEF Reader, AtTop
  <2>2. sent \in Seq(Packets) /\ Len(sent) \in Nat /\ Current \in 1 .. Len(sent) + 1
    BY DEF StreamTypes, Reader, Past, Current
  <2>3. Current \in DOMAIN sent => Flat(sent, Current) \in Seq(AByte)
    <3>1. ASSUME Current \in DOMAIN sent
          PROVE  /\ This \in Seq(AByte) /\ Flat(sent, Current + 1) \in Seq(AByte)
                 /\ Flat(sent, Current) = This \o Flat(sent, Current + 1)
      BY <3>1, ThisIs DEF Reader
    <3>2. QED
      BY <3>1, BehindIs
  <2>4. Current \notin DOMAIN sent => Flat(sent, Current) = <<>>
    <3>1. Current \notin DOMAIN sent => Current = Len(sent) + 1
      BY <2>2
    <3>2. QED
      BY <2>2, <3>1, FlatEnd
  <2>5. <<>> \in Seq(AByte)
    OBVIOUS
  <2>6. QED
    BY <2>1, <2>3, <2>4, <2>5
<1>3. CASE n = 0
  <2>1. SubSeq(in, 1, Len(in)) = in
    OBVIOUS
  <2>2. UNCHANGED <<incoming, reader>>
    BY <1>1, <1>2, <1>3, <2>1 DEF ReadHeader
  <2>3. QED
    BY <1>1, <2>2, ReaderKept DEF reader
<1>4. CASE n # 0
  <2>1. Len(in) \in Nat \ {0} /\ n = 1
    BY <1>1, <1>2, <1>4 DEF Returned
  <2>2. Current \in DOMAIN sent
    <3>1. Len(sent) \in Nat /\ sent \in Seq(Packets) /\ Current \in 1 .. Len(sent) + 1
      BY DEF StreamTypes, Reader, Past, Current
    <3>2. Current # Len(sent) + 1
      BY <1>2, <2>1, <3>1, FlatEnd
    <3>3. QED
      BY <3>1, <3>2
  <2>3. PICK b, f \in Seq(AByte) :
          /\ b = This /\ f = Flat(sent, Current + 1) /\ in = b \o f
          /\ Len(b) \in Nat \ {0} /\ b \in Seq(AByte)
    <3>1. /\ This \in Seq(AByte) /\ Flat(sent, Current + 1) \in Seq(AByte)
          /\ Flat(sent, Current) = This \o Flat(sent, Current + 1)
          /\ Len(This) = HeadOf(sent[Current]) + sent[Current].len
          /\ HeadOf(sent[Current]) \in Nat \ {0} /\ sent[Current].len \in Nat
      BY <2>2, ThisIs DEF Reader
    <3>2. QED
      BY <1>2, <3>1
  <2>4. in = From(b, 0) \o f
    BY <2>3, FromEnd
  <2>5. SubSeq(in, 2, Len(in)) = From(b, 1) \o f /\ in[1] = b[1]
    <3>1. PICK i \in 0 .. Len(b) - 1 : i = 0 /\ i + 1 = 1
      BY <2>3
    <3>2. LET u == From(b, i) \o f
          IN  SubSeq(u, 2, Len(u)) = From(b, i + 1) \o f /\ u[1] = b[i + 1]
      BY <2>3, OneFrom
    <3>3. QED
      BY <2>4, <3>1, <3>2
  <2>6. /\ buf_read' = <<b[1]>> /\ value' = 0 /\ multiplier' = 1 /\ len' = 0
        /\ stage' = "length" /\ incoming' = From(b, 1) \o f
    <3>1. n + 1 = 2
      BY <2>1
    <3>2. QED
      BY <1>1, <1>2, <1>4, <2>5, <3>1 DEF ReadHeader
  <2>7. Current' = Current /\ This' = This
    BY <1>1 DEF Current, This
  <2>8. ReadTo(len + 1)'
    <3>1. len' + 1 = 1 /\ Flat(sent', Current' + 1) = f
      BY <1>1, <2>3, <2>6, <2>7
    <3>2. QED
      BY <2>3, <2>6, <2>7, <3>1 DEF ReadTo
  <2>9. /\ sent[Current].len = 0 + 1 * sent[Current].len /\ sent[Current].len \in Nat
        /\ Encode(sent[Current].len) = From(Encode(sent[Current].len), 0)
        /\ 0 <= Len(Encode(sent[Current].len))
    <3>1. sent[Current].len \in Nat
      BY <2>2, ThisIs DEF Reader
    <3>2. Encode(sent[Current].len) \in Seq(Nat)
      BY <3>1, Encoded
    <3>3. QED
      BY <3>1, <3>2, FromEnd
  <2>10. AtLength'
    <3>1. /\ ~astray' /\ Current' \in DOMAIN sent' /\ buf_read' = <<This'[1]>>
          /\ len' <= Len(Encode(sent'[Current'].len))
      BY <1>1, <2>2, <2>3, <2>6, <2>7, <2>9
    <3>2. /\ sent'[Current'].len = value' + multiplier' * sent[Current].len
          /\ Encode(sent[Current].len) = From(Encode(sent'[Current'].len), len')
      BY <1>1, <2>6, <2>7, <2>9
    <3>3. QED
      BY <2>8, <2>9, <3>1, <3>2 DEF AtLength
  <2>11. Past'
    <3>1. Len(<<b[1]>>) = 1
      OBVIOUS
    <3>2. /\ value' \in Nat /\ multiplier' \in Nat /\ Len(buf_read') \in Nat
          /\ Len(buf_read') <= BufSize
      BY <2>6, <3>1, BoundsAre
    <3>3. QED
      BY <1>1, <3>2 DEF Reader, Past
  <2>12. QED
    BY <2>6, <2>10, <2>11 DEF Reader, AtTop, InBody, AtHandle
<1>5. QED
  BY <1>3, <1>4

\* The header with its digits is what a packet begins with.
LEMMA HeadBytes ==
  ASSUME NEW b \in Seq(AByte), NEW d \in Seq(Nat), NEW no \in Nat, Len(d) + 1 <= Len(b),
         \A k \in 1 .. Len(d) : b[k + 1] = Byte(no, k + 1, d[k])
  PROVE  LET s == [k \in DOMAIN d |-> Byte(no, k + 1, d[k])]
         IN  <<b[1]>> \o s = SubSeq(b, 1, Len(d) + 1)
<1> DEFINE s == [k \in DOMAIN d |-> Byte(no, k + 1, d[k])]
<1>1. Len(d) \in Nat /\ Len(b) \in Nat /\ DOMAIN d = 1 .. Len(d) /\ 1 \in 1 .. Len(b)
  OBVIOUS
<1>2. PICK l \in Nat : l = Len(d) /\ l + 1 <= Len(b)
  BY <1>1
<1>3. s \in Seq(AByte) /\ Len(s) = l /\ \A k \in 1 .. l : s[k] = b[k + 1]
  <2>1. ASSUME NEW k \in 1 .. l PROVE Byte(no, k + 1, d[k]) \in AByte
    <3>1. d[k] \in Nat /\ k + 1 \in Nat
      BY <1>1, <1>2
    <3>2. QED
      BY <3>1 DEF Byte, AByte
  <2>2. s = [k \in 1 .. l |-> Byte(no, k + 1, d[k])]
    BY <1>1, <1>2
  <2> HIDE DEF s
  <2>3. QED
    BY <1>2, <2>1, <2>2
<1>4. PICK t \in Seq(AByte) : t = s /\ Len(t) = l
  BY <1>3
<1> HIDE DEF s
<1>5. PICK o \in Seq(AByte) : o = <<b[1]>> /\ Len(o) = 1 /\ o[1] = b[1]
  <2>1. PICK x \in AByte : x = b[1]
    BY <1>1
  <2>2. <<x>> \in Seq(AByte) /\ Len(<<x>>) = 1 /\ <<x>>[1] = x
    BY Single
  <2>3. QED
    BY <2>1, <2>2
<1>6. /\ o \o t \in Seq(AByte) /\ Len(o \o t) = Len(o) + Len(t)
      /\ \A k \in 1 .. Len(o) : (o \o t)[k] = o[k]
      /\ \A k \in 1 .. Len(t) : (o \o t)[Len(o) + k] = t[k]
  BY BehindIs
<1>7. /\ SubSeq(b, 1, l + 1) \in Seq(AByte) /\ Len(SubSeq(b, 1, l + 1)) = l + 1
      /\ \A k \in 1 .. l + 1 : SubSeq(b, 1, l + 1)[k] = b[k]
  BY <1>1, <1>2
<1>8. ASSUME NEW k \in 1 .. l + 1 PROVE (o \o t)[k] = SubSeq(b, 1, l + 1)[k]
  <2>1. CASE k = 1
    BY <1>5, <1>6, <1>7, <2>1
  <2>2. CASE k # 1
    <3>1. PICK j \in 1 .. l : k = 1 + j /\ k = j + 1
      <4>1. k - 1 \in 1 .. l /\ k = 1 + (k - 1) /\ k = (k - 1) + 1
        BY <2>2
      <4>2. QED
        BY <4>1
    <3>2. (o \o t)[k] = t[j]
      BY <1>4, <1>5, <1>6, <3>1
    <3>3. QED
      BY <1>3, <1>4, <1>7, <3>1, <3>2
  <2>3. QED
    BY <2>1, <2>2
<1>9. Len(o \o t) = l + 1
  BY <1>4, <1>5, <1>6
<1>10. o \o t = SubSeq(b, 1, l + 1)
  BY <1>6, <1>7, <1>8, <1>9, SeqEqual
<1>11. QED
  BY <1>2, <1>4, <1>5, <1>10 DEF s

\* What a digit says of the length, and what is left to say.
LEMMA DigitIs ==
  ASSUME NEW d \in Seq(Nat), NEW i \in 0 .. Len(d), NEW rest \in Nat,
         Encode(rest) = From(d, i)
  PROVE  /\ i + 1 \in 1 .. Len(d) /\ d[i + 1] \in Nat
         /\ d[i + 1] % Base = rest % Base
         /\ d[i + 1] >= Base <=> ~(rest < Base)
         /\ rest < Base => Len(d) = i + 1 /\ rest % Base = rest
         /\ ~(rest < Base) => Encode(rest \div Base) = From(d, i + 1)
<1>1. /\ rest % Base \in 0 .. Base - 1 /\ rest \div Base \in Nat
      /\ rest < Base => rest % Base = rest
      /\ ((rest % Base) + Base) % Base = rest % Base
  BY Divided
<1>2. CASE rest < Base
  <2>1. From(d, i) = <<rest>> \o <<>>
    <3>1. Encode(rest) = <<rest>> /\ <<rest>> \o <<>> = <<rest>>
      BY <1>2, Encoded, Single
    <3>2. QED
      BY <3>1
  <2>2. PICK r \in Seq(Nat) : r = <<>> /\ Len(r) = 0
    BY NothingInIt
  <2>3. i + 1 \in 0 .. Len(d) /\ d[i + 1] = rest /\ Len(d) = i + 1 + Len(r)
    <3>1. PICK o \in Seq(Nat) : o = <<rest>> /\ Len(o) = 1 /\ o[1] = rest
      BY Single
    <3>2. From(d, i) = o \o r
      BY <2>1, <2>2, <3>1
    <3>3. FirstLeft(d, i, o[1], r)
      BY <3>1, <3>2, FromStep
    <3>4. QED
      BY <3>1, <3>3 DEF FirstLeft
  <2>4. i + 1 \in 1 .. Len(d) /\ Len(d) = i + 1
    BY <2>2, <2>3
  <2>5. QED
    BY <1>1, <1>2, <2>3, <2>4, BaseIs
<1>3. CASE ~(rest < Base)
  <2>1. Encode(rest) = <<(rest % Base) + Base>> \o Encode(rest \div Base)
    BY <1>3, Encoded
  <2>2. PICK x \in Nat, r \in Seq(Nat) :
          x = (rest % Base) + Base /\ r = Encode(rest \div Base)
    <3>1. PICK q \in Nat : q = rest \div Base
      BY <1>1
    <3>2. Encode(q) \in Seq(Nat)
      BY Encoded
    <3>3. (rest % Base) + Base \in Nat
      BY <1>1, BaseIs
    <3>4. QED
      BY <3>1, <3>2, <3>3
  <2>3. PICK o \in Seq(Nat) : o = <<x>> /\ Len(o) = 1 /\ o[1] = x
    BY Single
  <2>4. i + 1 \in 0 .. Len(d) /\ d[i + 1] = x /\ From(d, i + 1) = r
    <3>1. From(d, i) = o \o r
      BY <2>1, <2>2, <2>3
    <3>2. FirstLeft(d, i, o[1], r)
      BY <2>3, <3>1, FromStep
    <3>3. QED
      BY <2>3, <3>2 DEF FirstLeft
  <2>5. i + 1 \in 1 .. Len(d)
    BY <2>4
  <2>6. x >= Base /\ x % Base = rest % Base
    BY <1>1, <2>2, BaseIs
  <2>7. QED
    BY <1>3, <2>2, <2>4, <2>5, <2>6
<1>4. QED
  BY <1>2, <1>3

\* A digit taken into the value makes what is left worth Base times as much.
Worth(v, m, n) ==
  /\ v + (n % Base) * m \in Nat /\ m * Base \in Nat
  /\ v + m * n = (v + (n % Base) * m) + (m * Base) * (n \div Base)
  /\ n % Base = n => v + (n % Base) * m = v + m * n

LEMMA Times ==
  ASSUME NEW v \in Nat, NEW m \in Nat, NEW n \in Nat
  PROVE  Worth(v, m, n)
<1>1. PICK q \in Nat, r \in Nat, b \in Nat :
        /\ q = n \div Base /\ r = n % Base /\ b = Base /\ n = q * b + r
  <2>1. /\ n \div Base \in Nat /\ n % Base \in 0 .. Base - 1
        /\ n = (n \div Base) * Base + (n % Base)
    BY Divided
  <2>2. n % Base \in Nat /\ Base \in Nat
    BY <2>1, BaseIs
  <2>3. QED
    BY <2>1, <2>2
<1>2. v + r * m \in Nat /\ m * b \in Nat
  OBVIOUS
<1>3. (v + r * m) + (m * b) * q = v + m * (q * b + r)
  OBVIOUS
<1>4. v + n * m = v + m * n
  OBVIOUS
<1>5. QED
  BY <1>1, <1>2, <1>3, <1>4 DEF Worth

LEMMA ReaderDigit ==
  ASSUME StreamTypes, Reader, NEW n, ReadDigit(n), ~ReadEnds
  PROVE  Reader'
<1>1. /\ stage = "length" /\ n \in Returned(1) /\ ~(len + 1 > MaxDigits) /\ n # 0
      /\ incoming' = SubSeq(incoming, n + 1, Len(incoming))
      /\ UNCHANGED <<state, sent, handled, astray>>
      /\ LET total == value + (incoming[1].val % Base) * multiplier
             more == incoming[1].val >= Base
             digits == Encode(total)
         IN  /\ value' = total /\ multiplier' = multiplier * Base /\ len' = len + 1
             /\ IF more
                THEN UNCHANGED <<stage, buf_read>>
                ELSE /\ stage' = IF total = 0 THEN "handle" ELSE "rest"
                     /\ buf_read' = buf_read \o
                          [k \in DOMAIN digits |-> Byte(buf_read[1].no, k + 1, digits[k])]
  BY Failed DEF ReadDigit, Take
<1>2. PICK rest \in Nat :
        /\ sent[Current].len = value + multiplier * rest
        /\ Encode(rest) = From(Encode(sent[Current].len), len)
  BY <1>1 DEF Reader, AtLength
<1>3. /\ ~astray /\ Current \in DOMAIN sent /\ buf_read = <<This[1]>>
      /\ len <= Len(Encode(sent[Current].len)) /\ ReadTo(len + 1)
  BY <1>1 DEF Reader, AtLength
<1>4. PICK no \in Nat, p \in Packets, b \in Seq(AByte), f \in Seq(AByte), d \in Seq(Nat) :
        /\ no = Current /\ p = sent[Current] /\ b = This /\ f = Flat(sent, Current + 1)
        /\ d = Encode(p.len) /\ p.len \in Nat
  BY <1>3, ThisIs, Encoded DEF Reader
<1>5. /\ Len(b) = Len(d) + 1 + p.len /\ Len(d) + 1 <= Len(b) /\ b[1].no = no
      /\ \A k \in 1 .. Len(d) : b[k + 1] = Byte(no, k + 1, d[k])
      /\ HeadOf(p) = Len(d) + 1
  <2>1. HeadOf(p) = Len(d) + 1 /\ HeadOf(p) - 1 = Len(d) /\ Len(d) \in Nat
    BY <1>4 DEF HeadOf
  <2>2. /\ Len(This) = HeadOf(sent[Current]) + sent[Current].len /\ This[1].no = Current
        /\ \A k \in 1 .. HeadOf(sent[Current]) - 1 :
             This[k + 1] = Byte(Current, k + 1, Encode(sent[Current].len)[k])
    BY <1>3, ThisIs DEF Reader
  <2>3. QED
    BY <1>4, <2>1, <2>2
<1>6. len \in 0 .. Len(d) /\ len + 1 <= MaxDigits
  BY <1>1, <1>3, <1>4, BoundsAre DEF StreamTypes
<1>7. /\ len + 1 \in 1 .. Len(d) /\ d[len + 1] \in Nat /\ d[len + 1] % Base = rest % Base
      /\ d[len + 1] >= Base <=> ~(rest < Base)
      /\ rest < Base => Len(d) = len + 1 /\ rest % Base = rest
      /\ ~(rest < Base) => Encode(rest \div Base) = From(d, len + 1)
  <2>1. Encode(rest) = From(d, len)
    BY <1>2, <1>4
  <2>2. QED
    BY <1>6, <2>1, DigitIs, Zenon
<1>8. /\ SubSeq(incoming, 2, Len(incoming)) = From(b, len + 2) \o f
      /\ incoming[1] = b[len + 2]
  <2>1. PICK i \in 0 .. Len(b) - 1 : i = len + 1 /\ i + 1 = len + 2
    <3>1. Len(d) \in Nat /\ p.len \in Nat /\ len + 1 <= Len(d)
      BY <1>4, <1>7
    <3>2. Len(b) \in Nat /\ len + 1 <= Len(b) - 1
      BY <1>5, <1>6, <3>1
    <3>3. QED
      BY <1>6, <3>2
  <2>2. LET u == From(b, i) \o f
        IN  SubSeq(u, 2, Len(u)) = From(b, i + 1) \o f /\ u[1] = b[i + 1]
    BY <1>4, OneFrom
  <2>3. incoming = From(b, i) \o f
    BY <1>3, <1>4, <2>1 DEF ReadTo
  <2>4. QED
    BY <2>1, <2>2, <2>3
<1>9. incoming[1].val = d[len + 1]
  <2>1. (len + 1) + 1 = len + 2
    BY <1>6
  <2>2. b[len + 2] = Byte(no, len + 2, d[len + 1])
    BY <1>5, <1>7, <2>1
  <2>3. QED
    BY <1>8, <2>2 DEF Byte
<1>10. incoming' = From(b, len + 2) \o f
  <2>1. n \in {0, 1}
    BY <1>1 DEF Returned
  <2>2. n + 1 = 2
    BY <1>1, <2>1
  <2>3. QED
    BY <1>1, <1>8, <2>2
<1>11. Current' = Current /\ This' = This /\ sent' = sent
  BY <1>1 DEF Current, This
<1>12. value \in Nat /\ multiplier \in Nat /\ Past
  BY DEF Reader, Past
<1>13. /\ value + (rest % Base) * multiplier \in Nat /\ multiplier * Base \in Nat
       /\ p.len = (value + (rest % Base) * multiplier) + (multiplier * Base) * (rest \div Base)
       /\ rest % Base = rest => value + (rest % Base) * multiplier = p.len
  <2>1. p.len = value + multiplier * rest
    BY <1>2, <1>4
  <2>2. Worth(value, multiplier, rest)
    BY <1>12, Times
  <2>3. QED
    BY <2>1, <2>2 DEF Worth
<1>14. value' = value + (rest % Base) * multiplier /\ multiplier' = multiplier * Base
  BY <1>1, <1>7, <1>9
<1>15. CASE ~(rest < Base)
  <2>1. UNCHANGED <<stage, buf_read>> /\ len' = len + 1
    BY <1>1, <1>7, <1>9, <1>15
  <2>2. ReadTo(len + 1)'
    <3>1. len' + 1 = len + 2 /\ Flat(sent', Current' + 1) = f
      BY <1>4, <1>6, <1>11, <2>1
    <3>2. QED
      BY <1>4, <1>10, <1>11, <3>1 DEF ReadTo
  <2>3. PICK r \in Nat : r = rest \div Base
    BY Divided
  <2>4. sent'[Current'].len = value' + multiplier' * r
    BY <1>4, <1>11, <1>13, <1>14, <2>3
  <2>5. Encode(r) = From(Encode(sent'[Current'].len), len')
    BY <1>4, <1>7, <1>11, <1>15, <2>1, <2>3
  <2>6. len' <= Len(Encode(sent'[Current'].len))
    BY <1>4, <1>7, <1>11, <2>1
  <2>7. AtLength'
    BY <1>1, <1>3, <1>11, <2>1, <2>2, <2>4, <2>5, <2>6 DEF AtLength
  <2>8. Past'
    BY <1>1, <1>12, <1>13, <1>14, <2>1 DEF Past
  <2>9. QED
    BY <1>1, <2>1, <2>7, <2>8 DEF Reader, AtTop, InBody, AtHandle
<1>16. CASE rest < Base
  <2>1. value' = p.len /\ Len(d) = len + 1
    BY <1>7, <1>13, <1>14, <1>16
  <2>2. buf_read[1].no = no
    BY <1>3, <1>4, <1>5
  <2>3. /\ stage' = IF p.len = 0 THEN "handle" ELSE "rest"
        /\ buf_read' = buf_read \o [k \in DOMAIN d |-> Byte(no, k + 1, d[k])]
    BY <1>1, <1>4, <1>7, <1>9, <1>14, <1>16, <2>1, <2>2
  <2>4. buf_read' = SubSeq(b, 1, Len(d) + 1)
    BY <1>3, <1>4, <1>5, <2>3, HeadBytes
  <2>5. incoming' = From(b, Len(d) + 1) \o f
    <3>1. Len(d) + 1 = len + 2
      BY <1>6, <2>1
    <3>2. QED
      BY <1>10, <3>1
  <2>6. Len(d) + 1 <= BufSize /\ Len(d) \in Nat
    BY <1>6, <2>1, BoundsAre
  <2>7. Past'
    <3>1. Len(buf_read') = Len(d) + 1
      BY <1>5, <2>4, <2>6
    <3>2. QED
      BY <1>1, <1>12, <1>13, <1>14, <2>6, <3>1 DEF Past
  <2>8. CASE p.len = 0
    <3>1. Len(b) = Len(d) + 1 /\ ~(Len(b) > BufSize)
      BY <1>5, <2>6, <2>8, BoundsAre
    <3>2. buf_read' = Image(no, p)
      BY <1>4, <2>4, <3>1 DEF Image, This
    <3>3. incoming' = f
      BY <2>5, <3>1, FromEnd
    <3>4. AtHandle'
      BY <1>3, <1>4, <1>11, <3>2, <3>3 DEF AtHandle
    <3>5. QED
      BY <2>3, <2>7, <2>8, <3>4 DEF Reader, AtTop, AtLength, InBody
  <2>9. CASE p.len # 0
    <3>1. stage' = "rest"
      BY <2>3, <2>9
    <3>2. ReadTo(HeadOf(p))'
      BY <1>4, <1>5, <1>11, <2>5 DEF ReadTo
    <3>3. InBody'
      BY <1>1, <1>3, <1>4, <1>5, <1>11, <2>1, <2>4, <2>6, <3>1, <3>2 DEF InBody
    <3>4. QED
      BY <2>7, <3>1, <3>3 DEF Reader, AtTop, AtLength, AtHandle
  <2>10. QED
    BY <2>8, <2>9
<1>17. QED
  BY <1>15, <1>16

\* More than one byte is read of what is left.
ReadsSome(s, t, i, n) ==
  LET u == From(s, i) \o t
  IN  /\ SubSeq(u, n + 1, Len(u)) = From(s, i + n) \o t
      /\ SubSeq(u, 1, n) = SubSeq(s, i + 1, i + n)

LEMMA SomeRead ==
  ASSUME NEW E, NEW s \in Seq(E), NEW t \in Seq(E), NEW i \in 0 .. Len(s),
         NEW n \in 0 .. Len(s) - i
  PROVE  ReadsSome(s, t, i, n)
<1>1. LET u == From(s, i) \o t
      IN  /\ u \in Seq(E) /\ Len(u) = Len(s) - i + Len(t)
          /\ SubSeq(u, n + 1, Len(u)) = From(s, i + n) \o t
          /\ SubSeq(u, 1, n) = SubSeq(s, i + 1, i + n)
          /\ \A k \in 1 .. Len(s) - i : u[k] = s[i + k]
  BY DropFrom, ZenonT(30)
<1>2. QED
  BY <1>1 DEF ReadsSome

\* What the length of a packet means once it was read.
LEMMA BodyIs ==
  ASSUME StreamTypes, Past, Current \in DOMAIN sent, value = sent[Current].len
  PROVE  /\ HeadLen = HeadOf(sent[Current]) /\ Len(This) = HeadLen + value
         /\ TooLong <=> Len(This) > BufSize
         /\ HeadLen \in Nat \ {0} /\ value \in Nat /\ Len(This) \in Nat
<1>1. /\ Len(This) = HeadOf(sent[Current]) + sent[Current].len
      /\ HeadOf(sent[Current]) \in Nat \ {0} /\ Len(This) \in Nat
      /\ sent[Current].len \in Nat
  BY ThisIs
<1>2. HeadLen = HeadOf(sent[Current])
  BY DEF HeadLen, HeadOf
<1>3. value + HeadLen = HeadLen + value
  BY <1>1, <1>2
<1>4. QED
  BY <1>1, <1>2, <1>3 DEF TooLong

LEMMA ReaderRest ==
  ASSUME StreamTypes, Reader, NEW n, ReadRest(n), ~ReadEnds
  PROVE  Reader'
<1> DEFINE wanted == IF TooLong THEN BufSize - HeadLen ELSE value
<1>1. /\ stage = "rest" /\ n = wanted
      /\ incoming' = SubSeq(incoming, n + 1, Len(incoming))
      /\ buf_read' = buf_read \o SubSeq(incoming, 1, n)
      /\ stage' = IF TooLong THEN "drop" ELSE "handle"
      /\ UNCHANGED <<state, sent, value, multiplier, len, handled, astray>>
  BY Failed DEF ReadRest, Take
<1>2. /\ ~astray /\ Current \in DOMAIN sent /\ value = sent[Current].len
      /\ HeadOf(sent[Current]) <= BufSize
      /\ buf_read = SubSeq(This, 1, HeadOf(sent[Current])) /\ ReadTo(HeadOf(sent[Current]))
  BY <1>1 DEF Reader, InBody
<1>3. Past
  BY DEF Reader
<1>4. PICK no \in Nat, b \in Seq(AByte), f \in Seq(AByte), head \in Nat \ {0}, l \in Nat :
        /\ no = Current /\ b = This /\ f = Flat(sent, Current + 1)
        /\ head = HeadOf(sent[Current]) /\ head = HeadLen /\ l = Len(b) /\ l = head + value
        /\ TooLong <=> l > BufSize
  <2>1. /\ Current \in Nat /\ This \in Seq(AByte) /\ Flat(sent, Current + 1) \in Seq(AByte)
    BY <1>2, <1>3, ThisIs
  <2>2. QED
    BY <1>2, <1>3, <2>1, BodyIs
<1>5. Current' = Current /\ This' = This /\ sent' = sent /\ sent[Current] \in Packets
  BY <1>1, <1>2, <1>3, ThisIs DEF Current, This
<1>6. value \in Nat /\ head <= BufSize /\ head <= l /\ BufSize \in Nat
  BY <1>2, <1>3, <1>4, BoundsAre DEF Past
<1>7. PICK to \in Nat : /\ to = head + n /\ to \in head .. l /\ n = to - head /\ n \in Nat
                        /\ to = IF l > BufSize THEN BufSize ELSE l
  <2>1. CASE l > BufSize
    <3>1. n = BufSize - head
      BY <1>1, <1>4, <2>1
    <3>2. QED
      BY <1>6, <2>1, <3>1
  <2>2. CASE ~(l > BufSize)
    <3>1. n = value
      BY <1>1, <1>4, <2>2
    <3>2. QED
      BY <1>4, <1>6, <2>2, <3>1
  <2>3. QED
    BY <2>1, <2>2
<1>8. incoming' = From(b, to) \o f /\ SubSeq(incoming, 1, n) = SubSeq(b, head + 1, to)
  <2>1. head \in 0 .. Len(b) /\ n \in 0 .. Len(b) - head
    BY <1>4, <1>6, <1>7
  <2>2. ReadsSome(b, f, head, n)
    BY <2>1, SomeRead
  <2>3. incoming = From(b, head) \o f
    BY <1>2, <1>4 DEF ReadTo
  <2>4. QED
    BY <1>1, <1>7, <2>2, <2>3 DEF ReadsSome
<1>9. buf_read' = SubSeq(b, 1, to)
  <2>1. head \in 0 .. Len(b) /\ to \in head .. Len(b)
    BY <1>4, <1>6, <1>7
  <2>2. SubSeq(b, 1, head) \o SubSeq(b, head + 1, to) = SubSeq(b, 1, to)
    BY <2>1, Glued
  <2>3. QED
    BY <1>1, <1>2, <1>4, <1>8, <2>2
<1>10. Past'
  <2>1. Len(buf_read') = to
    <3>1. to <= Len(b)
      BY <1>4, <1>7
    <3>2. QED
      BY <1>9, <3>1
  <2>2. to <= BufSize
    BY <1>6, <1>7
  <2>3. QED
    BY <1>1, <1>3, <2>1, <2>2 DEF Past
<1>11. CASE l > BufSize
  <2>1. stage' = "drop" /\ to = BufSize
    BY <1>1, <1>4, <1>7, <1>11
  <2>2. ReadTo(BufSize)'
    BY <1>4, <1>5, <1>8, <2>1 DEF ReadTo
  <2>3. /\ ~astray' /\ Current' \in DOMAIN sent' /\ value' = sent'[Current'].len
        /\ HeadOf(sent'[Current']) <= BufSize /\ Len(This') > BufSize
    BY <1>1, <1>2, <1>4, <1>5, <1>11
  <2>4. buf_read' = SubSeq(This', 1, BufSize)
    BY <1>4, <1>5, <1>9, <2>1
  <2>5. InBody'
    BY <2>1, <2>2, <2>3, <2>4 DEF InBody
  <2>6. QED
    BY <1>10, <2>1, <2>5 DEF Reader, AtTop, AtLength, AtHandle
<1>12. CASE ~(l > BufSize)
  <2>1. stage' = "handle" /\ to = l
    BY <1>1, <1>4, <1>7, <1>12
  <2>2. buf_read' = Image(no, sent[Current])
    BY <1>4, <1>9, <1>12, <2>1 DEF Image, This
  <2>3. incoming' = f
    <3>1. From(b, Len(b)) \o f = f
      BY FromEnd
    <3>2. to = Len(b)
      BY <1>4, <2>1
    <3>3. incoming' = From(b, to) \o f
      BY <1>8
    <3>4. QED
      BY <3>1, <3>2, <3>3, Zenon
  <2>4. AtHandle'
    BY <1>2, <1>4, <1>5, <2>2, <2>3 DEF AtHandle
  <2>5. QED
    BY <1>10, <2>1, <2>4 DEF Reader, AtTop, AtLength, InBody
<1>13. QED
  BY <1>11, <1>12

LEMMA ReaderDrop ==
  ASSUME StreamTypes, Reader, NEW n, ReadDrop(n), ~ReadEnds
  PROVE  Reader'
<1>1. /\ stage = "drop" /\ n \in Returned(1) /\ n # 0 /\ stage' = "handle"
      /\ incoming' = SubSeq(incoming, n + 1, Len(incoming))
      /\ astray' = (value - (BufSize - HeadLen) > 1)
      /\ UNCHANGED <<state, sent, value, multiplier, len, buf_read, handled>>
  BY Failed DEF ReadDrop, Take
<1>2. /\ Current \in DOMAIN sent /\ value = sent[Current].len
      /\ HeadOf(sent[Current]) <= BufSize /\ Len(This) > BufSize
      /\ buf_read = SubSeq(This, 1, BufSize) /\ ReadTo(BufSize)
  BY <1>1 DEF Reader, InBody
<1>3. Past
  BY DEF Reader
<1>4. PICK no \in Nat, b \in Seq(AByte), f \in Seq(AByte), head \in Nat \ {0}, l \in Nat :
        /\ no = Current /\ b = This /\ f = Flat(sent, Current + 1)
        /\ head = HeadLen /\ l = Len(b) /\ l = head + value /\ l > BufSize
  <2>1. /\ Current \in Nat /\ This \in Seq(AByte) /\ Flat(sent, Current + 1) \in Seq(AByte)
    BY <1>2, <1>3, ThisIs
  <2>2. QED
    BY <1>2, <1>3, <2>1, BodyIs
<1>5. Current' = Current /\ This' = This /\ sent' = sent
  BY <1>1 DEF Current, This
<1>6. BufSize \in Nat /\ value \in Nat
  BY <1>3, BoundsAre DEF Past
<1>7. incoming' = From(b, BufSize + 1) \o f
  <2>1. BufSize \in 0 .. Len(b) - 1
    BY <1>4, <1>6
  <2>2. SubSeq(incoming, 2, Len(incoming)) = From(b, BufSize + 1) \o f
    <3>1. LET u == From(b, BufSize) \o f
          IN  SubSeq(u, 2, Len(u)) = From(b, BufSize + 1) \o f /\ u[1] = b[BufSize + 1]
      BY <2>1, OneFrom
    <3>2. QED
      BY <1>2, <1>4, <3>1 DEF ReadTo
  <2>3. n + 1 = 2
    BY <1>1 DEF Returned
  <2>4. QED
    BY <1>1, <2>2, <2>3
<1>8. astray' <=> l > BufSize + 1
  <2>1. value - (BufSize - head) > 1 <=> l > BufSize + 1
    BY <1>4, <1>6
  <2>2. astray' <=> value - (BufSize - head) > 1
    BY <1>1, <1>4
  <2>3. QED
    BY <2>1, <2>2
<1>9. ~astray' => incoming' = f
  <2>1. ~astray' => Len(b) = BufSize + 1
    BY <1>4, <1>6, <1>8
  <2>2. QED
    BY <1>4, <1>7, <2>1, FromEnd
<1>10. buf_read' = Image(no, sent[Current])
  BY <1>1, <1>2, <1>4 DEF Image, This
<1>11. AtHandle'
  BY <1>2, <1>4, <1>5, <1>9, <1>10 DEF AtHandle
<1>12. Past'
  <2>1. astray' => \E k \in DOMAIN sent : Len(Bytes(k, sent[k])) > BufSize + 1
    BY <1>2, <1>4, <1>8 DEF This
  <2>2. QED
    BY <1>1, <1>3, <2>1 DEF Past
<1>13. QED
  BY <1>1, <1>11, <1>12 DEF Reader, AtTop, AtLength, InBody

LEMMA ImageIs ==
  ASSUME NEW no \in Nat, NEW p \in Packets
  PROVE  Image(no, p) \in Seq(AByte)
<1>1. PICK b \in Seq(AByte) : b = Bytes(no, p)
  BY BytesIs
<1>2. PICK to \in 0 .. Len(b) : to = IF Len(b) > BufSize THEN BufSize ELSE Len(b)
  BY BoundsAre
<1>3. SubSeq(b, 1, to) \in Seq(AByte)
  BY <1>2
<1>4. QED
  BY <1>1, <1>2, <1>3 DEF Image

LEMMA ReaderHandle ==
  ASSUME StreamTypes, Reader, Handle
  PROVE  Reader'
<1>1. /\ stage = "handle" /\ handled' = Append(handled, buf_read)
      /\ stage' \in {"top", "deliver"}
      /\ UNCHANGED <<state, incoming, sent, value, multiplier, buf_read, astray>>
  BY DEF Handle, broker
<1>2. /\ Current \in DOMAIN sent /\ buf_read = Image(Current, sent[Current])
      /\ ~astray => incoming = Flat(sent, Current + 1)
  BY <1>1 DEF Reader, AtHandle
<1>3. PICK no \in Nat : /\ no = Current /\ no = Len(handled) + 1 /\ no \in DOMAIN sent
                        /\ sent[no] \in Packets
  BY <1>2 DEF Current, StreamTypes
<1>4. buf_read \in Seq(AByte)
  BY <1>2, <1>3, ImageIs
<1>5. /\ handled \in Seq(Seq(AByte)) /\ \A k \in DOMAIN handled : handled[k] = Image(k, sent[k])
  BY DEF Reader, Past
<1>6. /\ handled' \in Seq(Seq(AByte)) /\ Len(handled') = Len(handled) + 1
      /\ handled'[no] = buf_read
      /\ \A k \in 1 .. Len(handled) : handled'[k] = handled[k]
  BY <1>1, <1>3, <1>4, <1>5
<1>7. ASSUME NEW k \in DOMAIN handled' PROVE handled'[k] = Image(k, sent[k])
  <2>1. k \in 1 .. Len(handled) + 1 /\ DOMAIN handled = 1 .. Len(handled)
    BY <1>5, <1>6
  <2>2. CASE k = no
    BY <1>2, <1>3, <1>6, <2>2
  <2>3. CASE k # no
    <3>1. k \in 1 .. Len(handled)
      BY <1>3, <2>1, <2>3
    <3>2. QED
      BY <1>5, <1>6, <2>1, <3>1
  <2>4. QED
    BY <2>2, <2>3
<1>8. Past'
  <2>1. Len(handled') <= Len(sent)
    BY <1>3, <1>6 DEF StreamTypes
  <2>2. QED
    BY <1>1, <1>6, <1>7, <2>1 DEF Reader, Past
<1>9. AtTop'
  <2>1. Current' = Current + 1
    BY <1>3, <1>6 DEF Current
  <2>2. QED
    BY <1>1, <1>2, <2>1 DEF AtTop
<1>10. QED
  BY <1>1, <1>8, <1>9 DEF Reader, AtLength, InBody, AtHandle

LEMMA ReaderConnects ==
  ASSUME StreamTypes, Control, Reader, NewConnection
  PROVE  Reader'
<1>1. /\ stage' = "top" /\ incoming' = <<>> /\ sent' = <<>> /\ handled' = <<>>
      /\ astray' = FALSE /\ UNCHANGED <<value, multiplier, buf_read>>
  BY DEF NewConnection, Control, reader
<1>2. /\ <<>> \in Seq(Packets) /\ Len(<<>>) = 0 /\ <<>> \in Seq(Seq(AByte))
      /\ DOMAIN <<>> = {}
  OBVIOUS
<1>3. Flat(<<>>, Len(<<>>) + 1) = <<>>
  BY <1>2, FlatEnd
<1>4. AtTop'
  BY <1>1, <1>3 DEF AtTop, Current
<1>5. Past'
  BY <1>1, <1>2 DEF Reader, Past
<1>6. QED
  BY <1>1, <1>4, <1>5 DEF Reader, AtLength, InBody, AtHandle

LEMMA ReaderBroker ==
  ASSUME StreamTypes, Reader, NEW p \in Packets, BrokerSends(p)
  PROVE  Reader'
<1>1. /\ sent' = Append(sent, p) /\ incoming' = incoming \o Bytes(Len(sent) + 1, p)
      /\ UNCHANGED <<state, stage, value, multiplier, len, buf_read, handled, astray>>
  BY DEF BrokerSends, reader
<1>2. PICK x \in Seq(AByte) : x = Bytes(Len(sent) + 1, p)
  BY BytesIs DEF StreamTypes
<1>3. /\ sent \in Seq(Packets) /\ Len(sent) \in Nat /\ DOMAIN sent = 1 .. Len(sent)
      /\ sent' \in Seq(Packets) /\ Len(sent') = Len(sent) + 1
      /\ DOMAIN sent' = 1 .. Len(sent) + 1
      /\ \A k \in 1 .. Len(sent) : sent'[k] = sent[k]
  BY <1>1 DEF StreamTypes
<1>4. ASSUME NEW from \in 1 .. Len(sent) + 1
      PROVE  Flat(sent, from) \in Seq(AByte) /\ Flat(sent', from) = Flat(sent, from) \o x
  BY <1>1, <1>2, <1>3, FlatAppend
<1>5. Current' = Current /\ Current \in 1 .. Len(sent) + 1
  BY <1>1, <1>3 DEF Reader, Past, Current
<1>6. ASSUME Current \in DOMAIN sent
      PROVE  /\ Current' \in DOMAIN sent' /\ This' = This /\ sent'[Current'] = sent[Current]
             /\ Flat(sent', Current' + 1) = Flat(sent, Current + 1) \o x
             /\ Flat(sent, Current + 1) \in Seq(AByte) /\ This \in Seq(AByte)
  <2>1. Current + 1 \in 1 .. Len(sent) + 1
    BY <1>3, <1>5, <1>6
  <2>2. Current' \in DOMAIN sent' /\ sent'[Current'] = sent[Current]
    BY <1>3, <1>5, <1>6
  <2>3. This \in Seq(AByte)
    BY <1>6, ThisIs DEF Reader
  <2>4. QED
    BY <1>4, <1>5, <2>1, <2>2, <2>3 DEF This
<1>7. ASSUME Current \in DOMAIN sent, NEW at \in 0 .. Len(This), ReadTo(at)
      PROVE  incoming' = From(This', at) \o Flat(sent', Current' + 1)
  <2>1. From(This, at) \in Seq(AByte)
    BY <1>6, <1>7, FromIs
  <2>2. Regroup(From(This, at), Flat(sent, Current + 1), x)
    BY <1>6, <1>7, <2>1, Regrouped
  <2>3. incoming = From(This, at) \o Flat(sent, Current + 1)
    BY <1>7 DEF ReadTo
  <2>4. QED
    BY <1>1, <1>2, <1>6, <1>7, <2>2, <2>3 DEF Regroup
<1>8. AtTop'
  BY <1>1, <1>2, <1>4, <1>5 DEF Reader, AtTop
<1>9. AtLength'
  <2>1. CASE stage # "length"
    BY <1>1, <2>1 DEF AtLength
  <2>2. CASE stage = "length"
    <3>1. AtLength /\ Current \in DOMAIN sent /\ len <= Len(Encode(sent[Current].len))
      BY <2>2 DEF Reader, AtLength
    <3>2. /\ Len(This) = HeadOf(sent[Current]) + sent[Current].len
          /\ sent[Current].len \in Nat
      BY <3>1, ThisIs DEF Reader
    <3>3. Len(Encode(sent[Current].len)) \in Nat
      BY <3>2, Encoded
    <3>4. len + 1 \in 0 .. Len(This)
      BY <3>1, <3>2, <3>3 DEF HeadOf, StreamTypes
    <3>5. incoming' = From(This', len + 1) \o Flat(sent', Current' + 1)
      BY <1>7, <2>2, <3>1, <3>4 DEF AtLength
    <3>6. ReadTo(len + 1)'
      BY <1>1, <3>5 DEF ReadTo
    <3>7. QED
      BY <1>1, <1>6, <2>2, <3>1, <3>6 DEF AtLength
  <2>3. QED
    BY <2>1, <2>2
<1>10. InBody'
  <2>1. CASE stage \notin {"rest", "drop"}
    BY <1>1, <2>1 DEF InBody
  <2>2. CASE stage \in {"rest", "drop"}
    <3>1. InBody /\ Current \in DOMAIN sent /\ (stage = "drop" => Len(This) > BufSize)
      BY <2>2 DEF Reader, InBody
    <3>2. PICK at : at = IF stage = "rest" THEN HeadOf(sent[Current]) ELSE BufSize
      OBVIOUS
    <3>3. /\ Len(This) = HeadOf(sent[Current]) + sent[Current].len /\ Len(This) \in Nat
          /\ HeadOf(sent[Current]) \in Nat \ {0} /\ sent[Current].len \in Nat
      BY <3>1, ThisIs DEF Reader
    <3>4. at \in 0 .. Len(This)
      BY <2>2, <3>1, <3>2, <3>3, BoundsAre
    <3>5. incoming' = From(This', at) \o Flat(sent', Current' + 1)
      BY <1>7, <2>2, <3>1, <3>2, <3>4 DEF InBody
    <3>6. ReadTo(at)'
      BY <3>5 DEF ReadTo
    <3>7. at = IF stage' = "rest" THEN HeadOf(sent'[Current']) ELSE BufSize
      BY <1>1, <1>6, <3>1, <3>2
    <3>8. QED
      BY <1>1, <1>6, <2>2, <3>1, <3>2, <3>6, <3>7 DEF InBody
  <2>3. QED
    BY <2>1, <2>2
<1>11. AtHandle'
  <2>1. CASE stage # "handle"
    BY <1>1, <2>1 DEF AtHandle
  <2>2. CASE stage = "handle"
    <3>1. /\ Current \in DOMAIN sent /\ buf_read = Image(Current, sent[Current])
          /\ ~astray => incoming = Flat(sent, Current + 1)
      BY <2>2 DEF Reader, AtHandle
    <3>2. ~astray' => incoming' = Flat(sent', Current' + 1)
      BY <1>1, <1>2, <1>6, <3>1
    <3>3. Current' \in DOMAIN sent' /\ buf_read' = Image(Current', sent'[Current'])
      BY <1>1, <1>5, <1>6, <3>1
    <3>4. QED
      BY <3>2, <3>3 DEF AtHandle
  <2>3. QED
    BY <2>1, <2>2
<1>12. Past'
  <2>1. \A k \in DOMAIN handled : k \in 1 .. Len(sent)
    BY <1>3 DEF Reader, Past
  <2>2. \A k \in DOMAIN handled : handled[k] = Image(k, sent'[k])
    BY <1>3, <2>1 DEF Reader, Past
  <2>3. (\E k \in DOMAIN sent : Len(Bytes(k, sent[k])) > BufSize + 1) =>
          \E k \in DOMAIN sent' : Len(Bytes(k, sent'[k])) > BufSize + 1
    BY <1>3
  <2>4. Len(handled) <= Len(sent')
    BY <1>3 DEF Reader, Past
  <2>5. QED
    BY <1>1, <2>2, <2>3, <2>4 DEF Reader, Past
<1>13. QED
  BY <1>8, <1>9, <1>10, <1>11, <1>12 DEF Reader

LEMMA ReaderStep ==
  ASSUME StreamTypes, Control, Reader, [StreamNext]_streamVars
  PROVE  Reader'
<1>1. CASE UNCHANGED streamVars
  BY <1>1, ReaderKept DEF streamVars, reader, broker
<1>2. CASE ReadEnds
  BY <1>2, ReaderLost DEF ReadEnds
<1>3. ASSUME NEW n \in 0 .. Len(incoming), ReadHeader(n) PROVE Reader'
  BY <1>3, ReaderHeader
<1>4. ASSUME NEW n \in 0 .. Len(incoming), ReadAstray(n) PROVE Reader'
  BY <1>4, ReaderLost DEF ReadAstray, Take, reader
<1>5. ASSUME NEW n \in 0 .. Len(incoming), ReadDigit(n) \/ ReadRest(n) \/ ReadDrop(n),
             ~ReadEnds
      PROVE  Reader'
  BY <1>5, ReaderDigit, ReaderRest, ReaderDrop
<1>6. CASE Handle
  BY <1>6, ReaderHandle
<1>7. CASE Deliver
  BY <1>7, ReaderKept DEF Deliver, broker
<1>8. CASE Ack
  BY <1>8, ReaderKept DEF Ack, broker
<1>9. CASE CloseSocket
  BY <1>9, ReaderKept DEF CloseSocket, broker, reader
<1>10. CASE NewConnection
  BY <1>10, ReaderConnects
<1>11. ASSUME NEW success \in BOOLEAN, sending # Nothing, Return(success) PROVE Reader'
  <2>1. /\ stage' = IF sending.kind = "report" THEN "ack" ELSE "top"
        /\ state' = state \/ state' = "disconnected"
        /\ UNCHANGED <<broker, value, multiplier, len, buf_read, handled, astray>>
    BY <1>11 DEF Return
  <2>2. sending.kind \in {"request", "report", "puback"}
    BY <1>11, SendingIs DEF Kinds
  <2>3. {stage, stage'} \subseteq {"top", "deliver", "ack"}
    BY <2>1, <2>2 DEF Control
  <2>4. QED
    BY <2>1, <2>3, ReaderKept DEF broker
<1>12. CASE Returns
  BY <1>11, <1>12 DEF Returns
<1>13. CASE WriteEnds
  BY <1>11, <1>13 DEF WriteEnds
<1>14. ASSUME NEW n \in 1 .. sending.size, Writes(n) PROVE Reader'
  BY <1>14, ReaderKept DEF Writes, broker, reader
<1>15. ASSUME NEW size \in Sizes, Request(size) PROVE Reader'
  BY <1>15, ReaderKept DEF Request, broker, reader
<1>16. ASSUME NEW p \in Packets, BrokerSends(p) PROVE Reader'
  BY <1>16, ReaderBroker
<1>17. QED
  BY Steps, <1>1, <1>2, <1>3, <1>4, <1>5, <1>6, <1>7, <1>8, <1>9, <1>10, <1>12, <1>13, <1>14,
     <1>15, <1>16

-----------------------------------------------------------------------------
(* The theorems                                                            *)

LEMMA StreamStarts == StreamInit => StreamInv
<1> SUFFICES ASSUME StreamInit PROVE StreamInv
  OBVIOUS
<1>1. /\ state = "closed" /\ incoming = <<>> /\ sent = <<>> /\ stage = "top" /\ value = 0
      /\ multiplier = 1 /\ len = 0 /\ buf_read = <<>> /\ handled = <<>> /\ astray = FALSE
      /\ sending = Nothing /\ outgoing = <<>> /\ reported = <<>> /\ broken = "none"
      /\ behind = {} /\ begun = 0 /\ conns = 0
  BY DEF StreamInit
<1>2. Nothing.kind = "none" /\ Nothing.sent = 0 /\ Nothing.size = 0 /\ Nothing.no = 0
  BY DEF Nothing
<1>3. /\ <<>> \in Seq(Packets) /\ Len(<<>>) = 0 /\ <<>> \in Seq(Seq(AByte))
      /\ DOMAIN <<>> = {} /\ <<>> \o <<>> = <<>>
  OBVIOUS
<1>4. StreamTypes
  <2>1. sent \in Seq(Packets) /\ Len(sent) <= MaxDown /\ len \in 0 .. MaxDigits
    BY <1>1, <1>3, BoundsAre
  <2>2. behind \subseteq Kinds /\ astray \in BOOLEAN
    BY <1>1
  <2>3. begun \in 0 .. MaxUp /\ conns \in 0 .. MaxConns
    BY <1>1, BoundsAre
  <2>4. sending.sent <= 2 * sending.size
    BY <1>1, <1>2
  <2>5. QED
    BY <1>1, <2>1, <2>2, <2>3, <2>4 DEF StreamTypes
<1>5. Control
  BY <1>1, <1>2 DEF Control
<1>6. Writer
  <2>1. FlatUp = <<>> /\ <<>> \in Seq(Report)
    BY <1>1, UpIs, UpStart
  <2>2. Written(sending.no, sending.sent) = <<>>
    BY <1>1, <1>2, WrittenNothing
  <2>3. QED
    BY <1>1, <1>3, <2>1, <2>2 DEF Writer, Report
<1>7. Reader
  BY <1>1, <1>3, BoundsAre DEF Reader, AtTop, AtLength, InBody, AtHandle, Past
<1>8. QED
  BY <1>4, <1>5, <1>6, <1>7 DEF StreamInv

LEMMA StreamInvariant == StreamSpec => []StreamInv
<1>1. StreamInit => StreamInv
  BY StreamStarts
<1>2. StreamInv /\ [StreamNext]_streamVars => StreamInv'
  BY TypesAndControl, WriterStep, ReaderStep DEF StreamInv
<1>3. QED
  BY <1>1, <1>2, PTL DEF StreamSpec

LEMMA StreamTypesGood == StreamInv => StreamTypeOK
<1> SUFFICES ASSUME StreamInv PROVE StreamTypeOK
  OBVIOUS
<1>1. StreamTypes /\ Reader
  BY DEF StreamInv
<1>2. sending = Nothing \/ /\ sending.kind \in Kinds /\ sending.size \in Sizes
                           /\ sending.no \in 1 .. MaxUp
                           /\ sending.sent \in 0 .. 2 * sending.size
  <2>1. ASSUME sending # Nothing PROVE sending.sent \in 0 .. 2 * sending.size
    <3>1. sending.sent \in Nat /\ sending.size \in Nat /\ sending.sent <= 2 * sending.size
      BY <1>1, <2>1, SendingIs DEF StreamTypes
    <3>2. QED
      BY <3>1
  <2>2. QED
    BY <1>1, <2>1, SendingIs
<1>3. QED
  BY <1>1, <1>2 DEF StreamTypes, Reader, Past, StreamTypeOK

\* Type correctness of the two streams: the buffer iotx_mc_read_packet fills never holds
\* more than buf_size_read bytes, for packets, buffers and digits of any size.
THEOREM StreamTypeCorrect == StreamSpec => []StreamTypeOK
BY StreamInvariant, StreamTypesGood, PTL

\* Wherever the network cuts the stream, iotx_mc_read_packet hands on the packets the
\* broker sent, in order and each with its own bytes, and a connected client waits at
\* the first byte of the next, until a packet is more than a byte longer than the buffer.
THEOREM PacketsStayWhole == StreamSpec => []PacketsWhole
<1>1. StreamInv => PacketsWhole
  <2> SUFFICES ASSUME StreamInv PROVE PacketsWhole
    OBVIOUS
  <2>1. StreamTypeOK
    BY StreamTypesGood
  <2>2. FlatDown(Len(handled) + 1) = Flat(sent, Current)
    BY DEF FlatDown, Flat, Parts, Current
  <2>3. stage = "top" /\ state = "connected" /\ ~astray => incoming = FlatDown(Len(handled) + 1)
    BY <2>2 DEF StreamInv, Reader, AtTop
  <2>4. QED
    BY <2>1, <2>3 DEF StreamInv, Reader, Past, PacketsWhole
<1>2. QED
  BY <1>1, StreamInvariant, PTL

\* What iotx_mc_send_packet reports as sent is what the broker got, whole, once and in
\* order; behind a request or a report written in part the connection ends, and only a
\* PUBACK may still follow.
THEOREM SentStaysWhole == StreamSpec => []SentWhole
<1>1. StreamInv => SentWhole
  <2> SUFFICES ASSUME StreamInv PROVE SentWhole
    OBVIOUS
  <2>1. Writer /\ StreamTypes
    BY DEF StreamInv
  <2>2. ASSUME broken = "none", sending = Nothing PROVE outgoing = FlatUp
    <3>1. Written(sending.no, sending.sent) = <<>>
      BY <2>2, WrittenNothing DEF Nothing
    <3>2. FlatUp \in Seq(UpByte)
      <4>1. 0 \in Nat
        OBVIOUS
      <4>2. Up(reported) \in Seq(UpByte)
        BY <2>1, <4>1, UpAppend DEF Writer, Report
      <4>3. QED
        BY <4>2, UpIs
    <3>3. FlatUp \o <<>> = FlatUp
      BY <3>2
    <3>4. QED
      BY <2>1, <2>2, <3>1, <3>3 DEF Writer
  <2>3. QED
    BY <2>1, <2>2 DEF Writer, SentWhole
<1>2. QED
  BY <1>1, StreamInvariant, PTL
=============================================================================
