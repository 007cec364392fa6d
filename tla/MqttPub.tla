------------------------------ MODULE MqttPub ------------------------------
(***************************************************************************)
(* QoS 1 publications of the MQTT client (mqtt_client.c): tcp_mqtt_report  *)
(* publishes a learned code from inside the handler of a command, the node *)
(* waits in pub_to_ack for its PUBACK, and MQTTPubInfoProc sends it again  *)
(* when that is late, on this connection or on a later one.                *)
(*                                                                         *)
(* The connection is the one of MqttConn seen from here: CONNECTED, lost   *)
(* and not yet closed (DISCONNECTED), or closed and waiting to reconnect.  *)
(* A report is a number: the n-th one the application makes.               *)
(*                                                                         *)
(* A report carries the 232 bytes of a learned code, and with its header   *)
(* and topic it is always longer than the 256 bytes of a node's buf: what  *)
(* does not fit is written behind the node while it is still on the stack  *)
(* (iotx_mc_push_pubInfo_to), which may restart the device, and a copy out *)
(* of the list ends in whatever lies behind it.                            *)
(***************************************************************************)
EXTENDS Naturals, Sequences, Lists

CONSTANTS
  PubMax,       \* IOTX_MC_REPUB_NUM_MAX: nodes of pub_to_ack (20)
  PacketIdMax,  \* IOTX_MC_PACKET_ID_MAX (65535)
  MaxReports,   \* bound: reports the application makes
  QueueMax,     \* bound: packets the send window takes before send() blocks
  MaxFaults     \* bound: how often the connection is lost

ASSUME MqttPubAssumption ==
  /\ PubMax \in Nat \ {0}
  /\ MaxReports \in Nat
  /\ PacketIdMax \in Nat /\ PacketIdMax > 0
  /\ QueueMax \in Nat /\ QueueMax >= PubMax
  /\ MaxFaults \in Nat

Reports == 1 .. MaxReports

VARIABLES
  pc,            \* next call of IOT_MQTT_Yield's loop
  client_state,
  pub_to_ack,    \* publications waiting for their PUBACK
  packet_id,
  link,          \* the TCP connection: "none", "up" or "dead"
  up, down,      \* packets to and from the broker
  made,          \* reports made so far
  got, whole,    \* reports the broker has read, and those it has read to their end
  lost,          \* history: reports whose first copy the broker cannot read any more
  forgotten,     \* history: reports that waited when the device restarted
  faults         \* history: how often the connection was lost

vars == <<pc, client_state, pub_to_ack, packet_id, link, up, down, made, got, whole, lost,
          forgotten, faults>>
net == <<link, up, down>>
read == <<got, whole>>
history == <<lost, forgotten, faults>>

Node == [id : 1 .. PacketIdMax, msg : Reports, state : {"NORMAL", "INVALID"}, late : BOOLEAN]

TypeOK ==
  /\ pc \in {"keepalive", "cycle", "proc"}
  /\ client_state \in {"CONNECTED", "DISCONNECTED", "DISCONNECTED_RECONNECTING"}
  /\ pub_to_ack \in Seq(Node) /\ Len(pub_to_ack) <= PubMax
  /\ packet_id \in 0 .. PacketIdMax
  /\ link \in {"none", "up", "dead"}
  /\ up \in Seq([id : 1 .. PacketIdMax, msg : Reports, whole : BOOLEAN])
  /\ Len(up) <= QueueMax
  /\ down \in Seq(1 .. PacketIdMax)
  /\ made \in 0 .. MaxReports
  /\ got \in SUBSET Reports /\ whole \in SUBSET Reports
  /\ lost \in SUBSET Reports /\ forgotten \in SUBSET Reports
  /\ faults \in 0 .. MaxFaults

Init ==
  /\ pc = "keepalive"
  /\ client_state = "CONNECTED"
  /\ pub_to_ack = <<>>
  /\ packet_id = 0
  /\ link = "up"
  /\ up = <<>> /\ down = <<>>
  /\ made = 0
  /\ got = {} /\ whole = {}
  /\ lost = {} /\ forgotten = {}
  /\ faults = 0

IsNormal(n) == n.state = "NORMAL"

Waiting == {n \in {pub_to_ack[i] : i \in DOMAIN pub_to_ack} : n.state = "NORMAL"}
Owed == {n.msg : n \in Waiting}

\* What is lost with the packets on their way to the broker.
FirstCopies == {up[i].msg : i \in {k \in DOMAIN up : up[k].whole}}

-----------------------------------------------------------------------------
(* iotx_mc_keepalive, as far as it changes the connection                  *)

KeepaliveIdle ==
  /\ pc = "keepalive"
  /\ client_state \in {"CONNECTED", "DISCONNECTED_RECONNECTING"}
  /\ pc' = "cycle"
  /\ UNCHANGED <<client_state, pub_to_ack, packet_id, net, made, read, history>>

\* The state is DISCONNECTED, or the ping finds the connection dead.
CloseDown ==
  /\ pc = "keepalive"
  /\ client_state = "DISCONNECTED" \/ (client_state = "CONNECTED" /\ link = "dead")
  /\ client_state' = "DISCONNECTED_RECONNECTING"
  /\ link' = "none" /\ up' = <<>> /\ down' = <<>>
  /\ lost' = lost \cup FirstCopies
  /\ pc' = "cycle"
  /\ UNCHANGED <<pub_to_ack, packet_id, made, read, forgotten, faults>>

\* The list survives: nothing is sent for it until a node is late.
Reconnect ==
  /\ pc = "keepalive"
  /\ client_state = "DISCONNECTED_RECONNECTING"
  /\ client_state' = "CONNECTED"
  /\ link' = "up"
  /\ pc' = "cycle"
  /\ UNCHANGED <<pub_to_ack, packet_id, up, down, made, read, history>>

-----------------------------------------------------------------------------
(* iotx_mc_cycle                                                           *)

CycleNotConnected ==
  /\ pc = "cycle"
  /\ client_state # "CONNECTED"
  /\ pc' = "keepalive"
  /\ UNCHANGED <<client_state, pub_to_ack, packet_id, net, made, read, history>>

\* The unanswered pings of a dead connection may exceed their maximum here; the
\* cycle goes on in state DISCONNECTED.
AfterProbeCheck == {"CONNECTED"} \cup (IF link = "dead" THEN {"DISCONNECTED"} ELSE {})

CycleTimeout ==
  /\ pc = "cycle"
  /\ client_state = "CONNECTED"
  /\ down = <<>>
  /\ client_state' \in AfterProbeCheck
  /\ pc' = "proc"
  /\ UNCHANGED <<pub_to_ack, packet_id, net, made, read, history>>

\* A packet of which only a part can be read ends the connection, and the loop
\* before the list is looked at.
CycleReadError ==
  /\ pc = "cycle"
  /\ client_state = "CONNECTED"
  /\ down # <<>>
  /\ IF link = "up" THEN faults < MaxFaults /\ faults' = faults + 1 ELSE UNCHANGED faults
  /\ client_state' = "DISCONNECTED"
  /\ down' = <<>>
  /\ pc' = "keepalive"
  /\ UNCHANGED <<pub_to_ack, packet_id, link, up, made, read, lost, forgotten>>

\* iotx_mc_mask_pubInfo_from: the first node with this id becomes INVALID.
IsFirst(list, id, i) == list[i].id = id /\ \A j \in 1 .. i - 1 : list[j].id # id

\* Seeded bug: a PUBACK is taken for everything that waits.
MaskAll(list, id) == [i \in DOMAIN list |-> [list[i] EXCEPT !.state = "INVALID"]]

Mask(list, id) ==
  [i \in DOMAIN list |->
     IF IsFirst(list, id, i) THEN [list[i] EXCEPT !.state = "INVALID"] ELSE list[i]]

RecvPuback ==
  /\ pc = "cycle"
  /\ client_state = "CONNECTED"
  /\ down # <<>>
  /\ client_state' \in AfterProbeCheck
  /\ pub_to_ack' = Mask(pub_to_ack, Head(down))
  /\ down' = Tail(down)
  /\ pc' = "proc"
  /\ UNCHANGED <<packet_id, link, up, made, read, history>>

-----------------------------------------------------------------------------
(* A "learn" command: its handler reports the code with iotx_mc_publish,   *)
(* whose result tcp_mqtt_report ignores; then the command is acknowledged, *)
(* and the loop ends when that fails.                                      *)

Full == Len(pub_to_ack) >= PubMax

\* Seeded bug: ids are counted by the list.
IdByPlace == Len(pub_to_ack) + 1

NextPacketId == IF packet_id = PacketIdMax THEN 1 ELSE packet_id + 1

Learned ==
  /\ pc = "cycle"
  /\ client_state = "CONNECTED"
  /\ made < MaxReports
  /\ made' = made + 1

Handler ==
  /\ Learned
  /\ pc' \in {"proc"} \cup (IF link = "dead" THEN {"keepalive"} ELSE {})
  /\ UNCHANGED <<link, down, read, forgotten, faults>>

\* The probe check just disconnected: MQTT_STATE_ERROR, the report is lost.
ReportInBadState ==
  /\ Handler
  /\ link = "dead"
  /\ client_state' = "DISCONNECTED"
  /\ UNCHANGED <<pub_to_ack, packet_id, up, lost>>

\* MQTT_PUSH_TO_LIST_ERROR: the report is lost, its packet id used up.
ReportListFull ==
  /\ Handler
  /\ Full
  /\ packet_id' = NextPacketId
  /\ UNCHANGED <<client_state, pub_to_ack, up, lost>>

\* Seeded bug: the first copy, too, is sent out of the list.
OutOfTheList(id, msg) == [id |-> id, msg |-> msg, whole |-> FALSE]

\* The first copy is sent out of buf_send, which holds all of it.
FirstCopy(id, msg) == [id |-> id, msg |-> msg, whole |-> TRUE]

Report ==
  /\ Handler
  /\ ~Full
  /\ Len(up) < QueueMax
  /\ packet_id' = NextPacketId
  /\ pub_to_ack' = Append(pub_to_ack,
                          [id |-> packet_id', msg |-> made', state |-> "NORMAL", late |-> FALSE])
  /\ IF link = "up"
     THEN up' = Append(up, FirstCopy(packet_id', made')) /\ UNCHANGED lost
     ELSE lost' = lost \cup {made'} /\ UNCHANGED up
  /\ UNCHANGED client_state

\* The node is pushed before the write and taken off when the write fails.
ReportWriteFailed ==
  /\ Handler
  /\ ~Full
  /\ link = "dead"
  /\ packet_id' = NextPacketId
  /\ client_state' = "DISCONNECTED"
  /\ UNCHANGED <<pub_to_ack, up, lost>>

\* What the report wrote behind the node is its caller's: the return panics, whether
\* or not the list had room.  The device starts again and connects.
ReportRestarts ==
  /\ Learned
  /\ forgotten' = forgotten \cup Owed
  /\ lost' = lost \cup FirstCopies
  /\ pc' = "keepalive" /\ pub_to_ack' = <<>> /\ packet_id' = 0
  /\ link' = "up" /\ up' = <<>> /\ down' = <<>>
  /\ UNCHANGED <<client_state, read, faults>>

-----------------------------------------------------------------------------
(* MQTTPubInfoProc: late nodes are sent again, then INVALID ones removed.  *)
(* pub_start_time is renewed in a copy only: a late node stays late.       *)

\* Seeded bug: nothing is sent again.
NothingLate == <<>>

ToRepublish ==
  Kept(pub_to_ack, {i \in DOMAIN pub_to_ack : IsNormal(pub_to_ack[i]) /\ pub_to_ack[i].late})

\* The end of a copy is what lies behind the 256 bytes of its node.
Copies(list) ==
  [i \in DOMAIN list |-> [id |-> list[i].id, msg |-> list[i].msg, whole |-> FALSE]]

\* list_remove of every node that is not NORMAL.
Cleaned == Kept(pub_to_ack, {i \in DOMAIN pub_to_ack : IsNormal(pub_to_ack[i])})

RepublishesFirst == IsNormal(pub_to_ack[1]) /\ pub_to_ack[1].late

\* The walk ends at the node that could not be written; when that is the first one,
\* nothing is removed.
RepublishFails ==
  /\ client_state' = "DISCONNECTED"
  /\ \/ RepublishesFirst /\ UNCHANGED pub_to_ack
     \/ (Len(ToRepublish) > 1 \/ ~RepublishesFirst) /\ pub_to_ack' = Cleaned

PubInfoProc ==
  /\ pc = "proc"
  /\ IF client_state = "CONNECTED" /\ ToRepublish # <<>>
     THEN IF link = "up"
          THEN /\ Len(up) + Len(ToRepublish) <= QueueMax
               /\ up' = up \o Copies(ToRepublish)
               /\ pub_to_ack' = Cleaned
               /\ UNCHANGED client_state
          ELSE /\ (pub_to_ack' = Cleaned /\ UNCHANGED client_state) \/ RepublishFails
               /\ UNCHANGED up
     ELSE pub_to_ack' = Cleaned /\ UNCHANGED <<client_state, up>>
  /\ pc' = "keepalive"
  /\ UNCHANGED <<packet_id, link, down, made, read, history>>

-----------------------------------------------------------------------------
(* Time, the network and the broker                                        *)

\* Twice request_timeout_ms has gone by since the oldest fresh node was sent.
RequestsTimeOut ==
  /\ \E i \in DOMAIN pub_to_ack : ~pub_to_ack[i].late
  /\ LET i == CHOOSE k \in DOMAIN pub_to_ack :
                 ~pub_to_ack[k].late /\ \A j \in 1 .. k - 1 : pub_to_ack[j].late
     IN  pub_to_ack' = [pub_to_ack EXCEPT ![i].late = TRUE]
  /\ UNCHANGED <<pc, client_state, packet_id, net, made, read, history>>

LinkDies ==
  /\ link = "up"
  /\ faults < MaxFaults
  /\ faults' = faults + 1
  /\ link' = "dead"
  /\ up' = <<>> /\ lost' = lost \cup FirstCopies
  /\ down' \in {down, <<>>}
  /\ UNCHANGED <<pc, client_state, pub_to_ack, packet_id, made, read, forgotten>>

BrokerReceives ==
  /\ link = "up" /\ up # <<>>
  /\ up' = Tail(up)
  /\ got' = got \cup {Head(up).msg}
  /\ whole' = IF Head(up).whole THEN whole \cup {Head(up).msg} ELSE whole
  /\ down' = Append(down, Head(up).id)
  /\ UNCHANGED <<pc, client_state, pub_to_ack, packet_id, link, made, history>>

-----------------------------------------------------------------------------
Command ==
  ReportInBadState \/ ReportListFull \/ Report \/ ReportWriteFailed \/ ReportRestarts

Task ==
  \/ KeepaliveIdle \/ CloseDown \/ Reconnect
  \/ CycleNotConnected \/ CycleTimeout \/ CycleReadError \/ RecvPuback
  \/ PubInfoProc

Next == Task \/ Command \/ RequestsTimeOut \/ LinkDies \/ BrokerReceives

Spec == Init /\ [][Next]_vars

\* vTaskMQTT runs; a closed connection is tried again and a dead one noticed
\* (MqttConn: Recovers, DeadLinkNoticed); time passes; the broker reads.
Fairness ==
  /\ WF_vars(Task)
  /\ SF_vars(Reconnect) /\ SF_vars(CloseDown)
  /\ WF_vars(RequestsTimeOut) /\ WF_vars(BrokerReceives)

FairSpec == Spec /\ Fairness

-----------------------------------------------------------------------------
(* Properties                                                              *)

\* A PUBACK under way never names a waiting report that the broker has not read:
\* packet ids are matched to nodes without looking at the connection they were
\* used on, and an id that a full list or a failed write used up is not used again
\* (ids must not wrap while a node or its PUBACK waits).
AcksAreTrue ==
  /\ TypeOK
  /\ \A k \in DOMAIN down : \A i \in DOMAIN pub_to_ack :
       pub_to_ack[i].id = down[k] => pub_to_ack[i].msg \in got

\* An accepted report is kept until the broker has read a copy of it, whatever is lost
\* on the way and however often the connection breaks, as long as the device runs:
\* pub_to_ack implements at-least-once delivery, of one copy or another (packet ids
\* must not wrap while a node waits).
Promise == INSTANCE AtLeastOnce WITH owed <- Owed, got <- got
KeepsPromise == Promise!Spec

\* The broker has read the code as it was learned unless the first copy was lost with
\* its connection: a copy from the list, which ends in other bytes, never comes first.
CutAfterLoss == got \subseteq whole \cup lost

\* Every accepted report leaves the list: the broker has read a copy, or the device
\* restarted while it waited.
ReportsArrive == \A m \in Reports : m \in Owed ~> m \notin Owed /\ m \in got \cup forgotten
=============================================================================
