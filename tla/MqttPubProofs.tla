---------------------------- MODULE MqttPubProofs ----------------------------
(***************************************************************************)
(* Publishing keeps its promise for any number of reports, nodes and       *)
(* faults, while packet ids do not wrap.                                   *)
(***************************************************************************)
EXTENDS MqttPub, ListsProofs, SequenceTheorems

\* As many ids as there are reports: none is used twice.
NoWrap == MaxReports <= PacketIdMax

-----------------------------------------------------------------------------
(* Types, by the variables they are about                                  *)

Packet == [id : 1 .. PacketIdMax, msg : Reports, whole : BOOLEAN]

ListType == pub_to_ack \in Seq(Node) /\ Len(pub_to_ack) <= PubMax
UpType == up \in Seq(Packet) /\ Len(up) <= QueueMax
DownType == down \in Seq(1 .. PacketIdMax)
RestType ==
  /\ pc \in {"keepalive", "cycle", "proc"}
  /\ client_state \in {"CONNECTED", "DISCONNECTED", "DISCONNECTED_RECONNECTING"}
  /\ packet_id \in 0 .. PacketIdMax
  /\ link \in {"none", "up", "dead"}
  /\ made \in 0 .. MaxReports
  /\ got \in SUBSET Reports /\ whole \in SUBSET Reports
  /\ lost \in SUBSET Reports /\ forgotten \in SUBSET Reports
  /\ faults \in 0 .. MaxFaults

LEMMA TypeParts == TypeOK <=> ListType /\ UpType /\ DownType /\ RestType
BY DEF TypeOK, ListType, UpType, DownType, RestType, Packet

LEMMA NextIdType ==
  ASSUME packet_id \in 0 .. PacketIdMax
  PROVE  NextPacketId \in 1 .. PacketIdMax
BY MqttPubAssumption DEF NextPacketId

LEMMA MaskType ==
  ASSUME NEW list \in Seq(Node), NEW id
  PROVE  Mask(list, id) \in Seq(Node) /\ Len(Mask(list, id)) = Len(list)
<1>1. ASSUME NEW i \in DOMAIN list PROVE Mask(list, id)[i] \in Node
  <2>1. list[i] \in Node
    OBVIOUS
  <2>2. [list[i] EXCEPT !.state = "INVALID"] \in Node
    BY <2>1 DEF Node
  <2>3. Mask(list, id)[i] = [list[i] EXCEPT !.state = "INVALID"] \/ Mask(list, id)[i] = list[i]
    BY Zenon DEF Mask
  <2>4. QED
    BY <2>1, <2>2, <2>3
<1>2. /\ DOMAIN list = 1 .. Len(list) /\ Len(list) \in Nat
      /\ Mask(list, id) = [i \in 1 .. Len(list) |-> Mask(list, id)[i]]
  BY DEF Mask
<1>3. QED
  BY <1>1, <1>2, IsASeq

LEMMA CopiesType ==
  ASSUME NEW list \in Seq(Node)
  PROVE  Copies(list) \in Seq(Packet) /\ Len(Copies(list)) = Len(list)
<1>1. ASSUME NEW i \in DOMAIN list PROVE Copies(list)[i] \in Packet
  <2>1. list[i] \in Node
    OBVIOUS
  <2>2. list[i].id \in 1 .. PacketIdMax /\ list[i].msg \in Reports
    BY <2>1, Zenon DEF Node
  <2>3. Copies(list)[i] = [id |-> list[i].id, msg |-> list[i].msg, whole |-> FALSE]
    BY DEF Copies
  <2>4. QED
    BY <2>2, <2>3 DEF Packet
<1>2. /\ DOMAIN list = 1 .. Len(list) /\ Len(list) \in Nat
      /\ Copies(list) = [i \in 1 .. Len(list) |-> Copies(list)[i]]
  BY DEF Copies
<1>3. QED
  BY <1>1, <1>2, IsASeq

LEMMA KeptType ==
  ASSUME NEW keep, ListType
  PROVE  Kept(pub_to_ack, keep) \in Seq(Node) /\ Len(Kept(pub_to_ack, keep)) <= PubMax
<1>1. /\ pub_to_ack \in Seq(Node) /\ Len(pub_to_ack) <= PubMax
      /\ Len(pub_to_ack) \in Nat /\ PubMax \in Nat
  BY MqttPubAssumption DEF ListType
<1>2. Kept(pub_to_ack, keep) \in Seq(Node) /\ Len(Kept(pub_to_ack, keep)) <= Len(pub_to_ack)
  BY <1>1, KeptNodes
<1>3. Len(Kept(pub_to_ack, keep)) \in Nat
  BY <1>2
<1>4. QED
  BY <1>1, <1>2, <1>3

LEMMA FirstCopiesType ==
  ASSUME UpType
  PROVE  FirstCopies \in SUBSET Reports
<1>1. \A i \in DOMAIN up : up[i] \in Packet
  BY DEF UpType
<1>2. \A i \in DOMAIN up : up[i].msg \in Reports
  BY <1>1, Zenon DEF Packet
<1>3. QED
  BY <1>2 DEF FirstCopies

LEMMA OwedType ==
  ASSUME ListType
  PROVE  Owed \in SUBSET Reports
<1>1. \A i \in DOMAIN pub_to_ack : pub_to_ack[i] \in Node
  BY DEF ListType
<1>2. \A i \in DOMAIN pub_to_ack : pub_to_ack[i].msg \in Reports
  BY <1>1, Zenon DEF Node
<1>3. QED
  BY <1>2 DEF Owed, Waiting

\* The oldest fresh node is one of the list.
LEMMA TimedOutNode ==
  ASSUME ListType, RequestsTimeOut
  PROVE  \E i \in DOMAIN pub_to_ack :
           pub_to_ack' = [pub_to_ack EXCEPT ![i].late = TRUE]
<1> DEFINE F(k) == ~pub_to_ack[k].late /\ \A j \in 1 .. k - 1 : pub_to_ack[j].late
<1>1. \E k \in DOMAIN pub_to_ack : F(k)
  <2> DEFINE T == {k \in DOMAIN pub_to_ack : ~pub_to_ack[k].late}
  <2>1. DOMAIN pub_to_ack = 1 .. Len(pub_to_ack) /\ Len(pub_to_ack) \in Nat
    BY DEF ListType
  <2>2. T \in SUBSET Nat /\ T # {}
    BY <2>1 DEF RequestsTimeOut
  <2>3. PICK k \in T : \A m \in T : k <= m
    BY <2>2, Least
  <2>4. \A j \in 1 .. k - 1 : j \in DOMAIN pub_to_ack /\ j \notin T
    <3>1. SUFFICES ASSUME NEW j \in 1 .. k - 1
                   PROVE  j \in DOMAIN pub_to_ack /\ j \notin T
      OBVIOUS
    <3>2. k \in 1 .. Len(pub_to_ack)
      BY <2>1
    <3>3. j \in 1 .. Len(pub_to_ack) /\ ~(k <= j)
      BY <2>1, <3>2
    <3>4. QED
      BY <2>1, <2>3, <3>3
  <2>5. QED
    BY <2>3, <2>4
<1>2. (CHOOSE k \in DOMAIN pub_to_ack : F(k)) \in DOMAIN pub_to_ack
  BY <1>1
<1>3. pub_to_ack' = [pub_to_ack EXCEPT ![CHOOSE k \in DOMAIN pub_to_ack : F(k)].late = TRUE]
  BY DEF RequestsTimeOut
<1>4. QED
  BY <1>2, <1>3

LEMMA LateType ==
  ASSUME ListType, RequestsTimeOut
  PROVE  ListType'
<1>1. PICK i \in DOMAIN pub_to_ack : pub_to_ack' = [pub_to_ack EXCEPT ![i].late = TRUE]
  BY TimedOutNode
<1>2. pub_to_ack[i] \in Node
  BY DEF ListType
<1>3. [pub_to_ack[i] EXCEPT !.late = TRUE] \in Node
  BY <1>2, Zenon DEF Node
<1>4. /\ pub_to_ack' = [pub_to_ack EXCEPT ![i] = [pub_to_ack[i] EXCEPT !.late = TRUE]]
      /\ i \in 1 .. Len(pub_to_ack)
  BY <1>1 DEF ListType
<1> SUFFICES ASSUME NEW e \in Node, pub_to_ack' = [pub_to_ack EXCEPT ![i] = e]
             PROVE  ListType'
  BY <1>3, <1>4
<1>5. QED
  BY <1>4, ExceptSeq DEF ListType

LEMMA ReportType ==
  ASSUME ListType, UpType, RestType, Report
  PROVE  ListType' /\ UpType' /\ RestType'
<1>1. /\ made < MaxReports /\ made' = made + 1 /\ made \in 0 .. MaxReports /\ MaxReports \in Nat
      /\ packet_id' = NextPacketId /\ packet_id \in 0 .. PacketIdMax
  BY MqttPubAssumption DEF Report, Handler, Learned, RestType
<1>2. made' \in 0 .. MaxReports /\ made' \in Reports /\ packet_id' \in 1 .. PacketIdMax
  BY <1>1, NextIdType DEF Reports
<1>3. ListType'
  <2>1. [id |-> packet_id', msg |-> made', state |-> "NORMAL", late |-> FALSE] \in Node
    BY <1>2, Zenon DEF Node
  <2>2. SUFFICES ASSUME NEW e \in Node, pub_to_ack' = Append(pub_to_ack, e)
                 PROVE  ListType'
    BY <2>1 DEF Report
  <2>3. Len(pub_to_ack) < PubMax
    BY MqttPubAssumption DEF Report, Full, ListType
  <2>4. QED
    BY <2>2, <2>3, MqttPubAssumption DEF ListType
<1>4. UpType'
  <2>1. FirstCopy(packet_id', made') \in Packet
    BY <1>2 DEF Packet, FirstCopy
  <2>2. SUFFICES ASSUME NEW e \in Packet, up' = Append(up, e) \/ up' = up
                 PROVE  UpType'
    BY <2>1 DEF Report
  <2>3. Len(up) < QueueMax
    BY DEF Report
  <2>4. QED
    BY <2>2, <2>3, MqttPubAssumption DEF UpType
<1>5. RestType'
  <2>1. lost' \in SUBSET Reports
    BY <1>2 DEF Report, RestType
  <2>2. /\ pc' \in {"proc", "keepalive"} /\ packet_id' \in 0 .. PacketIdMax
        /\ UNCHANGED <<client_state, link, got, whole, forgotten, faults>>
    BY <1>2, MqttPubAssumption DEF Report, Handler, read
  <2>3. QED
    BY <1>2, <2>1, <2>2 DEF RestType
<1>6. QED
  BY <1>3, <1>4, <1>5

LEMMA ProcType ==
  ASSUME ListType, UpType, RestType, PubInfoProc
  PROVE  ListType' /\ UpType' /\ RestType'
<1>1. ListType'
  <2>1. pub_to_ack' \in {Cleaned, pub_to_ack}
    BY DEF PubInfoProc, RepublishFails
  <2>2. QED
    BY <2>1, KeptType DEF Cleaned, ListType
<1>2. UpType'
  <2>1. ToRepublish \in Seq(Node)
    BY KeptType DEF ToRepublish
  <2>2. Copies(ToRepublish) \in Seq(Packet) /\ Len(Copies(ToRepublish)) = Len(ToRepublish)
    BY <2>1, CopiesType
  <2>3. CASE UNCHANGED up
    BY <2>3 DEF UpType
  <2>4. CASE /\ up' = up \o Copies(ToRepublish)
             /\ Len(up) + Len(ToRepublish) <= QueueMax
    <3>1. SUFFICES ASSUME NEW t \in Seq(Packet), up' = up \o t, Len(up) + Len(t) <= QueueMax
                   PROVE  UpType'
      BY <2>2, <2>4
    <3>2. up \o t \in Seq(Packet) /\ Len(up \o t) = Len(up) + Len(t)
      BY ConcatProperties DEF UpType
    <3>3. QED
      BY <3>1, <3>2 DEF UpType
  <2>5. QED
    BY <2>3, <2>4 DEF PubInfoProc
<1>3. RestType'
  BY DEF PubInfoProc, RepublishFails, history, read, RestType
<1>4. QED
  BY <1>1, <1>2, <1>3

\* The other actions: the list only through Mask, queues shortened or emptied.
LEMMA QueueType ==
  ASSUME UpType, DownType
  PROVE  /\ up # <<>> => /\ Tail(up) \in Seq(Packet) /\ Len(Tail(up)) <= QueueMax
                         /\ Head(up) \in Packet /\ Head(up).id \in 1 .. PacketIdMax
                         /\ Head(up).msg \in Reports
         /\ down # <<>> => Tail(down) \in Seq(1 .. PacketIdMax)
         /\ <<>> \in Seq(Packet) /\ Len(<<>>) <= QueueMax /\ <<>> \in Seq(1 .. PacketIdMax)
<1>1. /\ up \in Seq(Packet) /\ Len(up) <= QueueMax /\ down \in Seq(1 .. PacketIdMax)
      /\ QueueMax \in Nat
  BY MqttPubAssumption DEF UpType, DownType
<1>2. ASSUME up # <<>>
      PROVE  /\ Tail(up) \in Seq(Packet) /\ Len(Tail(up)) <= QueueMax /\ Head(up) \in Packet
  BY <1>1, <1>2
<1>3. QED
  BY <1>1, <1>2 DEF Packet

THEOREM TypeCorrect == Spec => []TypeOK
<1>1. Init => TypeOK
  <2>1. SUFFICES ASSUME Init PROVE TypeOK
    OBVIOUS
  <2>2. \A S : <<>> \in Seq(S) /\ Len(<<>>) = 0
    OBVIOUS
  <2>3. /\ 0 \in 0 .. PacketIdMax /\ 0 \in 0 .. MaxReports /\ 0 \in 0 .. MaxFaults
        /\ 0 <= PubMax /\ 0 <= QueueMax
    BY MqttPubAssumption
  <2>4. RestType
    BY <2>1, <2>3 DEF Init, RestType
  <2>5. ListType /\ UpType /\ DownType
    <3>1. pub_to_ack = <<>> /\ up = <<>> /\ down = <<>>
      BY <2>1 DEF Init
    <3>2. QED
      BY <2>2, <2>3, <3>1 DEF ListType, UpType, DownType
  <2>6. QED
    BY <2>4, <2>5, TypeParts
<1>2. TypeOK /\ [Next]_vars => TypeOK'
  <2>1. SUFFICES ASSUME ListType, UpType, DownType, RestType, [Next]_vars
                 PROVE  ListType' /\ UpType' /\ DownType' /\ RestType'
    BY TypeParts DEF TypeOK, ListType, UpType, DownType, RestType, Packet
  <2> USE DEF net, read, history
  <2>2. CASE KeepaliveIdle \/ Reconnect \/ CycleNotConnected \/ CycleTimeout
    <3>1. UNCHANGED <<pub_to_ack, up, down>> /\ RestType'
      BY <2>1, <2>2 DEF KeepaliveIdle, Reconnect, CycleNotConnected, CycleTimeout, AfterProbeCheck, RestType
    <3>2. QED
      BY <2>1, <3>1 DEF ListType, UpType, DownType
  <2>3. CASE CloseDown
    <3>1. UNCHANGED pub_to_ack /\ up' = <<>> /\ down' = <<>> /\ RestType'
      BY <2>1, <2>3, FirstCopiesType DEF CloseDown, RestType
    <3>2. QED
      BY <2>1, <3>1, QueueType DEF ListType, UpType, DownType
  <2>4. CASE CycleReadError
    <3>1. UNCHANGED <<pub_to_ack, up>> /\ down' = <<>> /\ RestType'
      BY <2>1, <2>4, MqttPubAssumption DEF CycleReadError, RestType
    <3>2. QED
      BY <2>1, <3>1, QueueType DEF ListType, UpType, DownType
  <2>5. CASE RecvPuback
    <3>1. /\ UNCHANGED up /\ down' = Tail(down) /\ down # <<>> /\ RestType'
          /\ pub_to_ack' = Mask(pub_to_ack, Head(down))
      BY <2>1, <2>5 DEF RecvPuback, AfterProbeCheck, RestType
    <3>2. ListType'
      BY <2>1, <3>1, MaskType DEF ListType
    <3>3. QED
      BY <2>1, <3>1, <3>2, QueueType DEF UpType, DownType
  <2>6. CASE PubInfoProc
    BY <2>1, <2>6, ProcType DEF PubInfoProc, DownType
  <2>7. CASE ReportInBadState \/ ReportListFull \/ ReportWriteFailed
    <3>1. UNCHANGED <<pub_to_ack, up, down, got, whole, lost, forgotten, faults, link>>
      BY <2>7 DEF ReportInBadState, ReportListFull, ReportWriteFailed, Handler
    <3>2. /\ pc' \in {"proc", "keepalive"} /\ made < MaxReports /\ made' = made + 1
          /\ packet_id' \in {packet_id, NextPacketId}
          /\ client_state' \in {client_state, "DISCONNECTED"}
      BY <2>7 DEF ReportInBadState, ReportListFull, ReportWriteFailed, Handler, Learned
    <3>3. RestType'
      BY <2>1, <3>1, <3>2, NextIdType, MqttPubAssumption DEF RestType
    <3>4. QED
      BY <2>1, <3>1, <3>3 DEF ListType, UpType, DownType
  <2>8. CASE Report
    BY <2>1, <2>8, ReportType DEF Report, Handler, DownType
  <2>9. CASE RequestsTimeOut
    BY <2>1, <2>9, LateType DEF RequestsTimeOut, UpType, DownType, RestType
  <2>10. CASE LinkDies
    <3>1. UNCHANGED pub_to_ack /\ up' = <<>> /\ down' \in {down, <<>>} /\ RestType'
      BY <2>1, <2>10, FirstCopiesType, MqttPubAssumption DEF LinkDies, RestType
    <3>2. QED
      BY <2>1, <3>1, QueueType DEF ListType, UpType, DownType
  <2>11. CASE BrokerReceives
    <3>1. /\ UNCHANGED pub_to_ack /\ up # <<>> /\ up' = Tail(up)
          /\ down' = Append(down, Head(up).id) /\ RestType'
      BY <2>1, <2>11, QueueType DEF BrokerReceives, RestType
    <3>2. QED
      BY <2>1, <3>1, QueueType DEF ListType, UpType, DownType
  <2>12. CASE ReportRestarts
    <3>1. pub_to_ack' = <<>> /\ up' = <<>> /\ down' = <<>> /\ <<>> \in Seq(Node) /\ Len(<<>>) = 0
      BY <2>12 DEF ReportRestarts
    <3>2. made' \in 0 .. MaxReports
      BY <2>1, <2>12, MqttPubAssumption DEF ReportRestarts, Learned, RestType
    <3>3. packet_id' \in 0 .. PacketIdMax
      BY <2>12, MqttPubAssumption DEF ReportRestarts
    <3>4. RestType'
      BY <2>1, <2>12, <3>2, <3>3, FirstCopiesType, OwedType DEF ReportRestarts, RestType
    <3>5. QED
      BY <2>1, <3>1, <3>4, QueueType, MqttPubAssumption DEF ListType, UpType, DownType
  <2>13. CASE UNCHANGED vars
    BY <2>1, <2>13 DEF vars, ListType, UpType, DownType, RestType
  <2>14. QED
    BY <2>1, <2>2, <2>3, <2>4, <2>5, <2>6, <2>7, <2>8, <2>9, <2>10, <2>11, <2>12, <2>13
    DEF Next, Task, Command
<1>3. QED
  BY <1>1, <1>2, PTL DEF Spec

-----------------------------------------------------------------------------
(* What the list, the packets and the acknowledgements say of each other   *)

Pairs(nodes) == {[id |-> n.id, msg |-> n.msg] : n \in nodes}

Pair == [id : 1 .. PacketIdMax, msg : Reports]

Listed == Pairs(NodesOf(pub_to_ack))
Sent == Pairs(NodesOf(up))
Acks == NodesOf(down)

\* An id stands for one report, in the list as in the packets; what was sent is
\* still owed or has arrived; what is acknowledged has arrived.
Tracked ==
  /\ packet_id <= made
  /\ \A m \in got : m <= made
  /\ \A p \in Listed \cup Sent : p.id <= packet_id /\ p.msg <= made
  /\ \A p, q \in Listed \cup Sent : p.id = q.id => p.msg = q.msg
  /\ \A p \in Sent : p.msg \in got \cup Owed
  /\ \A a \in Acks : a <= packet_id /\ \A p \in Listed \cup Sent : p.id = a => p.msg \in got

\* A step that adds nothing but copies of what is owed, and forgets only what has arrived.
Harmless ==
  /\ Listed' \subseteq Listed
  /\ Sent' \subseteq Sent \cup {p \in Listed : p.msg \in Owed}
  /\ Acks' \subseteq Acks
  /\ got' = got /\ Owed \subseteq Owed' \cup got
  /\ packet_id <= packet_id' /\ made <= made' /\ packet_id' <= made'

LEMMA OwedIs ==
  /\ Owed = {n.msg : n \in {n \in NodesOf(pub_to_ack) : n.state = "NORMAL"}}
  /\ \A m : m \in Owed <=> \E i \in DOMAIN pub_to_ack :
                              pub_to_ack[i].state = "NORMAL" /\ pub_to_ack[i].msg = m
BY DEF Owed, Waiting, NodesOf

LEMMA ListedIs ==
  \A p : p \in Listed <=> \E i \in DOMAIN pub_to_ack :
                            p = [id |-> pub_to_ack[i].id, msg |-> pub_to_ack[i].msg]
BY DEF Listed, Pairs, NodesOf

LEMMA SentIs ==
  /\ \A p : p \in Sent <=> \E q \in NodesOf(up) : p = [id |-> q.id, msg |-> q.msg]
  /\ \A p : p \in Sent' <=> \E q \in NodesOf(up') : p = [id |-> q.id, msg |-> q.msg]
  /\ NodesOf(up') \subseteq NodesOf(up) => Sent' \subseteq Sent
<1>1. NodesOf(up)' = NodesOf(up')
  BY DEF NodesOf
<1>2. QED
  BY <1>1 DEF Sent, Pairs

LEMMA PairTypes ==
  ASSUME TypeOK
  PROVE  /\ Listed \in SUBSET Pair /\ Sent \in SUBSET Pair
         /\ Acks \in SUBSET (1 .. PacketIdMax) /\ Owed \in SUBSET Reports
<1>1. ListType /\ UpType /\ DownType
  BY TypeParts
<1>2. \A i \in DOMAIN pub_to_ack :
        pub_to_ack[i].id \in 1 .. PacketIdMax /\ pub_to_ack[i].msg \in Reports
  <2>1. \A i \in DOMAIN pub_to_ack : pub_to_ack[i] \in Node
    BY <1>1 DEF ListType
  <2>2. QED
    BY <2>1, Zenon DEF Node
<1>3. Listed \in SUBSET Pair
  BY <1>2, ListedIs DEF Pair
<1>4. Owed \in SUBSET Reports
  BY <1>2, OwedIs
<1>5. Sent \in SUBSET Pair /\ Acks \in SUBSET (1 .. PacketIdMax)
  <2>1. NodesOf(up) \in SUBSET Packet /\ Acks \in SUBSET (1 .. PacketIdMax)
    BY <1>1, NodesIn DEF Acks, UpType, DownType
  <2>2. QED
    BY <2>1 DEF Sent, Pairs, Packet, Pair
<1>6. QED
  BY <1>3, <1>4, <1>5

LEMMA Numbers ==
  ASSUME TypeOK
  PROVE  /\ \A p \in Listed \cup Sent : p.id \in Nat /\ p.msg \in Nat
         /\ Acks \subseteq Nat /\ got \subseteq Nat /\ Owed \subseteq Nat
<1>1. got \in SUBSET Reports
  BY DEF TypeOK
<1>2. 1 .. PacketIdMax \subseteq Nat /\ Reports \subseteq Nat
  BY MqttPubAssumption DEF Reports
<1>3. \A p \in Pair : p.id \in Nat /\ p.msg \in Nat
  BY <1>2 DEF Pair
<1>4. QED
  BY <1>1, <1>2, <1>3, PairTypes

LEMMA HarmlessKeeps ==
  ASSUME TypeOK, TypeOK', Tracked, Harmless
  PROVE  Tracked'
<1>1. /\ Listed' \cup Sent' \subseteq Listed \cup Sent
      /\ \A p \in Sent' : p.msg \in got' \cup Owed'
  BY DEF Harmless, Tracked
<1>2. /\ packet_id \in Nat /\ made \in Nat /\ packet_id' \in Nat /\ made' \in Nat
      /\ packet_id <= packet_id' /\ made <= made' /\ packet_id' <= made'
  BY MqttPubAssumption DEF Harmless, TypeOK
<1>3. /\ \A p \in Listed \cup Sent : p.id \in Nat /\ p.msg \in Nat
      /\ Acks \subseteq Nat /\ got \subseteq Nat
  BY Numbers
<1>4. /\ \A m \in got' : m <= made'
      /\ \A p \in Listed' \cup Sent' : p.id <= packet_id' /\ p.msg <= made'
      /\ \A a \in Acks' : a <= packet_id'
  BY <1>1, <1>2, <1>3 DEF Harmless, Tracked
<1>5. /\ \A p, q \in Listed' \cup Sent' : p.id = q.id => p.msg = q.msg
      /\ \A a \in Acks' : \A p \in Listed' \cup Sent' : p.id = a => p.msg \in got'
  BY <1>1 DEF Harmless, Tracked
<1>6. QED
  BY <1>1, <1>2, <1>4, <1>5 DEF Tracked

-----------------------------------------------------------------------------
(* What the steps do to the list                                           *)

LEMMA MaskEffect ==
  ASSUME ListType, NEW id, pub_to_ack' = Mask(pub_to_ack, id)
  PROVE  /\ Listed' = Listed /\ Owed' \subseteq Owed
         /\ \A m \in Owed \ Owed' : \E i \in DOMAIN pub_to_ack :
              IsFirst(pub_to_ack, id, i) /\ pub_to_ack[i].msg = m
<1>1. /\ DOMAIN pub_to_ack' = DOMAIN pub_to_ack
      /\ \A i \in DOMAIN pub_to_ack :
           pub_to_ack'[i] = IF IsFirst(pub_to_ack, id, i)
                            THEN [pub_to_ack[i] EXCEPT !.state = "INVALID"] ELSE pub_to_ack[i]
  BY Zenon DEF Mask
<1>2. ASSUME NEW i \in DOMAIN pub_to_ack
      PROVE  /\ pub_to_ack'[i].id = pub_to_ack[i].id /\ pub_to_ack'[i].msg = pub_to_ack[i].msg
             /\ pub_to_ack'[i].state = IF IsFirst(pub_to_ack, id, i) THEN "INVALID"
                                       ELSE pub_to_ack[i].state
  <2>1. pub_to_ack[i] \in Node
    BY DEF ListType
  <2>2. CASE IsFirst(pub_to_ack, id, i)
    <3>1. pub_to_ack'[i] = [pub_to_ack[i] EXCEPT !.state = "INVALID"]
      BY <1>1, <2>2, Zenon
    <3>2. QED
      BY <2>1, <2>2, <3>1, Zenon DEF Node
  <2>3. CASE ~IsFirst(pub_to_ack, id, i)
    <3>1. pub_to_ack'[i] = pub_to_ack[i]
      BY <1>1, <2>3, Zenon
    <3>2. QED
      BY <2>3, <3>1, Zenon
  <2>4. QED
    BY <2>2, <2>3
<1>3. Listed' = Listed
  <2>1. \A p : p \in Listed' <=> \E i \in DOMAIN pub_to_ack' :
                                 p = [id |-> pub_to_ack'[i].id, msg |-> pub_to_ack'[i].msg]
    BY DEF Listed, Pairs, NodesOf
  <2>2. \A p : p \in Listed' <=> p \in Listed
    BY <1>1, <1>2, <2>1, ListedIs
  <2>3. QED
    BY <2>2
<1>4. \A m : m \in Owed' <=> \E i \in DOMAIN pub_to_ack' :
                             pub_to_ack'[i].state = "NORMAL" /\ pub_to_ack'[i].msg = m
  BY DEF Owed, Waiting
<1>5. Owed' \subseteq Owed
  BY <1>1, <1>2, <1>4, OwedIs
<1>6. ASSUME NEW m \in Owed \ Owed'
      PROVE  \E i \in DOMAIN pub_to_ack : IsFirst(pub_to_ack, id, i) /\ pub_to_ack[i].msg = m
  <2>1. PICK i \in DOMAIN pub_to_ack : pub_to_ack[i].state = "NORMAL" /\ pub_to_ack[i].msg = m
    BY <1>6, OwedIs
  <2>2. IsFirst(pub_to_ack, id, i)
    BY <1>1, <1>2, <1>4, <1>6, <2>1
  <2>3. QED
    BY <2>1, <2>2
<1>7. QED
  BY <1>3, <1>5, <1>6

LEMMA LateEffect ==
  ASSUME ListType, RequestsTimeOut
  PROVE  Listed' = Listed /\ Owed' = Owed
<1>1. PICK j \in DOMAIN pub_to_ack : pub_to_ack' = [pub_to_ack EXCEPT ![j].late = TRUE]
  BY TimedOutNode
<1>2. /\ DOMAIN pub_to_ack' = DOMAIN pub_to_ack
      /\ \A i \in DOMAIN pub_to_ack :
           pub_to_ack'[i] = IF i = j THEN [pub_to_ack[i] EXCEPT !.late = TRUE] ELSE pub_to_ack[i]
  BY <1>1, Zenon
<1>3. ASSUME NEW i \in DOMAIN pub_to_ack
      PROVE  /\ pub_to_ack'[i].id = pub_to_ack[i].id /\ pub_to_ack'[i].msg = pub_to_ack[i].msg
             /\ pub_to_ack'[i].state = pub_to_ack[i].state
  <2>1. pub_to_ack[i] \in Node
    BY DEF ListType
  <2>2. pub_to_ack'[i] = [pub_to_ack[i] EXCEPT !.late = TRUE] \/ pub_to_ack'[i] = pub_to_ack[i]
    BY <1>2, Zenon
  <2>3. QED
    BY <2>1, <2>2, Zenon DEF Node
<1>4. Listed' = Listed
  <2>1. \A p : p \in Listed' <=> \E i \in DOMAIN pub_to_ack' :
                                 p = [id |-> pub_to_ack'[i].id, msg |-> pub_to_ack'[i].msg]
    BY DEF Listed, Pairs, NodesOf
  <2>2. \A p : p \in Listed' <=> p \in Listed
    BY <1>2, <1>3, <2>1, ListedIs
  <2>3. QED
    BY <2>2
<1>5. Owed' = Owed
  <2>1. \A m : m \in Owed' <=> \E i \in DOMAIN pub_to_ack' :
                               pub_to_ack'[i].state = "NORMAL" /\ pub_to_ack'[i].msg = m
    BY DEF Owed, Waiting
  <2>2. \A m : m \in Owed' <=> m \in Owed
    BY <1>2, <1>3, <2>1, OwedIs
  <2>3. QED
    BY <2>2
<1>6. QED
  BY <1>4, <1>5

LEMMA ReportEffect ==
  ASSUME TypeOK, TypeOK', Report
  PROVE  LET new == [id |-> packet_id', msg |-> made']
         IN  /\ Listed' = Listed \cup {new} /\ Owed' = Owed \cup {made'}
             /\ Sent' \subseteq Sent \cup {new}
<1> DEFINE node == [id |-> packet_id', msg |-> made', state |-> "NORMAL", late |-> FALSE]
           new == [id |-> packet_id', msg |-> made']
<1>1. ListType /\ UpType /\ RestType
  BY TypeParts
<1>2. packet_id' \in 1 .. PacketIdMax /\ made' \in Reports
  BY <1>1, NextIdType, MqttPubAssumption DEF Report, Handler, Learned, Reports, RestType
<1>3. node \in Node /\ FirstCopy(packet_id', made') \in Packet
  <2>1. node \in Node
    BY <1>2, Zenon DEF Node
  <2>2. FirstCopy(packet_id', made') \in Packet
    BY <1>2 DEF Packet, FirstCopy
  <2>3. QED
    BY <2>1, <2>2
<1>4. NodesOf(pub_to_ack)' = NodesOf(pub_to_ack) \cup {node}
  <2>1. pub_to_ack' = Append(pub_to_ack, node)
    BY DEF Report
  <2> HIDE DEF node
  <2>2. NodesOf(pub_to_ack') = NodesOf(pub_to_ack) \cup {node}
    BY <1>1, <1>3, <2>1, NodesOfAppend DEF ListType
  <2>3. QED
    BY <2>2 DEF NodesOf
<1>5. node.id = packet_id' /\ node.msg = made' /\ node.state = "NORMAL"
  BY Zenon
<1>6. Listed' = Listed \cup {new}
  <2>1. Listed' = {[id |-> n.id, msg |-> n.msg] : n \in NodesOf(pub_to_ack)'}
    BY DEF Listed, Pairs
  <2> HIDE DEF node
  <2>2. QED
    BY <1>4, <1>5, <2>1 DEF Listed, Pairs
<1>7. Owed' = Owed \cup {made'}
  <2>1. Owed' = {n.msg : n \in {n \in NodesOf(pub_to_ack)' : n.state = "NORMAL"}}
    BY DEF Owed, Waiting, NodesOf
  <2> HIDE DEF node
  <2>2. QED
    BY <1>4, <1>5, <2>1, OwedIs
<1>8. Sent' \subseteq Sent \cup {new}
  <2>1. up' = Append(up, FirstCopy(packet_id', made')) \/ up' = up
    BY DEF Report
  <2>2. NodesOf(up') \subseteq NodesOf(up) \cup {FirstCopy(packet_id', made')}
    <3>1. SUFFICES ASSUME NEW e \in Packet, up' = Append(up, e) \/ up' = up
                   PROVE  NodesOf(up') \subseteq NodesOf(up) \cup {e}
      BY <1>3, <2>1
    <3>2. QED
      BY <1>1, <3>1, NodesOfAppend DEF UpType
  <2>3. /\ FirstCopy(packet_id', made').id = packet_id'
        /\ FirstCopy(packet_id', made').msg = made'
    BY DEF FirstCopy
  <2>4. QED
    BY <2>2, <2>3, SentIs
<1>9. QED
  BY <1>6, <1>7, <1>8

\* What is sent again is owed.
LEMMA RepublishedIs ==
  ASSUME ListType
  PROVE  /\ ToRepublish \in Seq(Node) /\ Copies(ToRepublish) \in Seq(Packet)
         /\ NodesOf(ToRepublish) \subseteq {n \in NodesOf(pub_to_ack) : n.state = "NORMAL"}
         /\ \A p \in NodesOf(Copies(ToRepublish)) :
              /\ p.msg \in Owed /\ [id |-> p.id, msg |-> p.msg] \in Listed
              /\ p.whole = FALSE
<1> DEFINE keep == {i \in DOMAIN pub_to_ack : IsNormal(pub_to_ack[i]) /\ pub_to_ack[i].late}
           again == ToRepublish
<1>1. again \in Seq(Node)
  BY KeptType DEF ToRepublish
<1>2. NodesOf(again) \subseteq {n \in NodesOf(pub_to_ack) : n.state = "NORMAL"}
  <2>1. NodesOf(Kept(pub_to_ack, keep)) = {pub_to_ack[k] : k \in keep \cap DOMAIN pub_to_ack}
    <3> HIDE DEF keep
    <3>1. QED
      BY KeptNodes DEF NodesOf, ListType
  <2>2. \A k \in keep : k \in DOMAIN pub_to_ack /\ pub_to_ack[k].state = "NORMAL"
    BY Zenon DEF IsNormal
  <2>3. again = Kept(pub_to_ack, keep)
    BY DEF ToRepublish
  <2> HIDE DEF again, keep
  <2>4. NodesOf(again) = {pub_to_ack[k] : k \in keep \cap DOMAIN pub_to_ack}
    BY <2>1, <2>3
  <2>5. QED
    BY <2>2, <2>4, Zenon DEF NodesOf
<1>3. Copies(again) \in Seq(Packet)
  BY <1>1, CopiesType
<1>4. ASSUME NEW i \in DOMAIN again
      PROVE  /\ [id |-> again[i].id, msg |-> again[i].msg] \in Listed
             /\ again[i].msg \in Owed
  <2> HIDE DEF again
  <2>1. PICK n \in NodesOf(pub_to_ack) : n = again[i] /\ n.state = "NORMAL"
    BY <1>2 DEF NodesOf
  <2>2. QED
    BY <2>1, OwedIs DEF Listed, Pairs
<1> HIDE DEF again
<1>5. ASSUME NEW p \in NodesOf(Copies(again))
      PROVE  \E i \in DOMAIN again : p.id = again[i].id /\ p.msg = again[i].msg /\ p.whole = FALSE
  <2>1. DOMAIN Copies(again) = DOMAIN again
    BY Zenon DEF Copies
  <2>2. PICK i \in DOMAIN Copies(again) : p = Copies(again)[i]
    BY <1>5, Zenon DEF NodesOf
  <2>3. p = [id |-> again[i].id, msg |-> again[i].msg, whole |-> FALSE]
    BY <2>1, <2>2, Zenon DEF Copies
  <2>4. p.id = again[i].id /\ p.msg = again[i].msg /\ p.whole = FALSE
    BY <2>3
  <2>5. QED
    BY <2>1, <2>2, <2>4
<1>6. QED
  BY <1>1, <1>2, <1>3, <1>4, <1>5 DEF again

LEMMA ProcEffect ==
  ASSUME ListType, UpType, PubInfoProc
  PROVE  /\ Listed' \subseteq Listed /\ Owed' = Owed
         /\ Sent' \subseteq Sent \cup {p \in Listed : p.msg \in Owed}
         /\ NodesOf(pub_to_ack') \subseteq NodesOf(pub_to_ack)
<1>1. pub_to_ack \in Seq(Node)
  BY DEF ListType
<1>2. \/ NodesOf(pub_to_ack') = {n \in NodesOf(pub_to_ack) : n.state = "NORMAL"}
      \/ pub_to_ack' = pub_to_ack
  <2> DEFINE keep == {i \in DOMAIN pub_to_ack : IsNormal(pub_to_ack[i])}
  <2>1. NodesOf(Kept(pub_to_ack, keep)) = {pub_to_ack[k] : k \in keep \cap DOMAIN pub_to_ack}
    <3> HIDE DEF keep
    <3>1. QED
      BY <1>1, KeptNodes DEF NodesOf
  <2>2. pub_to_ack' = Kept(pub_to_ack, keep) \/ pub_to_ack' = pub_to_ack
    BY DEF PubInfoProc, RepublishFails, Cleaned
  <2>3. \/ NodesOf(pub_to_ack') = {pub_to_ack[k] : k \in keep \cap DOMAIN pub_to_ack}
        \/ pub_to_ack' = pub_to_ack
    BY <2>1, <2>2, Zenon
  <2>4. QED
    BY <2>3, Zenon DEF NodesOf, IsNormal
<1>3. NodesOf(pub_to_ack') \subseteq NodesOf(pub_to_ack)
  BY <1>2
<1>4. Listed' \subseteq Listed
  <2>1. NodesOf(pub_to_ack)' = NodesOf(pub_to_ack')
    BY DEF NodesOf
  <2>2. QED
    BY <1>3, <2>1 DEF Listed, Pairs
<1>5. Owed' = Owed
  <2>1. Owed' = {n.msg : n \in {n \in NodesOf(pub_to_ack') : n.state = "NORMAL"}}
    BY DEF Owed, Waiting, NodesOf
  <2>2. QED
    BY <1>2, <2>1, OwedIs
<1>6. Sent' \subseteq Sent \cup {p \in Listed : p.msg \in Owed}
  <2>1. up' = up \/ up' = up \o Copies(ToRepublish)
    BY DEF PubInfoProc
  <2>2. NodesOf(up') \subseteq NodesOf(up) \cup NodesOf(Copies(ToRepublish))
    BY <2>1, RepublishedIs, NodesOfConcat DEF UpType
  <2>3. ASSUME NEW p \in Sent' PROVE p \in Sent \cup {q \in Listed : q.msg \in Owed}
    <3>1. PICK q \in NodesOf(up') : p = [id |-> q.id, msg |-> q.msg]
      BY SentIs
    <3>2. CASE q \in NodesOf(up)
      BY <3>1, <3>2, SentIs
    <3>3. CASE q \in NodesOf(Copies(ToRepublish))
      <4>1. q.msg \in Owed /\ p \in Listed
        BY <3>1, <3>3, RepublishedIs
      <4>2. QED
        BY <3>1, <4>1
    <3>4. QED
      BY <2>2, <3>1, <3>2, <3>3
  <2>4. QED
    BY <2>3
<1>7. QED
  BY <1>3, <1>4, <1>5, <1>6

-----------------------------------------------------------------------------
(* Every step keeps Tracked and is one of the promise's steps or a stutter *)

\* A step of the promise, or none.
PromiseStep == [Promise!Next]_<<Owed, got>>

\* Harmless steps that forget nothing.
LEMMA Stutters ==
  ASSUME Harmless, Owed' = Owed
  PROVE  PromiseStep
BY DEF Harmless, PromiseStep, Promise!Next

\* The list and the packets unchanged or emptied.
LEMMA NothingNew ==
  ASSUME TypeOK, TypeOK', Tracked,
         UNCHANGED <<pub_to_ack, got>>, up' \in {up, <<>>}, down' \in {down, <<>>},
         packet_id <= packet_id', made <= made', packet_id' <= made'
  PROVE  Harmless /\ Owed' = Owed
<1>1. Listed' = Listed /\ Owed' = Owed
  BY DEF Listed, Pairs, NodesOf, Owed, Waiting
<1>2. Sent' \subseteq Sent /\ Acks' \subseteq Acks
  <2>1. NodesOf(up') \subseteq NodesOf(up) /\ NodesOf(down') \subseteq NodesOf(down)
    BY NodesOfEmpty
  <2>2. QED
    BY <2>1, SentIs DEF Acks, NodesOf
<1>3. QED
  BY <1>1, <1>2 DEF Harmless

\* A report that was not accepted uses up its number and perhaps an id.
LEMMA NextIdFresh ==
  ASSUME NoWrap, TypeOK, packet_id <= made, made < MaxReports
  PROVE  NextPacketId = packet_id + 1
BY MqttPubAssumption DEF NoWrap, TypeOK, NextPacketId

LEMMA PubackStep ==
  ASSUME TypeOK, TypeOK', Tracked, RecvPuback
  PROVE  Harmless /\ PromiseStep
<1>1. /\ ListType /\ DownType /\ pub_to_ack' = Mask(pub_to_ack, Head(down)) /\ down' = Tail(down)
      /\ down # <<>> /\ UNCHANGED <<packet_id, up, made, got>>
  BY TypeParts DEF RecvPuback, read
<1>2. /\ Listed' = Listed /\ Owed' \subseteq Owed
      /\ \A m \in Owed \ Owed' : \E i \in DOMAIN pub_to_ack :
           IsFirst(pub_to_ack, Head(down), i) /\ pub_to_ack[i].msg = m
  BY <1>1, MaskEffect
<1>3. Sent' = Sent
  BY <1>1 DEF Sent, Pairs, NodesOf
<1>4. Head(down) \in Acks /\ Acks' \subseteq Acks
  <2>1. Head(down) \in NodesOf(down) /\ NodesOf(down') \subseteq NodesOf(down)
    BY <1>1, NodesOfTail DEF DownType
  <2>2. QED
    BY <2>1 DEF Acks, NodesOf
<1>5. Owed \ Owed' \subseteq got
  <2>1. SUFFICES ASSUME NEW m \in Owed \ Owed' PROVE m \in got
    OBVIOUS
  <2>2. PICK i \in DOMAIN pub_to_ack :
          pub_to_ack[i].id = Head(down) /\ pub_to_ack[i].msg = m
    BY <1>2 DEF IsFirst
  <2>3. [id |-> Head(down), msg |-> m] \in Listed
    BY <2>2, ListedIs
  <2>4. QED
    BY <1>4, <2>3 DEF Tracked
<1>6. Harmless
  <2>1. /\ packet_id \in Nat /\ made \in Nat /\ packet_id <= made
    BY MqttPubAssumption DEF TypeOK, Tracked
  <2>2. QED
    BY <1>1, <1>2, <1>3, <1>4, <1>5, <2>1 DEF Harmless
<1>7. PromiseStep
  <2>1. ASSUME NEW m \in Owed \ Owed', NEW n \in Owed \ Owed' PROVE m = n
    <3>1. PICK i \in DOMAIN pub_to_ack :
            IsFirst(pub_to_ack, Head(down), i) /\ pub_to_ack[i].msg = m
      BY <1>2
    <3>2. PICK j \in DOMAIN pub_to_ack :
            IsFirst(pub_to_ack, Head(down), j) /\ pub_to_ack[j].msg = n
      BY <1>2
    <3>3. i = j
      <4>1. i \in Nat /\ j \in Nat /\ i >= 1 /\ j >= 1
        BY <1>1 DEF ListType
      <4>2. ~(i \in 1 .. j - 1) /\ ~(j \in 1 .. i - 1)
        BY <3>1, <3>2 DEF IsFirst
      <4>3. QED
        BY <4>1, <4>2
    <3>4. QED
      BY <3>1, <3>2, <3>3
  <2>2. CASE Owed' = Owed
    BY <1>6, <2>2, Stutters
  <2>3. CASE Owed' # Owed
    <3>1. PICK m \in Owed \ Owed' : TRUE
      BY <1>2, <2>3
    <3>2. Owed' = Owed \ {m} /\ m \in Owed \cap got
      BY <1>2, <1>5, <2>1, <3>1
    <3>3. m \in Reports
      BY <3>1, PairTypes
    <3>4. Promise!Confirm(m)
      BY <1>1, <3>2 DEF Promise!Confirm
    <3>5. QED
      BY <3>3, <3>4 DEF PromiseStep, Promise!Next
  <2>4. QED
    BY <2>2, <2>3
<1>8. QED
  BY <1>6, <1>7

LEMMA ReportStep ==
  ASSUME NoWrap, TypeOK, TypeOK', Tracked, Report
  PROVE  Tracked' /\ PromiseStep
<1> DEFINE new == [id |-> packet_id', msg |-> made']
<1>1. /\ Listed' = Listed \cup {new} /\ Owed' = Owed \cup {made'}
      /\ Sent' \subseteq Sent \cup {new}
  BY ReportEffect
<1>2. /\ packet_id \in Nat /\ made \in Nat /\ packet_id <= made
      /\ packet_id' = packet_id + 1 /\ made' = made + 1 /\ made' \in Reports
      /\ UNCHANGED <<got, down>>
  BY NextIdFresh, MqttPubAssumption
  DEF Report, Handler, Learned, read, TypeOK, Tracked, Reports
<1>3. new.id = packet_id' /\ new.msg = made'
  OBVIOUS
<1>4. Acks' = Acks
  BY <1>2 DEF Acks, NodesOf
<1> HIDE DEF new
<1>5. /\ \A p \in Listed \cup Sent : p.id \in Nat /\ p.msg \in Nat
      /\ Acks \subseteq Nat /\ got \subseteq Nat /\ Owed \subseteq Nat
  BY Numbers
<1>6. /\ \A p \in Listed \cup Sent : p.id < packet_id' /\ p.msg < made'
      /\ \A a \in Acks : a < packet_id'
      /\ \A m \in got : m < made'
  BY <1>2, <1>5 DEF Tracked
<1>7. \A m \in Owed : m < made'
  <2>1. SUFFICES ASSUME NEW m \in Owed PROVE m < made'
    OBVIOUS
  <2>2. PICK p \in Listed : p.msg = m
    <3>1. PICK i \in DOMAIN pub_to_ack : pub_to_ack[i].msg = m
      BY <2>1, OwedIs
    <3>2. [id |-> pub_to_ack[i].id, msg |-> m] \in Listed
      BY <3>1, ListedIs
    <3>3. QED
      BY <3>2
  <2>3. QED
    BY <1>6, <2>2
<1>8. Tracked'
  <2>1. Listed' \cup Sent' \subseteq (Listed \cup Sent) \cup {new}
    BY <1>1
  <2>2. /\ packet_id' <= made' /\ \A m \in got' : m <= made'
        /\ \A p \in Listed' \cup Sent' : p.id <= packet_id' /\ p.msg <= made'
        /\ \A a \in Acks' : a <= packet_id'
    <3>1. packet_id' \in Nat /\ made' \in Nat /\ packet_id' <= made'
      BY <1>2
    <3>2. \A p \in Listed \cup Sent : p.id <= packet_id' /\ p.msg <= made'
      BY <1>5, <1>6, <3>1
    <3>3. \A p \in Listed' \cup Sent' : p.id <= packet_id' /\ p.msg <= made'
      BY <1>3, <2>1, <3>1, <3>2
    <3>4. (\A m \in got' : m <= made') /\ \A a \in Acks' : a <= packet_id'
      BY <1>2, <1>4, <1>5, <1>6, <3>1
    <3>5. QED
      BY <3>1, <3>3, <3>4
  <2>3. \A p \in Listed \cup Sent : p.id # packet_id'
    BY <1>2, <1>5, <1>6
  <2>4. \A p, q \in Listed' \cup Sent' : p.id = q.id => p.msg = q.msg
    BY <1>3, <2>1, <2>3 DEF Tracked
  <2>5. \A p \in Sent' : p.msg \in got' \cup Owed'
    BY <1>1, <1>2, <1>3 DEF Tracked
  <2>6. \A a \in Acks' : \A p \in Listed' \cup Sent' : p.id = a => p.msg \in got'
    <3>1. \A a \in Acks : a # packet_id'
      BY <1>2, <1>5, <1>6
    <3>2. QED
      BY <1>2, <1>3, <1>4, <2>1, <3>1 DEF Tracked
  <2>7. QED
    BY <2>2, <2>4, <2>5, <2>6 DEF Tracked
<1>9. PromiseStep
  <2>1. made' \notin Owed \cup got
    BY <1>2, <1>5, <1>6, <1>7
  <2>2. Promise!Accept(made')
    BY <1>1, <1>2, <2>1 DEF Promise!Accept
  <2>3. QED
    BY <1>2, <2>2 DEF PromiseStep, Promise!Next
<1>10. QED
  BY <1>8, <1>9

\* A restart empties the list and the connection: what was owed is forgotten.
LEMMA RestartStep ==
  ASSUME TypeOK, TypeOK', Tracked, ReportRestarts
  PROVE  Tracked' /\ PromiseStep
<1>1. Listed' = {} /\ Sent' = {} /\ Acks' = {} /\ Owed' = {}
  <2>1. pub_to_ack' = <<>> /\ up' = <<>> /\ down' = <<>>
    BY DEF ReportRestarts
  <2>2. NodesOf(pub_to_ack)' = {} /\ NodesOf(up)' = {} /\ NodesOf(down)' = {}
    BY <2>1, NodesOfEmpty DEF NodesOf
  <2>3. Owed' = {}
    BY <2>1 DEF Owed, Waiting
  <2>4. QED
    BY <2>2, <2>3 DEF Listed, Sent, Acks, Pairs
<1>2. /\ got' = got /\ packet_id' = 0 /\ made' = made + 1
      /\ made \in Nat /\ got \subseteq Nat /\ \A m \in got : m <= made
  BY Numbers, MqttPubAssumption DEF ReportRestarts, Learned, read, Tracked, TypeOK
<1>3. Tracked'
  BY <1>1, <1>2 DEF Tracked
<1>4. PromiseStep
  BY <1>1, <1>2 DEF PromiseStep, Promise!Next, Promise!Restart
<1>5. QED
  BY <1>3, <1>4

LEMMA BrokerStep ==
  ASSUME TypeOK, TypeOK', Tracked, BrokerReceives
  PROVE  Tracked' /\ PromiseStep
<1>1. /\ UpType /\ DownType /\ up # <<>> /\ up' = Tail(up) /\ got' = got \cup {Head(up).msg}
      /\ down' = Append(down, Head(up).id)
      /\ UNCHANGED <<pub_to_ack, packet_id, made>>
  BY TypeParts DEF BrokerReceives
<1> DEFINE h == [id |-> Head(up).id, msg |-> Head(up).msg]
<1>2. h \in Sent /\ Sent' \subseteq Sent
  <2>1. Head(up) \in NodesOf(up) /\ NodesOf(up') \subseteq NodesOf(up)
    BY <1>1, NodesOfTail DEF UpType
  <2>2. QED
    BY <2>1, SentIs
<1>3. Acks' = Acks \cup {Head(up).id}
  <2>1. Head(up).id \in 1 .. PacketIdMax
    BY <1>1, QueueType
  <2>2. NodesOf(down') = NodesOf(down) \cup {Head(up).id}
    <3>1. SUFFICES ASSUME NEW E, down \in Seq(E), NEW e \in E, down' = Append(down, e)
                   PROVE  NodesOf(down') = NodesOf(down) \cup {e}
      BY <1>1, <2>1, Zenon DEF DownType
    <3>2. NodesOf(Append(down, e)) = NodesOf(down) \cup {e}
      BY <3>1, NodesOfAppend
    <3>3. QED
      BY <3>1, <3>2
  <2>3. QED
    BY <2>2 DEF Acks, NodesOf
<1>4. Listed' = Listed /\ Owed' = Owed
  BY <1>1 DEF Listed, Pairs, NodesOf, Owed, Waiting
<1>5. Tracked'
  <2>1. h.id = Head(up).id /\ h.msg = Head(up).msg
    OBVIOUS
  <2> HIDE DEF h
  <2>2. QED
    BY <1>1, <1>2, <1>3, <1>4, <2>1 DEF Tracked
<1>6. PromiseStep
  <2>1. Head(up).msg \in got \cup Owed
    <3>1. h.msg = Head(up).msg
      OBVIOUS
    <3>2. QED
      BY <1>2, <3>1 DEF Tracked
  <2>2. CASE Head(up).msg \in got
    BY <1>1, <1>4, <2>2 DEF PromiseStep
  <2>3. CASE Head(up).msg \in Owed
    <3>1. Promise!Deliver(Head(up).msg)
      BY <1>1, <1>4, <2>3 DEF Promise!Deliver
    <3>2. Head(up).msg \in Reports
      BY <2>3, PairTypes
    <3>3. QED
      BY <3>1, <3>2 DEF PromiseStep, Promise!Next
  <2>4. QED
    BY <2>1, <2>2, <2>3
<1>7. QED
  BY <1>5, <1>6

LEMMA EveryStep ==
  ASSUME NoWrap, TypeOK, TypeOK', Tracked, [Next]_vars
  PROVE  Tracked' /\ PromiseStep
<1>1. SUFFICES \/ Tracked' /\ PromiseStep
               \/ Harmless /\ PromiseStep
               \/ Harmless /\ Owed' = Owed
  BY HarmlessKeeps, Stutters
<1>2. packet_id \in Nat /\ made \in Nat /\ packet_id <= made
  BY MqttPubAssumption DEF TypeOK, Tracked
<1>3. CASE \/ KeepaliveIdle \/ CloseDown \/ Reconnect \/ CycleNotConnected \/ CycleTimeout
           \/ CycleReadError \/ LinkDies \/ UNCHANGED vars
  <2>1. /\ UNCHANGED <<pub_to_ack, got, packet_id, made>>
        /\ up' \in {up, <<>>} /\ down' \in {down, <<>>}
    BY <1>3 DEF KeepaliveIdle, CloseDown, Reconnect, CycleNotConnected, CycleTimeout,
                CycleReadError, LinkDies, vars, net, read
  <2>2. QED
    BY <1>2, <2>1, NothingNew
<1>4. CASE RecvPuback
  BY <1>4, PubackStep
<1>5. CASE PubInfoProc
  <2>1. /\ Listed' \subseteq Listed /\ Owed' = Owed
        /\ Sent' \subseteq Sent \cup {p \in Listed : p.msg \in Owed}
    BY <1>5, ProcEffect, TypeParts
  <2>2. UNCHANGED <<packet_id, down, made, got>>
    BY <1>5 DEF PubInfoProc, read
  <2>3. Acks' = Acks
    BY <2>2 DEF Acks, NodesOf
  <2>4. QED
    BY <1>2, <2>1, <2>2, <2>3 DEF Harmless
<1>6. CASE ReportInBadState \/ ReportListFull \/ ReportWriteFailed
  <2>1. /\ UNCHANGED <<pub_to_ack, got, up, down>>
        /\ packet_id' \in {packet_id, NextPacketId} /\ made' = made + 1 /\ made < MaxReports
    BY <1>6 DEF ReportInBadState, ReportListFull, ReportWriteFailed, Handler, Learned, read
  <2>2. packet_id <= packet_id' /\ made <= made' /\ packet_id' <= made'
    BY <1>2, <2>1, NextIdFresh
  <2>3. QED
    BY <2>1, <2>2, NothingNew
<1>7. CASE Report
  BY <1>7, ReportStep
<1>8. CASE RequestsTimeOut
  <2>1. Listed' = Listed /\ Owed' = Owed
    BY <1>8, LateEffect, TypeParts
  <2>2. UNCHANGED <<packet_id, up, down, made, got>>
    BY <1>8 DEF RequestsTimeOut, net, read
  <2>3. Acks' = Acks /\ Sent' = Sent
    BY <2>2 DEF Acks, Sent, Pairs, NodesOf
  <2>4. QED
    BY <1>2, <2>1, <2>2, <2>3 DEF Harmless
<1>9. CASE BrokerReceives
  BY <1>9, BrokerStep
<1>10. CASE ReportRestarts
  BY <1>10, RestartStep
<1>11. QED
  BY <1>3, <1>4, <1>5, <1>6, <1>7, <1>8, <1>9, <1>10 DEF Next, Task, Command

LEMMA TrackedHolds ==
  ASSUME NoWrap
  PROVE  Spec => []Tracked
<1>1. Init => Tracked
  <2>1. SUFFICES ASSUME Init PROVE Tracked
    OBVIOUS
  <2>2. Listed = {} /\ Sent = {} /\ Acks = {}
    <3>1. NodesOf(pub_to_ack) = {} /\ NodesOf(up) = {} /\ NodesOf(down) = {}
      BY <2>1, NodesOfEmpty DEF Init
    <3>2. QED
      BY <3>1 DEF Listed, Pairs, Sent, Acks
  <2>3. packet_id = 0 /\ made = 0 /\ got = {}
    BY <2>1 DEF Init
  <2>4. QED
    BY <2>2, <2>3 DEF Tracked
<1>2. TypeOK /\ TypeOK' /\ Tracked /\ [Next]_vars => Tracked'
  BY EveryStep
<1>3. QED
  BY <1>1, <1>2, TypeCorrect, PTL DEF Spec

\* AcksAreTrue: a PUBACK under way never names a waiting report the broker does not
\* have, whichever connection its id was used on.
THEOREM AcksTrue ==
  ASSUME NoWrap
  PROVE  Spec => []AcksAreTrue
<1>1. TypeOK /\ Tracked => AcksAreTrue
  <2>1. SUFFICES ASSUME TypeOK, Tracked,
                        NEW k \in DOMAIN down, NEW i \in DOMAIN pub_to_ack,
                        pub_to_ack[i].id = down[k]
                 PROVE  pub_to_ack[i].msg \in got
    BY DEF AcksAreTrue
  <2>2. down[k] \in Acks
    BY DEF Acks, NodesOf
  <2>3. [id |-> pub_to_ack[i].id, msg |-> pub_to_ack[i].msg] \in Listed
    BY ListedIs
  <2>4. QED
    BY <2>1, <2>2, <2>3 DEF Tracked
<1>2. QED
  BY <1>1, TypeCorrect, TrackedHolds, PTL

\* KeepsPromise: publishing implements at-least-once delivery: a report is forgotten
\* only when the broker has it.
THEOREM PromiseKept ==
  ASSUME NoWrap
  PROVE  Spec => KeepsPromise
<1>1. Init => Promise!Init
  <2>1. SUFFICES ASSUME Init PROVE Owed = {} /\ got = {}
    BY DEF Promise!Init
  <2>2. pub_to_ack = <<>> /\ got = {}
    BY <2>1 DEF Init
  <2>3. QED
    BY <2>2, NodesOfEmpty, OwedIs
<1>2. TypeOK /\ TypeOK' /\ Tracked /\ [Next]_vars => [Promise!Next]_(Promise!vars)
  BY EveryStep DEF PromiseStep, Promise!vars
<1>3. QED
  BY <1>1, <1>2, TypeCorrect, TrackedHolds, PTL DEF Spec, KeepsPromise, Promise!Spec

-----------------------------------------------------------------------------
(* The first copy goes before the others                                   *)

\* The reports with a first copy before position i.
Before(i) == {up[j].msg : j \in {k \in DOMAIN up : k < i /\ up[k].whole}}

\* What waits has been read whole, has lost its first copy, or has it on the way; a
\* copy out of the list has one before it.
FirstFirst ==
  /\ got \subseteq whole \cup lost
  /\ \A n \in NodesOf(pub_to_ack) : n.msg \in whole \cup lost \cup FirstCopies
  /\ \A i \in DOMAIN up : ~up[i].whole => up[i].msg \in whole \cup lost \cup Before(i)

LEMMA BeforeIsFirst == \A i : Before(i) \subseteq FirstCopies
BY DEF Before, FirstCopies

\* The packets are left alone or lost, and no node is new.
LEMMA NothingSent ==
  ASSUME FirstFirst, UNCHANGED read, lost \subseteq lost',
         \A n \in NodesOf(pub_to_ack') : \E o \in NodesOf(pub_to_ack) : n.msg = o.msg,
         UNCHANGED up \/ (up' = <<>> /\ FirstCopies \subseteq lost')
  PROVE  FirstFirst'
<1>1. NodesOf(pub_to_ack)' = NodesOf(pub_to_ack')
  BY DEF NodesOf
<1>2. CASE UNCHANGED up
  <2>1. FirstCopies' = FirstCopies /\ \A i : Before(i)' = Before(i)
    BY <1>2 DEF FirstCopies, Before
  <2>2. QED
    BY <1>1, <1>2, <2>1 DEF FirstFirst, read
<1>3. CASE up' = <<>> /\ FirstCopies \subseteq lost'
  BY <1>1, <1>3 DEF FirstFirst, read
<1>4. QED
  BY <1>2, <1>3

LEMMA ReportFirst ==
  ASSUME TypeOK, FirstFirst, Report
  PROVE  FirstFirst'
<1> DEFINE node == [id |-> packet_id', msg |-> made', state |-> "NORMAL", late |-> FALSE]
<1>1. /\ UNCHANGED read /\ packet_id' \in 1 .. PacketIdMax /\ made' \in Reports
      /\ up \in Seq(Packet) /\ pub_to_ack \in Seq(Node)
  BY NextIdType, MqttPubAssumption
  DEF Report, Handler, Learned, Reports, TypeOK, Packet
<1>2. NodesOf(pub_to_ack)' = NodesOf(pub_to_ack) \cup {node} /\ node.msg = made'
  <2>1. node \in Node /\ node.msg = made'
    BY <1>1, Zenon DEF Node
  <2>2. pub_to_ack' = Append(pub_to_ack, node)
    BY DEF Report
  <2> HIDE DEF node
  <2>3. NodesOf(pub_to_ack') = NodesOf(pub_to_ack) \cup {node}
    BY <1>1, <2>1, <2>2, NodesOfAppend
  <2>4. QED
    BY <2>1, <2>3 DEF NodesOf
<1> HIDE DEF node
<1>3. CASE lost' = lost \cup {made'} /\ UNCHANGED up
  <2>1. FirstCopies' = FirstCopies /\ \A i : Before(i)' = Before(i)
    BY <1>3 DEF FirstCopies, Before
  <2>2. QED
    BY <1>1, <1>2, <1>3, <2>1 DEF FirstFirst, read
<1>4. CASE up' = Append(up, FirstCopy(packet_id', made')) /\ UNCHANGED lost
  <2>1. FirstCopy(packet_id', made').msg = made' /\ FirstCopy(packet_id', made').whole
    BY DEF FirstCopy
  <2>2. SUFFICES ASSUME NEW e \in Packet, e.msg = made', e.whole, up' = Append(up, e)
                 PROVE  FirstFirst'
    <3>1. FirstCopy(packet_id', made') \in Packet
      BY <1>1 DEF Packet, FirstCopy
    <3>2. QED
      BY <1>4, <2>1, <3>1
  <2>3. /\ DOMAIN up = 1 .. Len(up) /\ Len(up) \in Nat
        /\ DOMAIN up' = 1 .. Len(up) + 1
        /\ \A i \in 1 .. Len(up) : up'[i] = up[i]
        /\ up'[Len(up) + 1] = e
    BY <1>1, <2>2
  <2>4. FirstCopies \cup {made'} \subseteq FirstCopies'
    BY <2>2, <2>3 DEF FirstCopies
  <2>5. \A i \in DOMAIN up : Before(i) \subseteq Before(i)'
    BY <2>3 DEF Before
  <2>6. \A i \in DOMAIN up' :
          ~up'[i].whole => up'[i].msg \in whole' \cup lost' \cup Before(i)'
    <3>1. SUFFICES ASSUME NEW i \in DOMAIN up', ~up'[i].whole
                   PROVE  up'[i].msg \in whole' \cup lost' \cup Before(i)'
      OBVIOUS
    <3>2. i \in DOMAIN up /\ up'[i] = up[i]
      BY <2>2, <2>3, <3>1
    <3>3. QED
      BY <1>1, <1>4, <2>5, <3>1, <3>2 DEF FirstFirst, read
  <2>7. QED
    BY <1>1, <1>2, <1>4, <2>4, <2>6 DEF FirstFirst, read
<1>5. QED
  BY <1>3, <1>4 DEF Report

LEMMA ProcFirst ==
  ASSUME TypeOK, FirstFirst, PubInfoProc
  PROVE  FirstFirst'
<1>1. /\ UNCHANGED <<read, lost>> /\ up \in Seq(Packet) /\ ListType /\ UpType
      /\ up' = up \/ up' = up \o Copies(ToRepublish)
  BY TypeParts DEF PubInfoProc, history, UpType
<1>2. NodesOf(pub_to_ack') \subseteq NodesOf(pub_to_ack)
  BY <1>1, ProcEffect
<1>3. CASE up' = up
  BY <1>1, <1>2, <1>3, NothingSent
<1>4. CASE up' = up \o Copies(ToRepublish)
  <2>1. /\ Copies(ToRepublish) \in Seq(Packet)
        /\ \A p \in NodesOf(Copies(ToRepublish)) : p.msg \in Owed
    BY <1>1, RepublishedIs
  <2>2. SUFFICES ASSUME NEW t \in Seq(Packet), up' = up \o t, \A p \in NodesOf(t) : p.msg \in Owed
                 PROVE  FirstFirst'
    BY <1>4, <2>1
  <2>3. /\ DOMAIN up = 1 .. Len(up) /\ Len(up) \in Nat
        /\ DOMAIN t = 1 .. Len(t) /\ Len(t) \in Nat
        /\ DOMAIN up' = 1 .. Len(up) + Len(t)
        /\ \A i \in 1 .. Len(up) : up'[i] = up[i]
        /\ \A i \in 1 .. Len(t) : up'[Len(up) + i] = t[i]
    BY <1>1, <2>2, ConcatProperties
  <2>4. FirstCopies \subseteq FirstCopies'
    BY <2>3 DEF FirstCopies
  <2>5. \A i \in DOMAIN up : Before(i) \subseteq Before(i)'
    BY <2>3 DEF Before
  <2>6. \A i \in DOMAIN up' : i > Len(up) => FirstCopies \subseteq Before(i)'
    BY <2>3 DEF Before, FirstCopies
  <2>7. Owed \subseteq whole \cup lost \cup FirstCopies
    BY OwedIs DEF FirstFirst
  <2>8. \A i \in DOMAIN up' :
          ~up'[i].whole => up'[i].msg \in whole' \cup lost' \cup Before(i)'
    <3>1. SUFFICES ASSUME NEW i \in DOMAIN up', ~up'[i].whole
                   PROVE  up'[i].msg \in whole' \cup lost' \cup Before(i)'
      OBVIOUS
    <3>2. CASE i \in DOMAIN up
      BY <1>1, <2>3, <2>5, <3>1, <3>2 DEF FirstFirst, read
    <3>3. CASE i \notin DOMAIN up
      <4>1. i \in Nat /\ i > Len(up) /\ i - Len(up) \in 1 .. Len(t)
        BY <2>3, <3>1, <3>3
      <4>2. up'[i] = t[i - Len(up)]
        <5>1. PICK k \in 1 .. Len(t) : k = i - Len(up)
          BY <4>1
        <5>2. i = Len(up) + k
          BY <2>3, <4>1, <5>1
        <5>3. QED
          BY <2>3, <5>1, <5>2
      <4>3. t[i - Len(up)] \in NodesOf(t)
        BY <2>3, <4>1 DEF NodesOf
      <4>4. up'[i].msg \in Owed
        BY <2>2, <4>2, <4>3
      <4>5. QED
        BY <1>1, <2>6, <2>7, <4>1, <4>4 DEF read
    <3>4. QED
      BY <3>2, <3>3
  <2>9. NodesOf(pub_to_ack)' = NodesOf(pub_to_ack')
    BY DEF NodesOf
  <2>10. QED
    BY <1>1, <1>2, <2>4, <2>8, <2>9 DEF FirstFirst, read
<1>5. QED
  BY <1>1, <1>3, <1>4

\* The broker reads the first packet: when it is a copy out of the list, nothing is
\* before it.
LEMMA BrokerFirst ==
  ASSUME TypeOK, FirstFirst, BrokerReceives
  PROVE  FirstFirst'
<1>1. /\ up \in Seq(Packet) /\ up # <<>> /\ up' = Tail(up) /\ UNCHANGED <<pub_to_ack, lost>>
      /\ got' = got \cup {Head(up).msg}
      /\ whole' = IF Head(up).whole THEN whole \cup {Head(up).msg} ELSE whole
  BY DEF BrokerReceives, history, TypeOK, Packet
<1>2. /\ DOMAIN up = 1 .. Len(up) /\ Len(up) \in Nat \ {0} /\ Head(up) = up[1]
      /\ DOMAIN up' = 1 .. Len(up) - 1
      /\ \A i \in 1 .. Len(up) - 1 : up'[i] = up[i + 1]
  BY <1>1
<1>3. Head(up).msg \in whole' \cup lost'
  <2>1. CASE Head(up).whole
    BY <1>1, <2>1
  <2>2. CASE ~Head(up).whole
    <3>1. 1 \in DOMAIN up /\ Before(1) = {}
      BY <1>2 DEF Before
    <3>2. QED
      BY <1>1, <1>2, <2>2, <3>1 DEF FirstFirst
  <2>3. QED
    BY <2>1, <2>2
<1>4. FirstCopies \subseteq whole' \cup FirstCopies'
  <2>1. SUFFICES ASSUME NEW i \in DOMAIN up, up[i].whole
                 PROVE  up[i].msg \in whole' \cup FirstCopies'
    BY DEF FirstCopies
  <2>2. CASE i = 1
    BY <1>1, <1>2, <2>1, <2>2
  <2>3. CASE i # 1
    <3>1. i - 1 \in DOMAIN up' /\ up'[i - 1] = up[i]
      <4>1. PICK k \in 1 .. Len(up) - 1 : k = i - 1 /\ i = k + 1
        BY <1>2, <2>1, <2>3
      <4>2. QED
        BY <1>2, <4>1
    <3>2. QED
      BY <2>1, <3>1 DEF FirstCopies
  <2>4. QED
    BY <2>2, <2>3
<1>5. ASSUME NEW i \in DOMAIN up' PROVE Before(i + 1) \subseteq whole' \cup Before(i)'
  <2>1. SUFFICES ASSUME NEW j \in DOMAIN up, j < i + 1, up[j].whole
                 PROVE  up[j].msg \in whole' \cup Before(i)'
    BY DEF Before
  <2>2. CASE j = 1
    BY <1>1, <1>2, <2>1, <2>2
  <2>3. CASE j # 1
    <3>1. PICK k \in 1 .. Len(up) - 1 : k = j - 1 /\ j = k + 1 /\ k < i
      BY <1>2, <2>1, <2>3
    <3>2. k \in DOMAIN up' /\ up'[k] = up[j]
      BY <1>2, <3>1
    <3>3. QED
      BY <2>1, <3>1, <3>2 DEF Before
  <2>4. QED
    BY <2>2, <2>3
<1>6. \A i \in DOMAIN up' : ~up'[i].whole => up'[i].msg \in whole' \cup lost' \cup Before(i)'
  <2>1. SUFFICES ASSUME NEW i \in DOMAIN up', ~up'[i].whole
                 PROVE  up'[i].msg \in whole' \cup lost' \cup Before(i)'
    OBVIOUS
  <2>2. i + 1 \in DOMAIN up /\ up'[i] = up[i + 1]
    BY <1>2
  <2>3. up[i + 1].msg \in whole \cup lost \cup Before(i + 1)
    BY <2>1, <2>2 DEF FirstFirst
  <2>4. whole \subseteq whole' /\ lost' = lost
    BY <1>1
  <2>5. QED
    BY <1>5, <2>2, <2>3, <2>4
<1>7. QED
  <2>1. whole \subseteq whole' /\ lost' = lost /\ NodesOf(pub_to_ack)' = NodesOf(pub_to_ack)
    BY <1>1 DEF NodesOf
  <2>2. QED
    BY <1>1, <1>3, <1>4, <1>6, <2>1 DEF FirstFirst

\* The other steps send nothing.
LEMMA OthersFirst ==
  ASSUME TypeOK, FirstFirst, [Next]_vars, ~Report, ~PubInfoProc, ~BrokerReceives
  PROVE  FirstFirst'
<1>1. /\ UNCHANGED read /\ lost \subseteq lost'
      /\ UNCHANGED up \/ (up' = <<>> /\ FirstCopies \subseteq lost')
  BY DEF Next, Task, Command, KeepaliveIdle, CloseDown, Reconnect, CycleNotConnected,
     CycleTimeout, CycleReadError, RecvPuback, ReportInBadState, ReportListFull,
     ReportWriteFailed, ReportRestarts, Handler, RequestsTimeOut, LinkDies, vars, net,
     read, history
<1>2. \A n \in NodesOf(pub_to_ack') : \E o \in NodesOf(pub_to_ack) : n.msg = o.msg
  <2>1. ListType
    BY TypeParts
  <2>2. CASE RecvPuback \/ RequestsTimeOut
    <3>1. Listed' = Listed
      BY <2>1, <2>2, MaskEffect, LateEffect DEF RecvPuback
    <3>2. SUFFICES ASSUME NEW n \in NodesOf(pub_to_ack')
                   PROVE  \E o \in NodesOf(pub_to_ack) : n.msg = o.msg
      OBVIOUS
    <3>3. [id |-> n.id, msg |-> n.msg] \in Listed'
      BY <3>2 DEF Listed, Pairs, NodesOf
    <3>4. PICK o \in NodesOf(pub_to_ack) : [id |-> n.id, msg |-> n.msg] = [id |-> o.id, msg |-> o.msg]
      BY <3>1, <3>3 DEF Listed, Pairs
    <3>5. QED
      BY <3>4
  <2>3. CASE UNCHANGED pub_to_ack
    BY <2>3
  <2>4. CASE pub_to_ack' = <<>>
    BY <2>4, NodesOfEmpty
  <2>5. QED
    BY <2>2, <2>3, <2>4
    DEF Next, Task, Command, KeepaliveIdle, CloseDown, Reconnect, CycleNotConnected,
        CycleTimeout, CycleReadError, ReportInBadState, ReportListFull,
        ReportWriteFailed, ReportRestarts, LinkDies, vars
<1>3. QED
  BY <1>1, <1>2, NothingSent

\* CutAfterLoss: the broker has read a report to its end unless its first copy was lost
\* with its connection.
THEOREM CutIsAfterLoss == Spec => []CutAfterLoss
<1>1. Init => FirstFirst
  BY NodesOfEmpty DEF Init, FirstFirst
<1>2. TypeOK /\ FirstFirst /\ [Next]_vars => FirstFirst'
  BY ReportFirst, ProcFirst, BrokerFirst, OthersFirst
<1>3. FirstFirst => CutAfterLoss
  BY DEF FirstFirst, CutAfterLoss
<1>4. QED
  BY <1>1, <1>2, <1>3, TypeCorrect, PTL DEF Spec
=============================================================================
