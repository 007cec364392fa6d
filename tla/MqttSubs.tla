------------------------------ MODULE MqttSubs ------------------------------
(***************************************************************************)
(* Subscriptions of the MQTT client (mqtt_client.c): the requests that     *)
(* wait in sub_to_ack for their SUBACK or UNSUBACK, the table of handlers  *)
(* sub_handle, and the matching of a command's topic against the table.    *)
(*                                                                         *)
(* A broker's session is clean: it forgets its subscriptions with the      *)
(* connection.  The list and the table of the client outlive it, and the   *)
(* application (tcp_mqtt_yield) subscribes again after every reconnect.    *)
(* The connection is the one of MqttConn, seen from here: CONNECTED, lost, *)
(* or replaced by a new one.                                               *)
(*                                                                         *)
(* A topic is a sequence of characters, for the matching works on them.    *)
(***************************************************************************)
EXTENDS Naturals, FiniteSets, SequencesExt, Lists

CONSTANTS
  Wanted,       \* subscriptions of the application: filter and handler
  Names,        \* topics of the commands
  NoHandler,    \* NULL
  TableMax,     \* IOTX_MC_SUB_NUM_MAX (10)
  SubMax,       \* IOTX_MC_SUB_REQUEST_NUM_MAX (10)
  PacketIdMax,  \* IOTX_MC_PACKET_ID_MAX (65535)
  QueueMax,     \* bound: packets in flight in one direction
  MaxFaults     \* bound: how often the connection is lost

ASSUME MqttSubsAssumption ==
  /\ \A e \in Wanted : e.handler # NoHandler
  /\ TableMax \in Nat \ {0} /\ SubMax \in Nat \ {0}
  /\ PacketIdMax \in Nat \ {0} /\ QueueMax \in Nat \ {0} /\ MaxFaults \in Nat

VARIABLES
  pc,            \* "cycle" or "proc": what IOT_MQTT_Yield calls next
  client_state,
  sub_to_ack,    \* requests waiting for their acknowledgement
  sub_handle,    \* the table: an entry or Empty in each slot
  packet_id,
  link,          \* the TCP connection: "up" or "dead"
  up, down,      \* packets to and from the broker
  subscribed,    \* filters the broker has for this session
  called,        \* slots whose handler got the command just read
  granted,       \* history: the entries a SUBACK granted
  faults         \* history: how often the connection was lost

client == <<pc, client_state>>
net == <<link, up, down, subscribed>>
vars == <<client, sub_to_ack, sub_handle, packet_id, net, called, granted, faults>>

Empty == [filter |-> <<>>, handler |-> NoHandler]
Filters == {e.filter : e \in Wanted}

\* A request to unsubscribe carries no handler; its node says SUBSCRIBE too.
Node == [id : 1 .. PacketIdMax, state : {"NORMAL", "INVALID"},
         entry : Wanted \cup [filter : Filters, handler : {NoHandler}]]

Packet == [type : {"SUBSCRIBE", "UNSUBSCRIBE", "SUBACK", "SUBNACK", "UNSUBACK"},
           id : 1 .. PacketIdMax, topic : Filters]
          \cup [type : {"PUBLISH"}, id : {0}, topic : Names]

TypeOK ==
  /\ pc \in {"cycle", "proc"}
  /\ client_state \in {"CONNECTED", "DISCONNECTED"}
  /\ sub_to_ack \in Seq(Node) /\ Len(sub_to_ack) <= SubMax
  /\ sub_handle \in [1 .. TableMax -> Wanted \cup {Empty}]
  /\ packet_id \in 0 .. PacketIdMax
  /\ link \in {"up", "dead"}
  /\ up \in Seq(Packet) /\ down \in Seq(Packet)
  /\ subscribed \subseteq Filters
  /\ called \subseteq 1 .. TableMax
  /\ granted \subseteq Wanted
  /\ faults \in 0 .. MaxFaults

Init ==
  /\ pc = "cycle"
  /\ client_state = "CONNECTED"
  /\ sub_to_ack = <<>>
  /\ sub_handle = [i \in 1 .. TableMax |-> Empty]
  /\ packet_id = 0
  /\ link = "up" /\ up = <<>> /\ down = <<>>
  /\ subscribed = {}
  /\ called = {}
  /\ granted = {}
  /\ faults = 0

-----------------------------------------------------------------------------
(* Topics                                                                  *)

\* The last character of the level that character j of name is in.
LevelEnd(name, j) ==
  CHOOSE k \in j .. Len(name) :
    /\ k = Len(name) \/ name[k + 1] = "/"
    /\ \A m \in j .. k - 1 : name[m + 1] # "/"

\* Seeded bug: '#' ends with the level, as '+' does.
HashIsPlus(filter, name, i, j) ==
  IF filter[i] \in {"+", "#"} THEN LevelEnd(name, j) + 1 ELSE j + 1

\* Where the name goes on when the i-th character of the filter is consumed.
NextInName(filter, name, i, j) ==
  CASE filter[i] = "+" -> LevelEnd(name, j) + 1
    [] filter[i] = "#" -> Len(name) + 1
    [] OTHER -> j + 1

\* iotx_mc_is_topic_matched: one pass over both strings.
IsTopicMatched(filter, name) ==
  LET from[i \in 1 .. Len(filter) + 1, j \in 1 .. Len(name) + 1] ==
        IF i > Len(filter) \/ j > Len(name)
        THEN i > Len(filter) /\ j > Len(name)
        ELSE /\ name[j] = "/" => filter[i] = "/"
             /\ filter[i] \in {"+", "#", name[j]}
             /\ from[i + 1, NextInName(filter, name, i, j)]
  IN  from[1, 1]

\* What MQTT says of it: level by level, '+' stands for one, '#' for all that
\* follow.  (It also lets '#' stand for none; the code does not, and no command
\* has such a topic.)
Levels(s) ==
  FoldLeft(LAMBDA ls, c : IF c = "/" THEN Append(ls, <<>>)
                          ELSE [ls EXCEPT ![Len(ls)] = Append(@, c)], <<<<>>>>, s)

Covers(filter, name) ==
  LET f == Levels(filter)
      n == Levels(name)
      open == f[Len(f)] = <<"#">>
  IN  /\ IF open THEN Len(n) >= Len(f) ELSE Len(n) = Len(f)
      /\ \A k \in 1 .. (IF open THEN Len(f) - 1 ELSE Len(f)) : f[k] \in {<<"+">>, n[k]}

-----------------------------------------------------------------------------
(* The list of requests and the table of handlers                          *)

NextPacketId == IF packet_id = PacketIdMax THEN 1 ELSE packet_id + 1

HasNode(id) == \E i \in DOMAIN sub_to_ack : sub_to_ack[i].id = id

\* iotx_mc_mask_subInfo_from: the first node with this id ...
FirstWith(id) ==
  CHOOSE i \in DOMAIN sub_to_ack :
    sub_to_ack[i].id = id /\ \A j \in 1 .. i - 1 : sub_to_ack[j].id # id

\* ... becomes INVALID.
Masked(id) ==
  IF HasNode(id) THEN [sub_to_ack EXCEPT ![FirstWith(id)].state = "INVALID"] ELSE sub_to_ack

\* Seeded bug: two entries are the same when their handlers are.
SameHandler(e, f) == e.handler = f.handler

Identical(e, f) == e = f

Used == {i \in 1 .. TableMax : sub_handle[i] # Empty}
Known(e) == \E i \in Used : Identical(sub_handle[i], e)

\* The first free slot gets the entry, unless an identical one is there.
Registered(e) ==
  IF Known(e) \/ Used = 1 .. TableMax THEN sub_handle
  ELSE [sub_handle EXCEPT ![CHOOSE i \in (1 .. TableMax) \ Used :
                              \A j \in (1 .. TableMax) \ Used : i <= j] = e]

\* iotx_mc_deliver_message: every slot that equals or matches the topic.
Called(name) ==
  {i \in Used : sub_handle[i].filter = name \/ IsTopicMatched(sub_handle[i].filter, name)}

-----------------------------------------------------------------------------
(* The application's calls, between two calls of IOT_MQTT_Yield            *)

\* A request is pushed and sent; what is sent on a dead link is swallowed or
\* refused, and a refusal takes the node off again.  The id is not one of a
\* request that still waits: the ids have not gone once around meanwhile.
Request(type, entry) ==
  /\ pc = "cycle"
  /\ client_state = "CONNECTED"
  /\ Len(sub_to_ack) < SubMax
  /\ ~HasNode(NextPacketId)
  /\ packet_id' = NextPacketId
  /\ LET node == [id |-> packet_id', state |-> "NORMAL",
                  entry |-> entry]
         packet == [type |-> type, id |-> packet_id', topic |-> entry.filter]
     IN  \/ /\ Len(up) < QueueMax
            /\ sub_to_ack' = Append(sub_to_ack, node)
            /\ up' = IF link = "up" THEN Append(up, packet) ELSE up
            /\ UNCHANGED client_state
         \/ /\ link = "dead"
            /\ client_state' = "DISCONNECTED"
            /\ UNCHANGED <<sub_to_ack, up>>
  /\ UNCHANGED <<pc, sub_handle, link, down, subscribed, called, granted, faults>>

Subscribe(entry) == Request("SUBSCRIBE", entry)
Unsubscribe(filter) == Request("UNSUBSCRIBE", [filter |-> filter, handler |-> NoHandler])

\* The list is full: an id is used up and nothing is sent.
RequestRefused ==
  /\ pc = "cycle"
  /\ client_state = "CONNECTED"
  /\ Len(sub_to_ack) >= SubMax
  /\ packet_id' = NextPacketId
  /\ UNCHANGED <<client, sub_to_ack, sub_handle, net, called, granted, faults>>

\* A publication takes an id from the same sequence (MqttPub).
Publish ==
  /\ client_state = "CONNECTED"
  /\ packet_id' = NextPacketId
  /\ UNCHANGED <<client, sub_to_ack, sub_handle, net, called, granted, faults>>

-----------------------------------------------------------------------------
(* iotx_mc_cycle: one packet; MQTTSubInfoProc unless it was an error       *)

Receives(types) ==
  /\ pc = "cycle"
  /\ client_state = "CONNECTED"
  /\ down # <<>> /\ Head(down).type \in types
  /\ down' = Tail(down)
  /\ UNCHANGED <<client_state, packet_id, link, up, subscribed, faults>>

\* A SUBACK for no request, or one that finds the table full, is an error.
RecvSuback ==
  /\ Receives({"SUBACK"})
  /\ sub_to_ack' = Masked(Head(down).id)
  /\ IF HasNode(Head(down).id)
     THEN LET entry == sub_to_ack[FirstWith(Head(down).id)].entry
          IN  /\ sub_handle' = Registered(entry)
              /\ granted' = granted \cup {entry}
              /\ pc' = IF Known(entry) \/ Used # 1 .. TableMax THEN "proc" ELSE "cycle"
     ELSE UNCHANGED <<sub_handle, granted, pc>>
  /\ UNCHANGED called

\* 0x80: the request is over, and the topic is not in the table.
RecvSubnack ==
  /\ Receives({"SUBNACK"})
  /\ sub_to_ack' = Masked(Head(down).id)
  /\ UNCHANGED <<pc, sub_handle, called, granted>>

\* Every slot identical to what the request carried is cleared.
RecvUnsuback ==
  /\ Receives({"UNSUBACK"})
  /\ HasNode(Head(down).id)
  /\ sub_to_ack' = Masked(Head(down).id)
  /\ LET entry == sub_to_ack[FirstWith(Head(down).id)].entry
     IN  sub_handle' = [i \in 1 .. TableMax |->
                          IF i \in Used /\ Identical(sub_handle[i], entry)
                          THEN Empty ELSE sub_handle[i]]
  /\ pc' = "proc"
  /\ UNCHANGED <<called, granted>>

RecvPublish ==
  /\ Receives({"PUBLISH"})
  /\ called' = Called(Head(down).topic)
  /\ pc' = "proc"
  /\ UNCHANGED <<sub_to_ack, sub_handle, granted>>

IsNormal(n) == n.state = "NORMAL"

\* list_remove of every node that is not.
Cleaned == Kept(sub_to_ack, {i \in DOMAIN sub_to_ack : IsNormal(sub_to_ack[i])})

SubInfoProc ==
  /\ pc = "proc"
  /\ pc' = "cycle"
  /\ sub_to_ack' = Cleaned
  /\ called' = {}
  /\ UNCHANGED <<client_state, sub_handle, packet_id, net, granted, faults>>

-----------------------------------------------------------------------------
(* The connection and the broker                                           *)

LinkDies ==
  /\ link = "up"
  /\ faults < MaxFaults /\ faults' = faults + 1
  /\ link' = "dead"
  /\ up' = <<>> /\ down' \in {down, <<>>}
  /\ subscribed' = {}
  /\ UNCHANGED <<client, sub_to_ack, sub_handle, packet_id, called, granted>>

\* The loss is noticed and a new connection made (MqttConn); list and table stay.
Reconnect ==
  /\ pc = "cycle"
  /\ link = "dead"
  /\ link' = "up"
  /\ client_state' = "CONNECTED"
  /\ up' = <<>> /\ down' = <<>>
  /\ UNCHANGED <<pc, sub_to_ack, sub_handle, packet_id, subscribed, called, granted, faults>>

Answer(type) == [type |-> type, id |-> Head(up).id, topic |-> Head(up).topic]

BrokerAnswers ==
  /\ up # <<>> /\ Len(down) < QueueMax
  /\ up' = Tail(up)
  /\ \/ /\ Head(up).type = "SUBSCRIBE"
        /\ \/ /\ down' = Append(down, Answer("SUBACK"))
              /\ subscribed' = subscribed \cup {Head(up).topic}
           \/ /\ down' = Append(down, Answer("SUBNACK"))
              /\ UNCHANGED subscribed
     \/ /\ Head(up).type = "UNSUBSCRIBE"
        /\ down' = Append(down, Answer("UNSUBACK"))
        /\ subscribed' = subscribed \ {Head(up).topic}
  /\ UNCHANGED <<client, sub_to_ack, sub_handle, packet_id, link, called, granted, faults>>

BrokerPublishes(name) ==
  /\ link = "up" /\ Len(down) < QueueMax
  /\ \E f \in subscribed : Covers(f, name)
  /\ down' = Append(down, [type |-> "PUBLISH", id |-> 0, topic |-> name])
  /\ UNCHANGED <<client, sub_to_ack, sub_handle, packet_id, link, up, subscribed, called,
                 granted, faults>>

-----------------------------------------------------------------------------
Task ==
  \/ \E e \in Wanted : Subscribe(e)
  \/ \E f \in Filters : Unsubscribe(f)
  \/ RequestRefused \/ Publish
  \/ RecvSuback \/ RecvSubnack \/ RecvUnsuback \/ RecvPublish \/ SubInfoProc

Network == LinkDies \/ Reconnect \/ BrokerAnswers \/ \E n \in Names : BrokerPublishes(n)

Next == Task \/ Network

Spec == Init /\ [][Next]_vars

-----------------------------------------------------------------------------
(* Properties                                                              *)

\* A command is handed exactly once to each subscription that covers its topic
\* and that the broker ever granted, however often the device subscribed again:
\* repeated requests make no second entry, a refused one none, and the matching
\* loop agrees with MQTT.  (When more were granted than the table holds, it is
\* handed to some of them.)
HandedOnce ==
  [][RecvPublish =>
       LET due == {e \in granted : Covers(e.filter, Head(down).topic)}
           got == {sub_handle[i] : i \in called'}
       IN  /\ \A i, j \in called' : sub_handle[i] = sub_handle[j] => i = j
           /\ got \subseteq due
           /\ Cardinality(granted) <= TableMax => got = due]_vars

\* Whatever the broker will send the client has a handler for it, or the answer
\* that brings it is still under way, or the table was full: no order of
\* answers, losses and refusals files a handler under another request's topic.
SubscribedIsHandled ==
  /\ TypeOK
  /\ \A f \in subscribed :
       \/ \E i \in Used : sub_handle[i].filter = f
       \/ \E k \in DOMAIN down : down[k].type = "SUBACK" /\ down[k].topic = f
       \/ Used = 1 .. TableMax

-----------------------------------------------------------------------------
(* What a comment of the repository says, and the code does not do         *)

\* "Remove from message handler array" (mqtt_client.c:884).
UnsubscribedIsRemoved ==
  [][RecvUnsuback => \A i \in 1 .. TableMax : sub_handle'[i].filter # Head(down).topic]_vars
=============================================================================
