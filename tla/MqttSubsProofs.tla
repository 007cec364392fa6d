--------------------------- MODULE MqttSubsProofs ---------------------------
(***************************************************************************)
(* Theorems about MqttSubs for every set of subscriptions, every size of   *)
(* the table and of the list, and any number of packets and faults: what   *)
(* the broker sends has a handler, and is handed to it once.               *)
(***************************************************************************)
EXTENDS MqttSubs, ListsProofs, FiniteSetTheorems

-----------------------------------------------------------------------------
(* The invariant                                                           *)

OfRequest(p) == p.type # "PUBLISH"
Subscribing == {"SUBSCRIBE", "SUBACK", "SUBNACK"}

\* The request a packet belongs to still waits in the list.
Grounded(list, p) ==
  \E i \in DOMAIN list :
    /\ list[i].id = p.id /\ list[i].state = "NORMAL" /\ list[i].entry.filter = p.topic
    /\ p.type \in Subscribing => list[i].entry \in Wanted
    /\ p.type \notin Subscribing => list[i].entry.handler = NoHandler

\* A connection that is gone carries nothing and the broker forgot its session.
DeadIsEmpty == link = "dead" => up = <<>> /\ subscribed = {}

OneNodeEach == \A i, j \in DOMAIN sub_to_ack : sub_to_ack[i].id = sub_to_ack[j].id => i = j

UpGrounded ==
  \A p \in NodesOf(up) : p.type \in {"SUBSCRIBE", "UNSUBSCRIBE"} /\ Grounded(sub_to_ack, p)
DownGrounded ==
  \A p \in NodesOf(down) : OfRequest(p) => Grounded(sub_to_ack, p)

\* No request is under way twice, nor both asked and answered.
Single(s) == \A i, j \in DOMAIN s : s[i].id = s[j].id /\ OfRequest(s[i]) => i = j
Apart == \A p \in NodesOf(up), q \in NodesOf(down) : p.id # q.id

Flight == DeadIsEmpty /\ OneNodeEach /\ UpGrounded /\ DownGrounded
          /\ Single(up) /\ Single(down) /\ Apart

\* The table holds granted entries only, each once, and all of them until it is full.
Entries == {sub_handle[i] : i \in Used}
Table ==
  /\ \A i, j \in Used : sub_handle[i] = sub_handle[j] => i = j
  /\ Entries \subseteq granted
  /\ Entries = granted \/ Used = 1 .. TableMax
  /\ IsFiniteSet(granted)

Inv == TypeOK /\ Flight /\ Table

-----------------------------------------------------------------------------
(* Lists and queues                                                        *)

LEMMA NextIdType ==
  ASSUME TypeOK
  PROVE  NextPacketId \in 1 .. PacketIdMax
BY MqttSubsAssumption DEF NextPacketId, TypeOK

LEMMA HeadAndTail ==
  ASSUME NEW s \in Seq(Packet), s # <<>>
  PROVE  NodesOf(s) = {Head(s)} \cup NodesOf(Tail(s))
<1>1. /\ DOMAIN s = 1 .. Len(s) /\ Len(s) \in Nat \ {0} /\ Head(s) = s[1]
      /\ DOMAIN Tail(s) = 1 .. Len(s) - 1
      /\ \A i \in 1 .. Len(s) - 1 : Tail(s)[i] = s[i + 1]
  OBVIOUS
<1>2. ASSUME NEW p \in NodesOf(s), p # Head(s)
      PROVE  p \in NodesOf(Tail(s))
  <2>1. PICK i \in 1 .. Len(s) : p = s[i]
    BY <1>1 DEF NodesOf
  <2>2. i - 1 \in DOMAIN Tail(s) /\ Tail(s)[i - 1] = p
    BY <1>1, <1>2, <2>1
  <2>3. QED
    BY <2>2 DEF NodesOf
<1>3. QED
  BY <1>2, NodesOfTail

LEMMA SingleTail ==
  ASSUME NEW s \in Seq(Packet), s # <<>>, Single(s)
  PROVE  /\ Single(Tail(s))
         /\ OfRequest(Head(s)) => \A p \in NodesOf(Tail(s)) : p.id # Head(s).id
<1>1. /\ DOMAIN s = 1 .. Len(s) /\ Len(s) \in Nat \ {0} /\ Head(s) = s[1]
      /\ DOMAIN Tail(s) = 1 .. Len(s) - 1
      /\ \A i \in 1 .. Len(s) - 1 : Tail(s)[i] = s[i + 1]
  OBVIOUS
<1>2. \A i \in DOMAIN Tail(s) : i + 1 \in DOMAIN s /\ i + 1 # 1 /\ Tail(s)[i] = s[i + 1]
  BY <1>1
<1>3. 1 \in DOMAIN s
  BY <1>1
<1>4. ASSUME NEW i \in DOMAIN Tail(s), NEW j \in DOMAIN Tail(s),
             Tail(s)[i].id = Tail(s)[j].id, OfRequest(Tail(s)[i])
      PROVE  i = j
  <2>1. i + 1 = j + 1
    BY <1>2, <1>4 DEF Single
  <2>2. QED
    BY <1>1, <2>1
<1>5. ASSUME OfRequest(Head(s)), NEW p \in NodesOf(Tail(s)), p.id = Head(s).id
      PROVE  FALSE
  <2>1. PICK i \in DOMAIN Tail(s) : p = Tail(s)[i]
    BY DEF NodesOf
  <2>2. s[1].id = s[i + 1].id /\ OfRequest(s[1])
    BY <1>1, <1>2, <1>5, <2>1
  <2>3. QED
    BY <1>2, <1>3, <2>2 DEF Single
<1>6. QED
  BY <1>4, <1>5 DEF Single

LEMMA SingleAppend ==
  ASSUME NEW s \in Seq(Packet), NEW e \in Packet, Single(s),
         \A p \in NodesOf(s) : p.id = e.id => ~OfRequest(p) /\ ~OfRequest(e)
  PROVE  Single(Append(s, e))
<1> DEFINE t == Append(s, e)
<1>1. /\ DOMAIN s = 1 .. Len(s) /\ Len(s) \in Nat
      /\ DOMAIN t = 1 .. Len(s) + 1 /\ t[Len(s) + 1] = e
      /\ \A i \in 1 .. Len(s) : t[i] = s[i]
  OBVIOUS
<1> HIDE DEF t
<1>2. \A i \in DOMAIN t : i # Len(s) + 1 => i \in DOMAIN s /\ t[i] = s[i] /\ t[i] \in NodesOf(s)
  BY <1>1 DEF NodesOf
<1>3. ASSUME NEW i \in DOMAIN t, NEW j \in DOMAIN t, t[i].id = t[j].id, OfRequest(t[i])
      PROVE  i = j
  <2>1. CASE i # Len(s) + 1 /\ j # Len(s) + 1
    BY <1>2, <1>3, <2>1 DEF Single
  <2>2. CASE i # Len(s) + 1 /\ j = Len(s) + 1
    BY <1>1, <1>2, <1>3, <2>2
  <2>3. CASE i = Len(s) + 1 /\ j # Len(s) + 1
    BY <1>1, <1>2, <1>3, <2>3
  <2>4. QED
    BY <2>1, <2>2, <2>3
<1>4. QED
  BY <1>3 DEF Single, t

LEMMA SingleEmpty == Single(<<>>)
BY DEF Single

\* The answer to the request at i masks this node and no other.
LEMMA MaskedIs ==
  ASSUME TypeOK, OneNodeEach, NEW i \in DOMAIN sub_to_ack
  PROVE  LET id == sub_to_ack[i].id
             list == Masked(id)
         IN  /\ HasNode(id) /\ FirstWith(id) = i
             /\ list \in Seq(Node) /\ Len(list) = Len(sub_to_ack)
             /\ DOMAIN list = DOMAIN sub_to_ack
             /\ \A j \in DOMAIN list : list[j].id = sub_to_ack[j].id
             /\ \A j \in DOMAIN list : j # i => list[j] = sub_to_ack[j]
<1> DEFINE id == sub_to_ack[i].id
           list == Masked(id)
           node == [sub_to_ack[i] EXCEPT !.state = "INVALID"]
<1>1. sub_to_ack \in Seq(Node) /\ DOMAIN sub_to_ack = 1 .. Len(sub_to_ack)
  BY DEF TypeOK
<1>2. HasNode(id)
  BY DEF HasNode
<1>3. FirstWith(id) = i
  <2>1. sub_to_ack[i].id = id /\ \A j \in 1 .. i - 1 : sub_to_ack[j].id # id
    <3>1. \A j \in 1 .. i - 1 : j \in DOMAIN sub_to_ack /\ j # i
      BY <1>1
    <3>2. QED
      BY <3>1 DEF OneNodeEach
  <2>2. \A k \in DOMAIN sub_to_ack : sub_to_ack[k].id = id => k = i
    BY DEF OneNodeEach
  <2> HIDE DEF id
  <2>3. QED
    BY <2>1, <2>2 DEF FirstWith
<1>4. sub_to_ack[i] \in Node
  BY <1>1
<1>5. node \in Node /\ node.id = id
  BY <1>4 DEF Node
<1>6. list = [sub_to_ack EXCEPT ![i] = node]
  BY <1>2, <1>3 DEF Masked
<1>7. /\ list \in Seq(Node) /\ Len(list) = Len(sub_to_ack)
      /\ \A j \in 1 .. Len(sub_to_ack) : list[j] = IF j = i THEN node ELSE sub_to_ack[j]
  BY <1>1, <1>5, <1>6, ExceptSeq
<1>8. DOMAIN list = DOMAIN sub_to_ack
  BY <1>1, <1>7
<1> HIDE DEF list, node
<1>9. /\ \A j \in DOMAIN list : list[j].id = sub_to_ack[j].id
      /\ \A j \in DOMAIN list : j # i => list[j] = sub_to_ack[j]
  BY <1>1, <1>5, <1>7, <1>8
<1>10. QED
  BY <1>2, <1>3, <1>7, <1>8, <1>9 DEF list

\* What is grounded stays so, unless it is its own request that is answered.
LEMMA GroundedStays ==
  ASSUME TypeOK, OneNodeEach, NEW i \in DOMAIN sub_to_ack,
         NEW p, Grounded(sub_to_ack, p), p.id # sub_to_ack[i].id
  PROVE  Grounded(Masked(sub_to_ack[i].id), p)
<1> DEFINE list == Masked(sub_to_ack[i].id)
<1>1. PICK k \in DOMAIN sub_to_ack :
        /\ sub_to_ack[k].id = p.id /\ sub_to_ack[k].state = "NORMAL"
        /\ sub_to_ack[k].entry.filter = p.topic
        /\ p.type \in Subscribing => sub_to_ack[k].entry \in Wanted
        /\ p.type \notin Subscribing => sub_to_ack[k].entry.handler = NoHandler
  BY DEF Grounded
<1>2. k # i
  BY <1>1
<1>3. k \in DOMAIN list /\ list[k] = sub_to_ack[k]
  BY <1>2, MaskedIs
<1> HIDE DEF list
<1>4. Grounded(list, p)
  BY <1>1, <1>3 DEF Grounded
<1>5. QED
  BY <1>4 DEF list

\* A request more, or the clean-up of those that are answered.
LEMMA GroundedAppend ==
  ASSUME NEW list \in Seq(Node), NEW node \in Node, NEW p, Grounded(list, p)
  PROVE  Grounded(Append(list, node), p)
<1>1. \A i \in DOMAIN list : i \in DOMAIN Append(list, node) /\ Append(list, node)[i] = list[i]
  OBVIOUS
<1>2. QED
  BY <1>1 DEF Grounded

\* What Kept keeps it keeps in its order.
LEMMA CleanedIs ==
  ASSUME TypeOK
  PROVE  /\ Cleaned \in Seq(Node) /\ Len(Cleaned) <= SubMax
         /\ OneNodeEach =>
              \A i, j \in DOMAIN Cleaned : Cleaned[i].id = Cleaned[j].id => i = j
         /\ \A p : Grounded(sub_to_ack, p) => Grounded(Cleaned, p)
<1> DEFINE keep == {i \in DOMAIN sub_to_ack : IsNormal(sub_to_ack[i])}
           list == Kept(sub_to_ack, keep)
<1>1. sub_to_ack \in Seq(Node) /\ Len(sub_to_ack) <= SubMax /\ Len(sub_to_ack) \in Nat
      /\ SubMax \in Nat
  BY MqttSubsAssumption DEF TypeOK
<1>2. /\ list \in Seq(Node) /\ Len(list) <= Len(sub_to_ack)
      /\ {list[i] : i \in DOMAIN list} = {sub_to_ack[k] : k \in keep \cap DOMAIN sub_to_ack}
  BY <1>1, KeptNodes
<1>3. \E pos \in [DOMAIN list -> keep \cap DOMAIN sub_to_ack] :
        /\ \A i \in DOMAIN list : list[i] = sub_to_ack[pos[i]]
        /\ \A i, j \in DOMAIN list : i < j => pos[i] < pos[j]
  BY <1>1, KeptInOrder
<1>4. \A k \in DOMAIN sub_to_ack : sub_to_ack[k].state = "NORMAL" => k \in keep
  BY DEF IsNormal
<1>5. Cleaned = list
  BY DEF Cleaned
<1> HIDE DEF keep, list
<1>6. ASSUME OneNodeEach, NEW i \in DOMAIN list, NEW j \in DOMAIN list, list[i].id = list[j].id
      PROVE  i = j
  <2>1. PICK pos \in [DOMAIN list -> keep \cap DOMAIN sub_to_ack] :
          /\ \A m \in DOMAIN list : list[m] = sub_to_ack[pos[m]]
          /\ \A m, n \in DOMAIN list : m < n => pos[m] < pos[n]
    BY <1>3
  <2>2. pos[i] \in DOMAIN sub_to_ack /\ pos[j] \in DOMAIN sub_to_ack
    OBVIOUS
  <2>3. pos[i] = pos[j]
    BY <1>6, <2>1, <2>2 DEF OneNodeEach
  <2>4. i \in Nat /\ j \in Nat /\ pos[i] \in Nat
    BY <1>1, <1>2, <2>2
  <2>5. ~(i < j) /\ ~(j < i)
    BY <2>1, <2>3, <2>4
  <2>6. QED
    BY <2>4, <2>5
<1>7. ASSUME NEW p, Grounded(sub_to_ack, p)
      PROVE  Grounded(list, p)
  <2>1. PICK k \in DOMAIN sub_to_ack :
          /\ sub_to_ack[k].id = p.id /\ sub_to_ack[k].state = "NORMAL"
          /\ sub_to_ack[k].entry.filter = p.topic
          /\ p.type \in Subscribing => sub_to_ack[k].entry \in Wanted
          /\ p.type \notin Subscribing => sub_to_ack[k].entry.handler = NoHandler
    BY <1>7 DEF Grounded
  <2>2. sub_to_ack[k] \in {list[i] : i \in DOMAIN list}
    BY <1>2, <1>4, <2>1
  <2>3. PICK i \in DOMAIN list : list[i] = sub_to_ack[k]
    BY <2>2
  <2>4. QED
    BY <2>1, <2>3 DEF Grounded
<1>8. QED
  BY <1>1, <1>2, <1>5, <1>6, <1>7

\* What an answer is about, and what it leaves alone.
LEMMA AnswerIs ==
  ASSUME TypeOK, Flight, down # <<>>, OfRequest(Head(down))
  PROVE  LET id == Head(down).id
             entry == sub_to_ack[FirstWith(id)].entry
         IN  /\ HasNode(id) /\ FirstWith(id) \in DOMAIN sub_to_ack
             /\ sub_to_ack[FirstWith(id)].id = id
             /\ entry.filter = Head(down).topic
             /\ Head(down).type \in Subscribing => entry \in Wanted
             /\ Head(down).type \notin Subscribing => entry.handler = NoHandler
             /\ \A p \in NodesOf(Tail(down)) : p.id # id
             /\ \A p \in NodesOf(up) : p.id # id
<1>1. down \in Seq(Packet) /\ up \in Seq(Packet)
  BY DEF TypeOK
<1>2. Head(down) \in NodesOf(down)
  BY <1>1, NodesOfTail
<1>3. PICK i \in DOMAIN sub_to_ack :
        /\ sub_to_ack[i].id = Head(down).id
        /\ sub_to_ack[i].entry.filter = Head(down).topic
        /\ Head(down).type \in Subscribing => sub_to_ack[i].entry \in Wanted
        /\ Head(down).type \notin Subscribing => sub_to_ack[i].entry.handler = NoHandler
  BY <1>2 DEF Flight, DownGrounded, Grounded
<1>4. HasNode(Head(down).id) /\ FirstWith(Head(down).id) = i
  BY <1>3, MaskedIs DEF Flight
<1>5. \A p \in NodesOf(Tail(down)) : p.id # Head(down).id
  BY <1>1, SingleTail DEF Flight
<1>6. \A p \in NodesOf(up) : p.id # Head(down).id
  BY <1>2 DEF Flight, Apart
<1>7. QED
  BY <1>3, <1>4, <1>5, <1>6

\* What a request puts on the list and on the way.
LEMMA RequestMakes ==
  ASSUME TypeOK, NEW type \in {"SUBSCRIBE", "UNSUBSCRIBE"},
         NEW entry \in Wanted \cup [filter : Filters, handler : {NoHandler}]
  PROVE  /\ [id |-> NextPacketId, state |-> "NORMAL", entry |-> entry] \in Node
         /\ [type |-> type, id |-> NextPacketId, topic |-> entry.filter] \in Packet
<1>1. NextPacketId \in 1 .. PacketIdMax
  BY NextIdType
<1>2. entry.filter \in Filters
  BY DEF Filters
<1>3. QED
  BY <1>1, <1>2 DEF Node, Packet

LEMMA RegisteredType ==
  ASSUME TypeOK, NEW e \in Wanted
  PROVE  /\ Registered(e) \in [1 .. TableMax -> Wanted \cup {Empty}]
         /\ \A i \in Used : Registered(e)[i] = sub_handle[i]
         /\ Known(e) \/ Used = 1 .. TableMax => Registered(e) = sub_handle
         /\ ~Known(e) /\ Used # 1 .. TableMax =>
              \E n \in (1 .. TableMax) \ Used : Registered(e) = [sub_handle EXCEPT ![n] = e]
<1>1. sub_handle \in [1 .. TableMax -> Wanted \cup {Empty}]
  BY DEF TypeOK
<1>2. CASE Known(e) \/ Used = 1 .. TableMax
  BY <1>1, <1>2 DEF Registered
<1>3. CASE ~(Known(e) \/ Used = 1 .. TableMax)
  <2> DEFINE free == (1 .. TableMax) \ Used
  <2>1. free \in SUBSET Nat /\ free # {}
    <3>1. Used \in SUBSET (1 .. TableMax)
      BY DEF Used
    <3>2. \E n \in 1 .. TableMax : n \notin Used
      BY <1>3, <3>1
    <3>3. 1 .. TableMax \subseteq Nat
      BY MqttSubsAssumption
    <3>4. QED
      BY <3>2, <3>3
  <2>2. \E n \in free : \A m \in free : n <= m
    <3> HIDE DEF free
    <3>1. QED
      BY <2>1, Least
  <2>3. PICK n \in free : Registered(e) = [sub_handle EXCEPT ![n] = e]
    BY <1>3, <2>2 DEF Registered
  <2>4. n \in 1 .. TableMax /\ n \notin Used
    OBVIOUS
  <2>5. Registered(e) \in [1 .. TableMax -> Wanted \cup {Empty}]
    BY <1>1, <2>3, <2>4
  <2>6. \A i \in Used : Registered(e)[i] = sub_handle[i]
    BY <1>1, <2>3, <2>4 DEF Used
  <2>7. QED
    BY <1>3, <2>3, <2>5, <2>6
<1>4. QED
  BY <1>2, <1>3

-----------------------------------------------------------------------------
(* Types                                                                   *)

LEMMA TypeInit == Init => TypeOK
<1> SUFFICES ASSUME Init PROVE TypeOK
  OBVIOUS
<1>1. <<>> \in Seq(Node) /\ <<>> \in Seq(Packet) /\ Len(<<>>) = 0
  BY NothingInIt
<1>2. QED
  BY <1>1, MqttSubsAssumption DEF Init, TypeOK

\* The list after each action that touches it.
LEMMA ListTypeStep ==
  ASSUME TypeOK, Flight, [Next]_vars
  PROVE  sub_to_ack' \in Seq(Node) /\ Len(sub_to_ack') <= SubMax
<1>1. sub_to_ack \in Seq(Node) /\ Len(sub_to_ack) <= SubMax /\ SubMax \in Nat
  BY MqttSubsAssumption DEF TypeOK
<1>2. ASSUME NEW type \in {"SUBSCRIBE", "UNSUBSCRIBE"},
             NEW entry \in Wanted \cup [filter : Filters, handler : {NoHandler}],
             Request(type, entry)
      PROVE  sub_to_ack' \in Seq(Node) /\ Len(sub_to_ack') <= SubMax
  <2> DEFINE node == [id |-> NextPacketId, state |-> "NORMAL", entry |-> entry]
  <2>1. node \in Node
    BY RequestMakes
  <2>2. sub_to_ack' = Append(sub_to_ack, node) \/ sub_to_ack' = sub_to_ack
    BY <1>2 DEF Request
  <2>3. Len(sub_to_ack) < SubMax
    BY <1>2 DEF Request
  <2> HIDE DEF node
  <2>4. QED
    BY <1>1, <2>1, <2>2, <2>3
<1>3. CASE \E e \in Wanted : Subscribe(e)
  BY <1>2, <1>3 DEF Subscribe
<1>4. CASE \E f \in Filters : Unsubscribe(f)
  BY <1>2, <1>4 DEF Unsubscribe
<1>5. CASE RecvSuback \/ RecvSubnack \/ RecvUnsuback
  <2>1. /\ down # <<>> /\ OfRequest(Head(down))
        /\ sub_to_ack' = Masked(Head(down).id)
    BY <1>5 DEF RecvSuback, RecvSubnack, RecvUnsuback, Receives, OfRequest
  <2>2. /\ FirstWith(Head(down).id) \in DOMAIN sub_to_ack
        /\ sub_to_ack[FirstWith(Head(down).id)].id = Head(down).id
    BY <2>1, AnswerIs
  <2>3. sub_to_ack' \in Seq(Node) /\ Len(sub_to_ack') = Len(sub_to_ack)
    BY <2>1, <2>2, MaskedIs DEF Flight
  <2>4. QED
    BY <1>1, <2>3
<1>6. CASE SubInfoProc
  BY <1>6, CleanedIs DEF SubInfoProc
<1>7. CASE RequestRefused \/ Publish \/ RecvPublish \/ Network \/ UNCHANGED vars
  <2>1. UNCHANGED sub_to_ack
    BY <1>7 DEF RequestRefused, Publish, RecvPublish, Network, LinkDies, Reconnect,
       BrokerAnswers, BrokerPublishes, vars
  <2>2. QED
    BY <1>1, <2>1
<1>8. QED
  BY <1>3, <1>4, <1>5, <1>6, <1>7 DEF Next, Task

LEMMA TableTypeStep ==
  ASSUME TypeOK, Flight, [Next]_vars
  PROVE  /\ sub_handle' \in [1 .. TableMax -> Wanted \cup {Empty}]
         /\ granted' \subseteq Wanted
         /\ called' \subseteq 1 .. TableMax
<1> USE DEF TypeOK
<1>1. CASE RecvSuback
  <2>1. /\ down # <<>> /\ OfRequest(Head(down)) /\ Head(down).type \in Subscribing
    BY <1>1 DEF RecvSuback, Receives, OfRequest, Subscribing
  <2> DEFINE e == sub_to_ack[FirstWith(Head(down).id)].entry
  <2>2. HasNode(Head(down).id) /\ e \in Wanted
    BY <2>1, AnswerIs
  <2>3. sub_handle' = Registered(e) /\ granted' = granted \cup {e} /\ UNCHANGED called
    BY <1>1, <2>2 DEF RecvSuback
  <2> HIDE DEF e
  <2>4. QED
    BY <2>2, <2>3, RegisteredType
<1>2. CASE RecvUnsuback
  <2>1. /\ UNCHANGED <<called, granted>>
        /\ \E g : sub_handle' = [i \in 1 .. TableMax |->
                     IF i \in Used /\ Identical(sub_handle[i], g) THEN Empty ELSE sub_handle[i]]
    BY <1>2 DEF RecvUnsuback
  <2>2. QED
    BY <2>1
<1>3. CASE RecvPublish
  BY <1>3 DEF RecvPublish, Called, Used
<1>4. CASE SubInfoProc
  BY <1>4 DEF SubInfoProc
<1>5. CASE (\E e \in Wanted : Subscribe(e)) \/ (\E f \in Filters : Unsubscribe(f))
           \/ RequestRefused \/ Publish \/ RecvSubnack \/ Network \/ UNCHANGED vars
  BY <1>5 DEF Subscribe, Unsubscribe, Request, RequestRefused, Publish, RecvSubnack, Network,
     LinkDies, Reconnect, BrokerAnswers, BrokerPublishes, vars
<1>6. QED
  BY <1>1, <1>2, <1>3, <1>4, <1>5 DEF Next, Task

LEMMA QueueTypeStep ==
  ASSUME TypeOK, Flight, [Next]_vars
  PROVE  up' \in Seq(Packet) /\ down' \in Seq(Packet) /\ subscribed' \subseteq Filters
<1>1. up \in Seq(Packet) /\ down \in Seq(Packet) /\ subscribed \subseteq Filters
  BY DEF TypeOK
<1>2. ASSUME NEW type \in {"SUBSCRIBE", "UNSUBSCRIBE"},
             NEW entry \in Wanted \cup [filter : Filters, handler : {NoHandler}],
             Request(type, entry)
      PROVE  up' \in Seq(Packet) /\ UNCHANGED <<down, subscribed>>
  <2> DEFINE packet == [type |-> type, id |-> NextPacketId, topic |-> entry.filter]
  <2>1. packet \in Packet
    BY RequestMakes
  <2>2. up' = Append(up, packet) \/ up' = up
    BY <1>2 DEF Request
  <2>3. UNCHANGED <<down, subscribed>>
    BY <1>2 DEF Request
  <2> HIDE DEF packet
  <2>4. QED
    BY <1>1, <2>1, <2>2, <2>3
<1>3. CASE \E e \in Wanted : Subscribe(e)
  BY <1>1, <1>2, <1>3 DEF Subscribe
<1>4. CASE \E f \in Filters : Unsubscribe(f)
  BY <1>1, <1>2, <1>4 DEF Unsubscribe
<1>5. CASE RecvSuback \/ RecvSubnack \/ RecvUnsuback \/ RecvPublish
  BY <1>1, <1>5 DEF RecvSuback, RecvSubnack, RecvUnsuback, RecvPublish, Receives
<1>6. CASE RequestRefused \/ Publish \/ SubInfoProc \/ UNCHANGED vars
  BY <1>1, <1>6 DEF RequestRefused, Publish, SubInfoProc, vars, net
<1>7. CASE LinkDies \/ Reconnect
  BY <1>1, <1>7, NothingInIt DEF LinkDies, Reconnect
<1>8. CASE BrokerAnswers
  <2>1. up # <<>> /\ up' = Tail(up) /\ Tail(up) \in Seq(Packet)
    BY <1>1, <1>8 DEF BrokerAnswers
  <2>2. Head(up) \in Packet /\ Head(up).type \in {"SUBSCRIBE", "UNSUBSCRIBE"}
    BY <1>1, <2>1, NodesOfTail DEF Flight, UpGrounded
  <2>3. Head(up).id \in 1 .. PacketIdMax /\ Head(up).topic \in Filters
    BY <2>2 DEF Packet
  <2>4. \A type \in {"SUBACK", "SUBNACK", "UNSUBACK"} : Answer(type) \in Packet
    BY <2>3 DEF Answer, Packet
  <2>5. /\ \E type \in {"SUBACK", "SUBNACK", "UNSUBACK"} : down' = Append(down, Answer(type))
        /\ subscribed' \subseteq subscribed \cup {Head(up).topic}
    BY <1>8 DEF BrokerAnswers
  <2>6. QED
    BY <1>1, <2>1, <2>3, <2>4, <2>5
<1>9. CASE \E n \in Names : BrokerPublishes(n)
  <2>1. PICK n \in Names : BrokerPublishes(n)
    BY <1>9
  <2> DEFINE packet == [type |-> "PUBLISH", id |-> 0, topic |-> n]
  <2>2. packet \in Packet
    BY DEF Packet
  <2>3. down' = Append(down, packet) /\ UNCHANGED <<up, subscribed>>
    BY <2>1 DEF BrokerPublishes
  <2> HIDE DEF packet
  <2>4. QED
    BY <1>1, <2>2, <2>3
<1>10. QED
  BY <1>3, <1>4, <1>5, <1>6, <1>7, <1>8, <1>9 DEF Next, Task, Network

LEMMA TypeStep ==
  ASSUME TypeOK, Flight, [Next]_vars
  PROVE  TypeOK'
<1>1. /\ pc' \in {"cycle", "proc"}
      /\ client_state' \in {"CONNECTED", "DISCONNECTED"}
      /\ link' \in {"up", "dead"}
  BY DEF Next, Task, Network, Subscribe, Unsubscribe, Request, RequestRefused, Publish,
     RecvSuback, RecvSubnack, RecvUnsuback, RecvPublish, Receives, SubInfoProc, LinkDies,
     Reconnect, BrokerAnswers, BrokerPublishes, vars, client, net, TypeOK
<1>2. packet_id' \in 0 .. PacketIdMax
  <2>1. packet_id' = packet_id \/ packet_id' = NextPacketId
    BY DEF Next, Task, Network, Subscribe, Unsubscribe, Request, RequestRefused, Publish,
       RecvSuback, RecvSubnack, RecvUnsuback, RecvPublish, Receives, SubInfoProc, LinkDies,
       Reconnect, BrokerAnswers, BrokerPublishes, vars, client, net
  <2>2. QED
    BY <2>1, NextIdType DEF TypeOK
<1>3. faults' \in 0 .. MaxFaults
  <2>1. faults' = faults \/ (faults < MaxFaults /\ faults' = faults + 1)
    BY DEF Next, Task, Network, Subscribe, Unsubscribe, Request, RequestRefused, Publish,
       RecvSuback, RecvSubnack, RecvUnsuback, RecvPublish, Receives, SubInfoProc, LinkDies,
       Reconnect, BrokerAnswers, BrokerPublishes, vars, client, net
  <2>2. QED
    BY <2>1, MqttSubsAssumption DEF TypeOK
<1>4. QED
  BY <1>1, <1>2, <1>3, ListTypeStep, TableTypeStep, QueueTypeStep DEF TypeOK

-----------------------------------------------------------------------------
(* What is under way belongs to a request that waits                       *)

LEMMA RequestKeepsFlight ==
  ASSUME TypeOK, Flight,
         NEW type, NEW entry,
         \/ type = "SUBSCRIBE" /\ entry \in Wanted
         \/ type = "UNSUBSCRIBE" /\ entry \in [filter : Filters, handler : {NoHandler}],
         Request(type, entry)
  PROVE  Flight'
<1> DEFINE node == [id |-> NextPacketId, state |-> "NORMAL", entry |-> entry]
           packet == [type |-> type, id |-> NextPacketId, topic |-> entry.filter]
<1>1. node \in Node /\ packet \in Packet
  BY RequestMakes
<1>2. /\ node.id = packet.id /\ node.state = "NORMAL" /\ node.entry.filter = packet.topic
      /\ packet.type \in {"SUBSCRIBE", "UNSUBSCRIBE"}
      /\ packet.type \in Subscribing => node.entry \in Wanted
      /\ packet.type \notin Subscribing => node.entry.handler = NoHandler
  BY DEF Subscribing
<1>3. /\ sub_to_ack \in Seq(Node) /\ up \in Seq(Packet) /\ down \in Seq(Packet)
      /\ packet.id \in 1 .. PacketIdMax
  BY NextIdType DEF TypeOK
<1>4. /\ UNCHANGED <<link, down, subscribed>>
      /\ \A i \in DOMAIN sub_to_ack : sub_to_ack[i].id # packet.id
      /\ \/ sub_to_ack' = Append(sub_to_ack, node)
            /\ up' = IF link = "up" THEN Append(up, packet) ELSE up
         \/ UNCHANGED <<sub_to_ack, up>>
  BY DEF Request, HasNode
<1> HIDE DEF node, packet
<1>5. CASE UNCHANGED <<sub_to_ack, up>>
  BY <1>4, <1>5 DEF Flight, DeadIsEmpty, OneNodeEach, UpGrounded, DownGrounded, Apart
<1>6. CASE /\ sub_to_ack' = Append(sub_to_ack, node)
           /\ up' = IF link = "up" THEN Append(up, packet) ELSE up
  <2>1. /\ DOMAIN sub_to_ack' = 1 .. Len(sub_to_ack) + 1
        /\ DOMAIN sub_to_ack = 1 .. Len(sub_to_ack) /\ Len(sub_to_ack) \in Nat
        /\ sub_to_ack'[Len(sub_to_ack) + 1] = node
        /\ \A i \in 1 .. Len(sub_to_ack) : sub_to_ack'[i] = sub_to_ack[i]
    BY <1>1, <1>3, <1>6
  <2>2. OneNodeEach'
    BY <1>2, <1>4, <2>1 DEF OneNodeEach, Flight
  <2>3. \A p : Grounded(sub_to_ack, p) => Grounded(sub_to_ack', p)
    BY <1>1, <1>3, <1>6, GroundedAppend
  <2>4. Grounded(sub_to_ack', packet)
    <3>1. Len(sub_to_ack) + 1 \in DOMAIN sub_to_ack'
      BY <2>1
    <3>2. QED
      BY <1>2, <2>1, <3>1 DEF Grounded
  <2>5. NodesOf(up') \subseteq NodesOf(up) \cup {packet}
    BY <1>1, <1>3, <1>6, NodesOfAppend
  <2>6. UpGrounded' /\ DownGrounded'
    BY <1>2, <1>4, <2>3, <2>4, <2>5 DEF UpGrounded, DownGrounded, Flight
  <2>7. \A p : Grounded(sub_to_ack, p) => p.id # packet.id
    BY <1>4 DEF Grounded
  <2>8. Single(up')
    <3>1. \A p \in NodesOf(up) : p.id # packet.id
      BY <2>7 DEF Flight, UpGrounded
    <3>2. QED
      BY <1>1, <1>3, <1>6, <3>1, SingleAppend DEF Flight
  <2>9. Apart'
    <3>1. ASSUME NEW q \in NodesOf(down) PROVE packet.id # q.id
      <4>1. CASE OfRequest(q)
        BY <2>7, <4>1 DEF Flight, DownGrounded
      <4>2. CASE ~OfRequest(q)
        <5>1. q \in Packet
          BY <1>3, NodesIn
        <5>2. q.id = 0
          BY <4>2, <5>1 DEF Packet, OfRequest
        <5>3. QED
          BY <1>3, <5>2
      <4>3. QED
        BY <4>1, <4>2
    <3>2. QED
      BY <1>4, <2>5, <3>1 DEF Apart, Flight
  <2>10. DeadIsEmpty'
    BY <1>4, <1>6 DEF DeadIsEmpty, Flight
  <2>11. Single(down')
    BY <1>4 DEF Flight
  <2>12. QED
    BY <2>2, <2>6, <2>8, <2>9, <2>10, <2>11 DEF Flight
<1>7. QED
  BY <1>4, <1>5, <1>6

\* An answer is read: its request is over, the others are not touched.
LEMMA AnswerKeepsFlight ==
  ASSUME TypeOK, Flight, down # <<>>, OfRequest(Head(down)),
         sub_to_ack' = Masked(Head(down).id), down' = Tail(down),
         UNCHANGED <<link, up, subscribed>>
  PROVE  Flight'
<1> DEFINE at == FirstWith(Head(down).id)
<1>1. down \in Seq(Packet) /\ up \in Seq(Packet)
  BY DEF TypeOK
<1>2. /\ at \in DOMAIN sub_to_ack /\ sub_to_ack[at].id = Head(down).id
      /\ \A p \in NodesOf(Tail(down)) : p.id # Head(down).id
      /\ \A p \in NodesOf(up) : p.id # Head(down).id
  BY AnswerIs
<1> HIDE DEF at
<1>3. sub_to_ack' = Masked(sub_to_ack[at].id)
  BY <1>2
<1>4. /\ DOMAIN sub_to_ack' = DOMAIN sub_to_ack
      /\ \A j \in DOMAIN sub_to_ack' : sub_to_ack'[j].id = sub_to_ack[j].id
  BY <1>2, <1>3, MaskedIs DEF Flight
<1>5. \A p : Grounded(sub_to_ack, p) /\ p.id # Head(down).id => Grounded(sub_to_ack', p)
  BY <1>2, <1>3, GroundedStays DEF Flight
<1>6. NodesOf(down') \subseteq NodesOf(down)
  BY <1>1, NodesOfTail
<1>7. OneNodeEach'
  BY <1>4 DEF OneNodeEach, Flight
<1>8. UpGrounded' /\ DownGrounded'
  BY <1>2, <1>5, <1>6 DEF UpGrounded, DownGrounded, Flight
<1>9. Single(up') /\ Single(down')
  BY <1>1, SingleTail DEF Flight
<1>10. DeadIsEmpty' /\ Apart'
  BY <1>6 DEF DeadIsEmpty, Apart, Flight
<1>11. QED
  BY <1>7, <1>8, <1>9, <1>10 DEF Flight

\* A command is read, or the answered requests are taken off the list.
LEMMA ReadOrCleanKeepsFlight ==
  ASSUME TypeOK, Flight, RecvPublish \/ SubInfoProc
  PROVE  Flight'
<1>1. CASE RecvPublish
  <2>1. /\ down # <<>> /\ down' = Tail(down) /\ down \in Seq(Packet)
        /\ UNCHANGED <<sub_to_ack, link, up, subscribed>>
    BY <1>1 DEF RecvPublish, Receives, TypeOK
  <2>2. NodesOf(down') \subseteq NodesOf(down) /\ Single(down')
    BY <2>1, NodesOfTail, SingleTail DEF Flight
  <2>3. QED
    BY <2>1, <2>2 DEF Flight, DeadIsEmpty, OneNodeEach, UpGrounded, DownGrounded, Apart
<1>2. CASE SubInfoProc
  <2>1. sub_to_ack' = Cleaned /\ UNCHANGED <<link, up, down, subscribed>>
    BY <1>2 DEF SubInfoProc, net
  <2>2. /\ OneNodeEach'
        /\ \A p : Grounded(sub_to_ack, p) => Grounded(sub_to_ack', p)
    BY <2>1, CleanedIs DEF Flight, OneNodeEach
  <2>3. QED
    BY <2>1, <2>2 DEF Flight, DeadIsEmpty, UpGrounded, DownGrounded, Apart
<1>3. QED
  BY <1>1, <1>2

LEMMA LinkKeepsFlight ==
  ASSUME TypeOK, Flight, LinkDies \/ Reconnect
  PROVE  Flight'
<1>1. /\ up' = <<>> /\ (down' = down \/ down' = <<>>)
      /\ UNCHANGED sub_to_ack
      /\ link' = "dead" => subscribed' = {}
  BY DEF LinkDies, Reconnect
<1>2. NodesOf(up') = {} /\ NodesOf(down') \subseteq NodesOf(down)
  BY <1>1, NodesOfEmpty
<1>3. Single(up') /\ Single(down')
  BY <1>1, SingleEmpty DEF Flight
<1>4. QED
  BY <1>1, <1>2, <1>3 DEF Flight, DeadIsEmpty, OneNodeEach, UpGrounded, DownGrounded, Apart

\* The broker takes a request and answers it.
LEMMA BrokerKeepsFlight ==
  ASSUME TypeOK, Flight, BrokerAnswers
  PROVE  Flight'
<1>1. /\ up # <<>> /\ up \in Seq(Packet) /\ down \in Seq(Packet) /\ up' = Tail(up)
      /\ UNCHANGED <<sub_to_ack, link>>
  BY DEF BrokerAnswers, TypeOK
<1>2. PICK e : /\ down' = Append(down, e) /\ e = Answer(e.type)
               /\ \/ Head(up).type = "SUBSCRIBE" /\ e.type \in {"SUBACK", "SUBNACK"}
                  \/ Head(up).type = "UNSUBSCRIBE" /\ e.type = "UNSUBACK"
  <2>1. \A type : Answer(type).type = type
    BY DEF Answer
  <2>2. \/ Head(up).type = "SUBSCRIBE" /\ down' = Append(down, Answer("SUBACK"))
        \/ Head(up).type = "SUBSCRIBE" /\ down' = Append(down, Answer("SUBNACK"))
        \/ Head(up).type = "UNSUBSCRIBE" /\ down' = Append(down, Answer("UNSUBACK"))
    BY DEF BrokerAnswers
  <2>3. QED
    BY <2>1, <2>2
<1>3. Head(up) \in NodesOf(up) /\ NodesOf(up') \subseteq NodesOf(up) /\ Head(up) \in Packet
  BY <1>1, NodesOfTail
<1>4. /\ e.id = Head(up).id /\ e.topic = Head(up).topic /\ OfRequest(e)
      /\ e.type \in Subscribing <=> Head(up).type \in Subscribing
  BY <1>2 DEF Answer, OfRequest, Subscribing
<1>5. e \in Packet
  <2>1. Head(up).id \in 1 .. PacketIdMax /\ Head(up).topic \in Filters
    BY <1>2, <1>3 DEF Packet
  <2>2. e.type \in {"SUBACK", "SUBNACK", "UNSUBACK"}
    BY <1>2
  <2>3. QED
    BY <1>2, <2>1, <2>2 DEF Answer, Packet
<1>6. Grounded(sub_to_ack, e)
  <2>1. Grounded(sub_to_ack, Head(up))
    BY <1>3 DEF Flight, UpGrounded
  <2>2. QED
    BY <1>4, <2>1 DEF Grounded
<1>7. NodesOf(down') = NodesOf(down) \cup {e}
  BY <1>1, <1>2, <1>5, NodesOfAppend
<1>8. Single(up') /\ \A p \in NodesOf(up') : p.id # e.id
  <2>1. OfRequest(Head(up))
    BY <1>2 DEF OfRequest
  <2>2. QED
    BY <1>1, <1>4, <2>1, SingleTail DEF Flight
<1>9. Single(down')
  <2>1. \A p \in NodesOf(down) : p.id # e.id
    BY <1>3, <1>4 DEF Flight, Apart
  <2>2. QED
    BY <1>1, <1>2, <1>5, <2>1, SingleAppend DEF Flight
<1>10. Apart'
  BY <1>3, <1>7, <1>8 DEF Flight, Apart
<1>11. UpGrounded' /\ DownGrounded' /\ OneNodeEach'
  BY <1>1, <1>3, <1>6, <1>7 DEF Flight, UpGrounded, DownGrounded, OneNodeEach
<1>12. DeadIsEmpty'
  BY <1>1 DEF Flight, DeadIsEmpty
<1>13. QED
  BY <1>8, <1>9, <1>10, <1>11, <1>12 DEF Flight

LEMMA CommandKeepsFlight ==
  ASSUME TypeOK, Flight, NEW n \in Names, BrokerPublishes(n)
  PROVE  Flight'
<1> DEFINE e == [type |-> "PUBLISH", id |-> 0, topic |-> n]
<1>1. e \in Packet /\ ~OfRequest(e) /\ e.id = 0
  BY DEF Packet, OfRequest
<1>2. /\ down' = Append(down, e) /\ down \in Seq(Packet) /\ up \in Seq(Packet)
      /\ UNCHANGED <<sub_to_ack, link, up, subscribed>>
  BY DEF BrokerPublishes, TypeOK
<1> HIDE DEF e
<1>3. NodesOf(down') = NodesOf(down) \cup {e}
  BY <1>1, <1>2, NodesOfAppend
<1>4. ASSUME NEW p \in Packet, p.id = 0 PROVE ~OfRequest(p)
  BY <1>4, MqttSubsAssumption DEF Packet, OfRequest
<1>5. Single(down')
  <2>1. \A p \in NodesOf(down) : p.id = e.id => ~OfRequest(p)
    BY <1>1, <1>2, <1>4, NodesIn
  <2>2. QED
    BY <1>1, <1>2, <2>1, SingleAppend DEF Flight
<1>6. \A p \in NodesOf(up) : p.id # e.id
  <2>1. \A p \in NodesOf(up) : p \in Packet /\ OfRequest(p)
    BY <1>2, NodesIn DEF Flight, UpGrounded, OfRequest
  <2>2. QED
    BY <1>1, <1>4, <2>1
<1>7. QED
  BY <1>1, <1>2, <1>3, <1>5, <1>6
  DEF Flight, DeadIsEmpty, OneNodeEach, UpGrounded, DownGrounded, Apart

LEMMA FlightStep ==
  ASSUME TypeOK, Flight, [Next]_vars
  PROVE  Flight'
<1>1. CASE \E e \in Wanted : Subscribe(e)
  BY <1>1, RequestKeepsFlight DEF Subscribe
<1>2. CASE \E f \in Filters : Unsubscribe(f)
  BY <1>2, RequestKeepsFlight DEF Unsubscribe
<1>3. CASE RecvSuback \/ RecvSubnack \/ RecvUnsuback
  <2>1. /\ down # <<>> /\ OfRequest(Head(down)) /\ down' = Tail(down)
        /\ sub_to_ack' = Masked(Head(down).id)
        /\ UNCHANGED <<link, up, subscribed>>
    BY <1>3 DEF RecvSuback, RecvSubnack, RecvUnsuback, Receives, OfRequest
  <2>2. QED
    BY <2>1, AnswerKeepsFlight
<1>4. CASE RecvPublish \/ SubInfoProc
  BY <1>4, ReadOrCleanKeepsFlight
<1>5. CASE LinkDies \/ Reconnect
  BY <1>5, LinkKeepsFlight
<1>6. CASE BrokerAnswers
  BY <1>6, BrokerKeepsFlight
<1>7. CASE \E n \in Names : BrokerPublishes(n)
  BY <1>7, CommandKeepsFlight
<1>8. CASE RequestRefused \/ Publish \/ UNCHANGED vars
  <2>1. UNCHANGED <<sub_to_ack, link, up, down, subscribed>>
    BY <1>8 DEF RequestRefused, Publish, vars, net
  <2>2. QED
    BY <2>1 DEF Flight, DeadIsEmpty, OneNodeEach, UpGrounded, DownGrounded, Apart
<1>9. QED
  BY <1>1, <1>2, <1>3, <1>4, <1>5, <1>6, <1>7, <1>8 DEF Next, Task, Network

-----------------------------------------------------------------------------
(* The table                                                               *)

LEMMA WantedIsNotEmpty ==
  ASSUME NEW e \in Wanted
  PROVE  e # Empty
BY MqttSubsAssumption DEF Empty

\* An entry that is granted comes into the table, unless it is full.
LEMMA GrantKeepsTable ==
  ASSUME TypeOK, Table, NEW e \in Wanted,
         sub_handle' = Registered(e), granted' = granted \cup {e}
  PROVE  Table'
<1>1. sub_handle \in [1 .. TableMax -> Wanted \cup {Empty}]
  BY DEF TypeOK
<1>2. IsFiniteSet(granted')
  BY FS_AddElement DEF Table
<1>3. CASE Known(e)
  <2>1. sub_handle' = sub_handle /\ Used' = Used
    BY <1>3, RegisteredType DEF Used
  <2>2. e \in Entries
    BY <1>3 DEF Known, Identical, Entries
  <2>3. Entries' = Entries
    BY <2>1 DEF Entries
  <2>4. QED
    BY <1>2, <2>1, <2>2, <2>3 DEF Table
<1>4. CASE Used = 1 .. TableMax
  <2>1. sub_handle' = sub_handle /\ Used' = Used
    BY <1>4, RegisteredType DEF Used
  <2>2. Entries' = Entries
    BY <2>1 DEF Entries
  <2>3. QED
    BY <1>2, <1>4, <2>1, <2>2 DEF Table
<1>5. CASE ~Known(e) /\ Used # 1 .. TableMax
  <2>1. PICK n \in (1 .. TableMax) \ Used : sub_handle' = [sub_handle EXCEPT ![n] = e]
    BY <1>5, RegisteredType
  <2>2. \A i \in 1 .. TableMax : sub_handle'[i] = IF i = n THEN e ELSE sub_handle[i]
    BY <1>1, <2>1
  <2>3. Used' = Used \cup {n}
    BY <2>2, WantedIsNotEmpty DEF Used
  <2>4. \A i \in Used : sub_handle[i] # e
    BY <1>5 DEF Known, Identical
  <2>5. Used \subseteq 1 .. TableMax /\ n \notin Used
    BY DEF Used
  <2>6. \A i \in Used : sub_handle'[i] = sub_handle[i]
    BY <2>2, <2>5
  <2>7. sub_handle'[n] = e
    BY <2>2
  <2>8. Entries' = Entries \cup {e}
    BY <2>3, <2>6, <2>7 DEF Entries
  <2>9. \A i, j \in Used' : sub_handle'[i] = sub_handle'[j] => i = j
    BY <2>3, <2>4, <2>6, <2>7 DEF Table
  <2>10. QED
    BY <1>2, <1>5, <2>8, <2>9 DEF Table
<1>6. QED
  BY <1>3, <1>4, <1>5

\* A request to unsubscribe carries no handler and equals no entry: nothing goes.
LEMMA NothingIsCleared ==
  ASSUME TypeOK, Flight, RecvUnsuback
  PROVE  sub_handle' = sub_handle
<1> DEFINE entry == sub_to_ack[FirstWith(Head(down).id)].entry
<1>1. down # <<>> /\ OfRequest(Head(down)) /\ Head(down).type \notin Subscribing
  BY DEF RecvUnsuback, Receives, OfRequest, Subscribing
<1>2. entry.handler = NoHandler
  BY <1>1, AnswerIs
<1>3. sub_handle' = [i \in 1 .. TableMax |->
                       IF i \in Used /\ Identical(sub_handle[i], entry)
                       THEN Empty ELSE sub_handle[i]]
  BY DEF RecvUnsuback
<1>4. sub_handle \in [1 .. TableMax -> Wanted \cup {Empty}]
  BY DEF TypeOK
<1> HIDE DEF entry
<1>5. \A i \in Used : sub_handle[i] \in Wanted
  BY <1>4 DEF Used
<1>6. \A i \in Used : ~Identical(sub_handle[i], entry)
  BY <1>2, <1>5, MqttSubsAssumption DEF Identical
<1>7. sub_handle' = [i \in 1 .. TableMax |-> sub_handle[i]]
  BY <1>3, <1>6
<1>8. QED
  BY <1>4, <1>7

\* What each step does to the table: a grant at most.
LEMMA TableChange ==
  ASSUME TypeOK, Flight, [Next]_vars
  PROVE  \/ UNCHANGED <<sub_handle, granted>>
         \/ /\ RecvSuback
            /\ \E e \in Wanted : /\ e.filter = Head(down).topic
                                 /\ sub_handle' = Registered(e)
                                 /\ granted' = granted \cup {e}
<1>1. CASE RecvSuback
  <2> DEFINE entry == sub_to_ack[FirstWith(Head(down).id)].entry
  <2>1. /\ down # <<>> /\ OfRequest(Head(down)) /\ Head(down).type \in Subscribing
    BY <1>1 DEF RecvSuback, Receives, OfRequest, Subscribing
  <2>2. HasNode(Head(down).id) /\ entry \in Wanted /\ entry.filter = Head(down).topic
    BY <2>1, AnswerIs
  <2>3. sub_handle' = Registered(entry) /\ granted' = granted \cup {entry}
    BY <1>1, <2>2 DEF RecvSuback
  <2>4. QED
    BY <1>1, <2>2, <2>3
<1>2. CASE RecvUnsuback
  BY <1>2, NothingIsCleared DEF RecvUnsuback
<1>3. CASE (\E e \in Wanted : Subscribe(e)) \/ \E f \in Filters : Unsubscribe(f)
  BY <1>3 DEF Subscribe, Unsubscribe, Request
<1>4. CASE RequestRefused \/ Publish \/ RecvSubnack \/ RecvPublish \/ SubInfoProc
           \/ UNCHANGED vars
  BY <1>4 DEF RequestRefused, Publish, RecvSubnack, RecvPublish, SubInfoProc, vars
<1>5. CASE Network
  BY <1>5 DEF Network, LinkDies, Reconnect, BrokerAnswers, BrokerPublishes
<1>6. QED
  BY <1>1, <1>2, <1>3, <1>4, <1>5 DEF Next, Task

LEMMA TableStep ==
  ASSUME TypeOK, Flight, Table, [Next]_vars
  PROVE  Table'
<1>1. CASE UNCHANGED <<sub_handle, granted>>
  <2>1. Used' = Used /\ Entries' = Entries
    BY <1>1 DEF Used, Entries
  <2>2. QED
    BY <1>1, <2>1 DEF Table
<1>2. QED
  BY <1>1, TableChange, GrantKeepsTable

\* A slot that is taken stays taken by the same entry.
LEMMA SlotsStay ==
  ASSUME TypeOK, Flight, [Next]_vars
  PROVE  Used \subseteq Used' /\ \A i \in Used : sub_handle'[i] = sub_handle[i]
<1>1. \A i \in Used : sub_handle'[i] = sub_handle[i]
  BY TableChange, RegisteredType
<1>2. QED
  BY <1>1 DEF Used

-----------------------------------------------------------------------------
(* What the broker sends has a handler                                     *)

Answered(f) == \E p \in NodesOf(down) : p.type = "SUBACK" /\ p.topic = f
InTable(f) == \E i \in Used : sub_handle[i].filter = f
Full == Used = 1 .. TableMax
Handled == \A f \in subscribed : InTable(f) \/ Answered(f) \/ Full

\* The SUBACK that is read brings its entry into the table.
LEMMA SubackBrings ==
  ASSUME TypeOK, Flight, RecvSuback, [Next]_vars, NEW f, f = Head(down).topic
  PROVE  InTable(f)' \/ Full'
<1>1. PICK e \in Wanted : e.filter = f /\ sub_handle' = Registered(e)
  <2> DEFINE entry == sub_to_ack[FirstWith(Head(down).id)].entry
  <2>1. /\ down # <<>> /\ OfRequest(Head(down)) /\ Head(down).type \in Subscribing
    BY DEF RecvSuback, Receives, OfRequest, Subscribing
  <2>2. HasNode(Head(down).id) /\ entry \in Wanted /\ entry.filter = Head(down).topic
    BY <2>1, AnswerIs
  <2>3. QED
    BY <2>2 DEF RecvSuback
<1>2. CASE Known(e)
  <2>1. PICK i \in Used : sub_handle[i] = e
    BY <1>2 DEF Known, Identical
  <2>2. i \in Used' /\ sub_handle'[i] = e
    BY <2>1, SlotsStay
  <2>3. QED
    BY <1>1, <2>2 DEF InTable
<1>3. CASE Used = 1 .. TableMax
  <2>1. Used' = Used
    BY <1>1, <1>3, RegisteredType DEF Used
  <2>2. QED
    BY <1>3, <2>1 DEF Full
<1>4. CASE ~Known(e) /\ Used # 1 .. TableMax
  <2>1. PICK n \in (1 .. TableMax) \ Used : sub_handle' = [sub_handle EXCEPT ![n] = e]
    BY <1>1, <1>4, RegisteredType
  <2>2. sub_handle'[n] = e
    BY <2>1 DEF TypeOK
  <2>3. n \in Used'
    BY <2>1, <2>2, WantedIsNotEmpty DEF Used
  <2>4. QED
    BY <1>1, <2>2, <2>3 DEF InTable
<1>5. QED
  BY <1>2, <1>3, <1>4

LEMMA HandledStep ==
  ASSUME TypeOK, Flight, Handled, [Next]_vars
  PROVE  Handled'
<1>1. down \in Seq(Packet) /\ up \in Seq(Packet)
  BY DEF TypeOK
<1>2. \A f : InTable(f) => InTable(f)'
  BY SlotsStay DEF InTable
<1>3. Full => Full'
  BY SlotsStay DEF Full, Used
<1>4. CASE /\ subscribed' \subseteq subscribed
           /\ \A f \in subscribed' : Answered(f) => Answered(f)' \/ InTable(f)' \/ Full'
  BY <1>2, <1>3, <1>4 DEF Handled
<1>5. CASE down' = down /\ subscribed' \subseteq subscribed
  BY <1>4, <1>5 DEF Answered
<1>6. CASE RecvSuback
  <2>1. /\ down # <<>> /\ down' = Tail(down) /\ subscribed' = subscribed
    BY <1>6 DEF RecvSuback, Receives
  <2>2. NodesOf(down) = {Head(down)} \cup NodesOf(down')
    BY <1>1, <2>1, HeadAndTail
  <2>3. \A f : Answered(f) => Answered(f)' \/ f = Head(down).topic
    BY <2>2 DEF Answered
  <2>4. \A f : f = Head(down).topic => InTable(f)' \/ Full'
    BY <1>6, SubackBrings
  <2>5. \A f : Answered(f) => Answered(f)' \/ InTable(f)' \/ Full'
    <3>1. SUFFICES ASSUME NEW f, Answered(f), ~Answered(f)' PROVE InTable(f)' \/ Full'
      OBVIOUS
    <3>2. f = Head(down).topic
      BY <2>3, <3>1
    <3>3. QED
      BY <2>4, <3>2
  <2>6. QED
    BY <1>4, <2>1, <2>5
<1>7. CASE RecvSubnack \/ RecvUnsuback \/ RecvPublish
  <2>1. /\ down # <<>> /\ down' = Tail(down) /\ subscribed' = subscribed
        /\ Head(down).type # "SUBACK"
    BY <1>7 DEF RecvSubnack, RecvUnsuback, RecvPublish, Receives
  <2>2. NodesOf(down) = {Head(down)} \cup NodesOf(down')
    BY <1>1, <2>1, HeadAndTail
  <2>3. \A f : Answered(f) => Answered(f)'
    BY <2>1, <2>2 DEF Answered
  <2>4. QED
    BY <1>4, <2>1, <2>3
<1>8. CASE BrokerAnswers
  <2>1. PICK e : /\ down' = Append(down, e) /\ e \in Packet
                 /\ \/ subscribed' \subseteq subscribed
                    \/ subscribed' = subscribed \cup {e.topic} /\ e.type = "SUBACK"
    <3>1. up # <<>> /\ Head(up) \in Packet
      BY <1>1, <1>8, NodesOfTail DEF BrokerAnswers
    <3>2. Head(up).type \in {"SUBSCRIBE", "UNSUBSCRIBE"}
      BY <1>8 DEF BrokerAnswers
    <3>3. Head(up).id \in 1 .. PacketIdMax /\ Head(up).topic \in Filters
      BY <3>1, <3>2 DEF Packet
    <3>4. \A type \in {"SUBACK", "SUBNACK", "UNSUBACK"} :
            Answer(type) \in Packet /\ Answer(type).type = type
            /\ Answer(type).topic = Head(up).topic
      BY <3>3 DEF Answer, Packet
    <3>5. CASE down' = Append(down, Answer("SUBACK"))
               /\ subscribed' = subscribed \cup {Head(up).topic}
      BY <3>4, <3>5
    <3>6. CASE down' = Append(down, Answer("SUBNACK")) /\ subscribed' = subscribed
      BY <3>4, <3>6
    <3>7. CASE down' = Append(down, Answer("UNSUBACK"))
               /\ subscribed' = subscribed \ {Head(up).topic}
      BY <3>4, <3>7
    <3>8. QED
      BY <1>8, <3>5, <3>6, <3>7 DEF BrokerAnswers
  <2>2. NodesOf(down') = NodesOf(down) \cup {e}
    BY <1>1, <2>1, NodesOfAppend
  <2>3. \A f : Answered(f) => Answered(f)'
    BY <2>2 DEF Answered
  <2>4. CASE subscribed' \subseteq subscribed
    BY <1>4, <2>3, <2>4
  <2>5. CASE subscribed' = subscribed \cup {e.topic} /\ e.type = "SUBACK"
    <3>1. Answered(e.topic)'
      BY <2>1, <2>2, <2>5 DEF Answered
    <3>2. QED
      BY <1>2, <1>3, <2>3, <2>5, <3>1 DEF Handled
  <2>6. QED
    BY <2>1, <2>4, <2>5
<1>9. CASE \E n \in Names : BrokerPublishes(n)
  <2>1. PICK n \in Names : BrokerPublishes(n)
    BY <1>9
  <2> DEFINE e == [type |-> "PUBLISH", id |-> 0, topic |-> n]
  <2>2. e \in Packet /\ down' = Append(down, e) /\ subscribed' = subscribed
    BY <2>1 DEF Packet, BrokerPublishes
  <2> HIDE DEF e
  <2>3. NodesOf(down') = NodesOf(down) \cup {e}
    BY <1>1, <2>2, NodesOfAppend
  <2>4. \A f : Answered(f) => Answered(f)'
    BY <2>3 DEF Answered
  <2>5. QED
    BY <1>4, <2>2, <2>4
<1>10. CASE LinkDies
  BY <1>10 DEF LinkDies, Handled
<1>11. CASE Reconnect
  <2>1. subscribed' = {}
    BY <1>11 DEF Reconnect, Flight, DeadIsEmpty
  <2>2. QED
    BY <2>1 DEF Handled
<1>12. CASE \/ (\E e \in Wanted : Subscribe(e)) \/ \E f \in Filters : Unsubscribe(f)
            \/ RequestRefused \/ Publish \/ SubInfoProc \/ UNCHANGED vars
  <2>1. down' = down /\ subscribed' = subscribed
    BY <1>12 DEF Subscribe, Unsubscribe, Request, RequestRefused, Publish, SubInfoProc,
                 vars, net
  <2>2. QED
    BY <1>5, <2>1
<1>13. QED
  BY <1>6, <1>7, <1>8, <1>9, <1>10, <1>11, <1>12 DEF Next, Task, Network

-----------------------------------------------------------------------------
(* The theorems                                                            *)

LEMMA InvInit == Init => Inv /\ Handled
<1> SUFFICES ASSUME Init PROVE Inv /\ Handled
  OBVIOUS
<1>1. NodesOf(up) = {} /\ NodesOf(down) = {}
  BY NodesOfEmpty DEF Init
<1>2. OneNodeEach
  BY DEF Init, OneNodeEach
<1>3. Flight
  BY <1>1, <1>2, SingleEmpty DEF Init, Flight, DeadIsEmpty, UpGrounded, DownGrounded, Apart
<1>4. Used = {}
  BY DEF Init, Used
<1>5. Entries = {}
  BY <1>4 DEF Entries
<1>6. Table
  BY <1>4, <1>5, FS_EmptySet DEF Init, Table
<1>7. QED
  BY <1>3, <1>6, TypeInit DEF Init, Inv, Handled

LEMMA InvStep == Inv /\ Handled /\ [Next]_vars => Inv' /\ Handled'
BY TypeStep, FlightStep, TableStep, HandledStep DEF Inv

LEMMA InvAlways == Spec => [](Inv /\ Handled)
BY InvInit, InvStep, PTL DEF Spec

\* In every run the list of requests, the table and both directions of the
\* connection hold what they are meant to, and the list never more than it may.
THEOREM TypeCorrect == Spec => []TypeOK
<1>1. Inv => TypeOK
  BY DEF Inv
<1>2. QED
  BY <1>1, InvAlways, PTL

\* Whatever the broker will send has a handler, or its SUBACK is under way, or
\* the table was full: MQTTSubInfoProc and the answers never mix requests up.
THEOREM SubscriptionsAreHandled == Spec => []SubscribedIsHandled
<1>1. Inv /\ Handled => SubscribedIsHandled
  <2> SUFFICES ASSUME Inv, Handled PROVE SubscribedIsHandled
    OBVIOUS
  <2>1. \A f : Answered(f) => \E k \in DOMAIN down : down[k].type = "SUBACK" /\ down[k].topic = f
    BY DEF Answered, NodesOf
  <2>2. QED
    BY <2>1 DEF SubscribedIsHandled, Handled, InTable, Full, Inv
<1>2. QED
  BY <1>1, InvAlways, PTL

-----------------------------------------------------------------------------
(* A command is handed over once                                           *)

\* On the subscriptions and topics there are, the loop over both strings says
\* what MQTT says level by level.  (TLC evaluates both on those of the run.)
MatchingAgrees ==
  \A e \in Wanted, n \in Names :
    (e.filter = n \/ IsTopicMatched(e.filter, n)) <=> Covers(e.filter, n)

\* A full table of distinct entries has no room for one that is granted besides.
LEMMA FullHoldsAll ==
  ASSUME TypeOK, Table, Used = 1 .. TableMax, Cardinality(granted) <= TableMax
  PROVE  Entries = granted
<1>1. sub_handle \in [1 .. TableMax -> Wanted \cup {Empty}] /\ TableMax \in Nat
  BY MqttSubsAssumption DEF TypeOK
<1>2. DOMAIN sub_handle = 1 .. TableMax /\ \A i \in 1 .. TableMax : sub_handle[i] \in granted
  BY <1>1 DEF Table, Entries
<1>3. sub_handle = [i \in 1 .. TableMax |-> sub_handle[i]]
  BY <1>1
<1>4. sub_handle \in [1 .. TableMax -> granted]
  BY <1>2, <1>3
<1>5. sub_handle \in Injection(1 .. TableMax, granted)
  <2>1. \A i, j \in DOMAIN sub_handle : sub_handle[i] = sub_handle[j] => i = j
    BY <1>2 DEF Table
  <2>2. QED
    BY <1>4, <2>1 DEF Injection, IsInjective
<1>6. IsFiniteSet(granted) /\ Cardinality(granted) \in Nat
  BY FS_CardinalityType DEF Table
<1>7. Cardinality(1 .. TableMax) = TableMax
  BY <1>1, FS_Interval
<1>8. sub_handle \in Surjection(1 .. TableMax, granted)
  <2>1. /\ Cardinality(1 .. TableMax) <= Cardinality(granted)
        /\ Cardinality(1 .. TableMax) = Cardinality(granted)
             <=> sub_handle \in Surjection(1 .. TableMax, granted)
    BY <1>5, <1>6, FS_Injection, Zenon
  <2>2. Cardinality(1 .. TableMax) = Cardinality(granted)
    BY <1>1, <1>6, <1>7, <2>1
  <2>3. QED
    BY <2>1, <2>2
<1>9. \A e \in granted : \E i \in 1 .. TableMax : sub_handle[i] = e
  BY <1>8 DEF Surjection
<1>10. QED
  BY <1>2, <1>9 DEF Entries, Table

LEMMA HandsOnce ==
  ASSUME MatchingAgrees, Inv, RecvPublish
  PROVE  LET due == {e \in granted : Covers(e.filter, Head(down).topic)}
             got == {sub_handle[i] : i \in called'}
         IN  /\ \A i, j \in called' : sub_handle[i] = sub_handle[j] => i = j
             /\ got \subseteq due
             /\ Cardinality(granted) <= TableMax => got = due
<1> DEFINE name == Head(down).topic
           due == {e \in granted : Covers(e.filter, name)}
           got == {sub_handle[i] : i \in called'}
<1>1. TypeOK /\ Table
  BY DEF Inv
<1>2. name \in Names
  <2>1. down # <<>> /\ down \in Seq(Packet) /\ Head(down).type = "PUBLISH"
    BY <1>1 DEF RecvPublish, Receives, TypeOK
  <2>2. Head(down) \in Packet
    BY <2>1
  <2>3. QED
    BY <2>1, <2>2 DEF Packet
<1>3. called' = {i \in Used : sub_handle[i].filter = name
                                \/ IsTopicMatched(sub_handle[i].filter, name)}
  BY DEF RecvPublish, Called
<1>4. \A i \in Used : sub_handle[i] \in Wanted /\ sub_handle[i] \in granted
  <2>1. \A i \in Used : sub_handle[i] \in granted
    BY <1>1 DEF Table, Entries
  <2>2. QED
    BY <1>1, <2>1 DEF TypeOK
<1> HIDE DEF name
<1>5. called' = {i \in Used : Covers(sub_handle[i].filter, name)}
  <2>1. \A i \in Used :
          (sub_handle[i].filter = name \/ IsTopicMatched(sub_handle[i].filter, name))
            <=> Covers(sub_handle[i].filter, name)
    BY <1>2, <1>4 DEF MatchingAgrees
  <2>2. QED
    BY <1>3, <2>1, Zenon
<1>6. \A i, j \in called' : sub_handle[i] = sub_handle[j] => i = j
  BY <1>1, <1>5 DEF Table
<1>7. got \subseteq due
  BY <1>4, <1>5
<1>8. ASSUME Cardinality(granted) <= TableMax
      PROVE  due \subseteq got
  <2>1. Entries = granted
    BY <1>1, <1>8, FullHoldsAll DEF Table
  <2>2. \A e \in granted : \E i \in Used : sub_handle[i] = e
    BY <2>1 DEF Entries
  <2>3. QED
    BY <1>5, <2>2
<1>9. QED
  BY <1>6, <1>7, <1>8 DEF name

\* A command is handed once to each granted subscription that covers its topic,
\* and to no other, whatever was requested twice, refused or lost before: the
\* table holds every grant once (iotx_mc_deliver_message goes over all of it).
THEOREM CommandsAreHandedOnce ==
  ASSUME MatchingAgrees
  PROVE  Spec => HandedOnce
<1>1. Inv /\ [Next]_vars
        => [RecvPublish =>
              LET due == {e \in granted : Covers(e.filter, Head(down).topic)}
                  got == {sub_handle[i] : i \in called'}
              IN  /\ \A i, j \in called' : sub_handle[i] = sub_handle[j] => i = j
                  /\ got \subseteq due
                  /\ Cardinality(granted) <= TableMax => got = due]_vars
  BY HandsOnce
<1>2. QED
  BY <1>1, InvAlways, PTL DEF Spec, HandedOnce
=============================================================================
