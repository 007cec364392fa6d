------------------------------ MODULE TcpServer ------------------------------
(***************************************************************************)
(* The select loop of the TCP service (wifi.c) with its two handlers       *)
(* (main.c): so_server_process serves fd_sets[0], the listener, and one    *)
(* client per further slot.  A client's buffers live in a linked list of   *)
(* elements that is indexed by slot; closing a slot moves the last fd into *)
(* it and calls an element swap.  The swap does not exchange two elements: *)
(* it takes some off the list, and a slot without an element ends in an    *)
(* access through NULL, which restarts the device.                         *)
(*                                                                         *)
(* One round of the loop is a step per slot; peers connect, send, close    *)
(* and requests finish between those steps.  A frame is a whole "learn"    *)
(* request (0xfd 0xaf 0 0 0), so all frames have one length and a segment  *)
(* carries whole frames; other frames, and pieces of them, are in          *)
(* TcpFrames.                                                              *)
(***************************************************************************)
EXTENDS Integers, Sequences

CONSTANTS
  Socks,      \* the connections peers make, numbered in the order they make them
  Listener,   \* the listening socket
  Slots,      \* bound: clients connected at a time (fd_sets has room for 4)
  Elements,   \* elements new_so_server links together (5)
  MaxFrames   \* bound: frames a peer sends, by connection

ASSUME TcpServerAssumption ==
  /\ Socks \subseteq Nat /\ Listener \notin Socks
  /\ Slots \in Nat /\ Elements \in Nat \ {0}
  /\ MaxFrames \in [Socks -> Nat]

VARIABLES
  conn,         \* a connection: "away", "waiting" (backlog), "open", "closed"
  backlog,      \* connections the listener has not accepted yet, in order
  inbox,        \* frames that wait in a socket's receive queue
  sent, fin,    \* what the peer did: frames sent, its side closed
  fds,          \* fd_sets[1 .. fd_set_index - 1]
  next,         \* the element list: element -> element, 0 is NULL
  lost,         \* history: elements that swaps took off the list
  recv_buffer, send_buffer,     \* of each element: frames, answers
  at,           \* slot the round visits next; Idle between rounds
  readable, writable,           \* what the two selects of the round returned
  recvCount,    \* local of the round, in frames; set by recv only
  buffer,       \* self->buffer, shared by all slots
  pending,      \* requests: the tasks handler 2 created, by frame and element
  taken,        \* history: the frames handler 2 made a request of, by sender
  delivered,    \* history: the answers a connection was sent
  mixed,        \* history: bytes of one connection came to the element of another
  hasty         \* history: a peer closed while a request of its was under way

peers == <<conn, backlog, inbox, sent, fin>>
slots == <<fds, next, lost>>
elements == <<recv_buffer, send_buffer>>
round == <<at, readable, writable, recvCount, buffer>>
requests == <<pending, taken>>
history == <<delivered, mixed, hasty>>
vars == <<peers, slots, elements, round, requests, history>>

Idle == -1
Present == {s \in Socks : conn[s] \in {"waiting", "open"}}
Frame == [from : Socks, n : Nat \ {0}]
RangeOf(seq) == {seq[k] : k \in DOMAIN seq}

TypeOK ==
  /\ conn \in [Socks -> {"away", "waiting", "open", "closed"}]
  /\ backlog \in Seq(Socks)
  /\ inbox \in [Socks -> Seq(Frame)]
  /\ \A s \in Socks : sent[s] \in 0 .. MaxFrames[s]
  /\ fin \in [Socks -> BOOLEAN]
  /\ fds \in Seq(Socks) /\ Len(fds) <= Slots
  /\ next \in [1 .. Elements -> 0 .. Elements]
  /\ lost \in Nat
  /\ recv_buffer \in [1 .. Elements -> Seq(Frame)]
  /\ send_buffer \in [1 .. Elements -> Seq(Frame)]
  /\ at \in Idle .. Slots
  /\ readable \subseteq Socks \cup {Listener}
  /\ writable \subseteq Socks
  /\ recvCount \in 0 .. Len(buffer)
  /\ buffer \in Seq(Frame)
  /\ pending \subseteq [frame : Frame, element : 1 .. Elements]
  /\ taken \in [Socks -> Seq(Nat)]
  /\ delivered \in [Socks -> Seq(Frame)]
  /\ mixed \in BOOLEAN /\ hasty \in BOOLEAN

\* new_so_server: all elements are made, and linked, at once.
NewList == [e \in 1 .. Elements |-> IF e = Elements THEN 0 ELSE e + 1]
NoBytes == [e \in 1 .. Elements |-> <<>>]

\* so_server_init: the listener is all there is to serve, and nothing is under way.
Init ==
  /\ conn = [s \in Socks |-> "away"]
  /\ backlog = <<>> /\ inbox = [s \in Socks |-> <<>>]
  /\ fds = <<>> /\ next = NewList /\ lost = 0
  /\ recv_buffer = NoBytes /\ send_buffer = NoBytes
  /\ at = Idle /\ readable = {} /\ writable = {}
  /\ recvCount = 0 /\ buffer = <<>>
  /\ pending = {}
  /\ sent = [s \in Socks |-> 0]
  /\ fin = [s \in Socks |-> FALSE]
  /\ taken = [s \in Socks |-> <<>>]
  /\ delivered = [s \in Socks |-> <<>>]
  /\ mixed = FALSE /\ hasty = FALSE

-----------------------------------------------------------------------------
(* The list of elements                                                    *)

\* so_client_element_at: counts from 1, so slots 0 and 1 share the head; 0 when
\* the list is too short.
ElementAt(slot) ==
  LET walk[k \in 0 .. slot] ==
        IF k <= 1 THEN 1 ELSE IF walk[k - 1] = 0 THEN 0 ELSE next[walk[k - 1]]
  IN  walk[slot]

\* The stores of so_client_element_swap, in their order; its last one gives the
\* second element the successor it already has.
Stored(a, b) ==
  LET first == [next EXCEPT ![ElementAt(b - 1)] = ElementAt(a)]
  IN  [first EXCEPT ![ElementAt(a)] = first[ElementAt(b)]]

\* Seeded bug: an element is swapped with itself.
SwappedWithSelf(a, b) == IF a > b THEN next ELSE Stored(a, b)

Swapped(a, b) == IF a >= b THEN next ELSE Stored(a, b)

-----------------------------------------------------------------------------
(* The round                                                               *)

\* Seeded bug: recvCount lives as long as the server.
CountKept == recvCount

CountAtStart == 0

\* The two selects; nothing is ready when nothing is connected or knocking.
StartRound ==
  /\ at = Idle
  /\ at' = 0
  /\ readable' = {s \in RangeOf(fds) : inbox[s] # <<>> \/ fin[s]}
                   \cup (IF backlog # <<>> THEN {Listener} ELSE {})
  /\ writable' = RangeOf(fds)
  /\ recvCount' = CountAtStart
  /\ UNCHANGED <<peers, slots, elements, buffer, requests, history>>

Advance(list) == at' = IF at + 1 > Len(list) THEN Idle ELSE at + 1

HasWork(bytes) == bytes # <<>>

\* so_client_write: what arrived goes behind what the element holds.
Written(e, bytes) == recv_buffer[e] \o bytes

\* Both handlers, run while the element holds bytes.  The first parses one frame
\* (through self->buffer) and queues a message, the second takes the message and
\* creates the task.
Handlers(e, bytes, buf) ==
  IF ~HasWork(bytes)
  THEN /\ recv_buffer' = [recv_buffer EXCEPT ![e] = bytes]
       /\ buffer' = buf
       /\ UNCHANGED requests
  ELSE LET f == Head(bytes) IN
       /\ recv_buffer' = [recv_buffer EXCEPT ![e] = Tail(bytes)]
       /\ buffer' = <<f>> \o (IF buf = <<>> THEN <<>> ELSE Tail(buf))
       /\ pending' = pending \cup {[frame |-> f, element |-> e]}
       /\ taken' = [taken EXCEPT ![f.from] = Append(@, f.n)]

\* Slot 0 accepts whoever waits; then the handlers run for the head element.
VisitListener ==
  /\ at = 0
  /\ LET e == ElementAt(0)
         fresh == IF recvCount > 0 THEN SubSeq(buffer, 1, recvCount) ELSE <<>>
     IN  Handlers(e, Written(e, fresh), buffer)
  /\ IF Listener \in readable
     THEN /\ fds' = fds \o backlog
          /\ conn' = [s \in Socks |-> IF conn[s] = "waiting" THEN "open" ELSE conn[s]]
          /\ backlog' = <<>>
     ELSE UNCHANGED <<fds, conn, backlog>>
  /\ Advance(fds')
  /\ UNCHANGED <<inbox, sent, fin, next, lost, send_buffer, readable, writable, recvCount, history>>

\* What slot "at" holds after its recv; a slot that is not readable keeps the
\* count, and the bytes, of the slot before it.
Reads == fds[at] \in readable
Gone == Reads /\ inbox[fds[at]] = <<>>
Count == IF Reads THEN Len(inbox[fds[at]]) ELSE recvCount
Buf == IF Reads /\ ~Gone THEN inbox[fds[at]] ELSE buffer

Sends == fds[at] \in writable /\ send_buffer[ElementAt(at)] # <<>>
\* Seeded bug: a recv of zero bytes is no reason to close.
ClosedBySend == IF Sends /\ fin[fds[at]] THEN {TRUE, FALSE} ELSE {FALSE}

\* What need_to_close says: the verdict of a send replaces that of the recv.
Closed == IF Sends THEN {FALSE} \cup (IF fin[fds[at]] THEN {TRUE} ELSE {}) ELSE {Gone}

\* Seeded bug: the answer is not cleared once sent.
NotCleared(e) == send_buffer

Cleared(e) == [send_buffer EXCEPT ![e] = <<>>]

VisitServe ==
  /\ at \in 1 .. Len(fds) /\ ElementAt(at) # 0
  /\ FALSE \in Closed
  /\ LET e == ElementAt(at) IN
       /\ Handlers(e, Written(e, SubSeq(Buf, 1, Count)), Buf)
       /\ IF Sends
          THEN /\ send_buffer' = Cleared(e)
               /\ delivered' = [delivered EXCEPT ![fds[at]] = @ \o send_buffer[e]]
          ELSE UNCHANGED <<send_buffer, delivered>>
  /\ mixed' = (mixed \/ (~Reads /\ Count > 0))
  /\ recvCount' = Count
  /\ inbox' = IF Reads THEN [inbox EXCEPT ![fds[at]] = <<>>] ELSE inbox
  /\ Advance(fds)
  /\ UNCHANGED <<conn, backlog, sent, fin, slots, readable, writable, hasty>>

\* Seeded bug: the last fd is cut off but not moved.
CutOnly(slot) == SubSeq(fds, 1, Len(fds) - 1)

Without(slot) == SubSeq([fds EXCEPT ![slot] = fds[Len(fds)]], 1, Len(fds) - 1)
LastAfterCut == Len(fds) - 1

\* Something of the client in that slot is still to come, through its element.
HasUnderWay(slot) ==
  LET e == ElementAt(slot) IN
  /\ e # 0
  /\ recv_buffer[e] # <<>> \/ send_buffer[e] # <<>> \/ \E r \in pending : r.element = e

\* The swap finds the two elements it is called for.
SwapFinds(a, b) == a < b => ElementAt(b) # 0

\* The slot is closed; the loop goes on behind it, so the fd that moved in waits
\* for the next round.  Its bytes stay in the element of its old slot, and the
\* swap gives the slots behind the closed one the elements of later ones.
VisitClose ==
  /\ at \in 1 .. Len(fds) /\ ElementAt(at) # 0
  /\ TRUE \in Closed
  /\ SwapFinds(at, LastAfterCut)
  /\ LET e == ElementAt(at) IN
       /\ recv_buffer' = [recv_buffer EXCEPT ![e] = <<>>]
       /\ send_buffer' = Cleared(e)
  /\ fds' = Without(at)
  /\ next' = Swapped(at, LastAfterCut)
  /\ lost' = lost + (IF at < LastAfterCut THEN LastAfterCut - at ELSE 0)
  /\ conn' = [conn EXCEPT ![fds[at]] = "closed"]
  /\ inbox' = [inbox EXCEPT ![fds[at]] = <<>>]
  /\ mixed' = (mixed \/ \E slot \in at + 1 .. Len(fds) : HasUnderWay(slot))
  /\ recvCount' = Count
  /\ buffer' = Buf
  /\ Advance(fds')
  /\ UNCHANGED <<backlog, sent, fin, readable, writable, requests, delivered, hasty>>

\* The slot has no element, or the swap of its close does not find one: the access
\* through NULL panics.  The device restarts, with a new server and no connections.
VisitCrash ==
  /\ at \in 1 .. Len(fds)
  /\ \/ ElementAt(at) = 0
     \/ ElementAt(at) # 0 /\ TRUE \in Closed /\ ~SwapFinds(at, LastAfterCut)
  /\ conn' = [s \in Socks |-> IF s \in Present THEN "closed" ELSE conn[s]]
  /\ backlog' = <<>> /\ inbox' = [s \in Socks |-> <<>>]
  /\ fds' = <<>> /\ next' = NewList /\ lost' = 0
  /\ recv_buffer' = NoBytes /\ send_buffer' = NoBytes
  /\ at' = Idle /\ readable' = {} /\ writable' = {}
  /\ recvCount' = 0 /\ buffer' = <<>>
  /\ pending' = {}
  /\ UNCHANGED <<sent, fin, taken, history>>

-----------------------------------------------------------------------------
(* Requests and peers                                                      *)

\* task_tcpservice_ir_learning ends: refused or failed, or with a code, which
\* msg_success_0xaf writes to the element.  Learning takes longer than a round
\* and there is one learner at a time, so the last answer is gone by then.
RequestFails(r) ==
  /\ r \in pending
  /\ pending' = pending \ {r}
  /\ UNCHANGED <<peers, slots, elements, round, taken, history>>

RequestAnswers(r) ==
  /\ r \in pending
  /\ send_buffer[r.element] = <<>>
  /\ pending' = pending \ {r}
  /\ send_buffer' = [send_buffer EXCEPT ![r.element] = <<r.frame>>]
  /\ UNCHANGED <<peers, slots, recv_buffer, round, taken, history>>

Connect(s) ==
  /\ conn[s] = "away" /\ \A earlier \in Socks : earlier < s => conn[earlier] # "away"
  /\ Len(fds) + Len(backlog) < Slots
  /\ conn' = [conn EXCEPT ![s] = "waiting"]
  /\ backlog' = Append(backlog, s)
  /\ UNCHANGED <<inbox, sent, fin, slots, elements, round, requests, history>>

PeerSends(s) ==
  /\ s \in Present
  /\ ~fin[s]
  /\ sent[s] < MaxFrames[s]
  /\ sent' = [sent EXCEPT ![s] = @ + 1]
  /\ inbox' = [inbox EXCEPT ![s] = Append(@, [from |-> s, n |-> sent[s] + 1])]
  /\ UNCHANGED <<conn, backlog, fin, slots, elements, round, requests, history>>

\* A frame of s is still to be made a request, or its answer to be sent.
Owed(s) ==
  \/ Len(taken[s]) < sent[s]
  \/ \E r \in pending : r.frame.from = s
  \/ \E e \in 1 .. Elements : \E k \in DOMAIN send_buffer[e] : send_buffer[e][k].from = s

PeerCloses(s) ==
  /\ s \in Present
  /\ ~fin[s]
  /\ fin' = [fin EXCEPT ![s] = TRUE]
  /\ hasty' = (hasty \/ Owed(s))
  /\ UNCHANGED <<conn, backlog, inbox, sent, slots, elements, round, requests,
                 delivered, mixed>>

-----------------------------------------------------------------------------
Server == StartRound \/ VisitListener \/ VisitServe \/ VisitClose \/ VisitCrash
Requests == \E r \in pending : RequestFails(r) \/ RequestAnswers(r)
Peers == \E s \in Socks : Connect(s) \/ PeerSends(s) \/ PeerCloses(s)

Next == Server \/ Requests \/ Peers

Spec == Init /\ [][Next]_vars

\* task_tcp_service runs a round every 50 ms.
FairSpec == Spec /\ WF_vars(Server)

-----------------------------------------------------------------------------
(* Properties                                                              *)

\* Every accepted connection is served by exactly one slot and every slot
\* serves an open one, in the middle of a round too: closing a slot while the
\* loop runs over the array neither loses an fd nor keeps a closed one.
SocketsServed ==
  /\ TypeOK
  /\ RangeOf(fds) = {s \in Socks : conn[s] = "open"}
  /\ \A i, j \in DOMAIN fds : fds[i] = fds[j] => i = j

\* A slot has an element of its own as long as the list reaches to it, and the list
\* is short by exactly what the swaps passed over: however slots are closed, no two
\* slots share an element, the list has no cycle and no close takes off more.
SlotsHaveOwn ==
  /\ \A i \in 0 .. Elements + 1 : ElementAt(i) = 0 <=> i > Elements - lost
  /\ \A i, j \in 1 .. Elements - lost : ElementAt(i) = ElementAt(j) => i = j

\* Each frame becomes one request, in the order sent, however frames, rounds, answers
\* and disconnects interleave, until bytes of one connection come to another: through
\* recvCount, or through a slot that is closed under a client with more to come.
OnceInOrder ==
  ~mixed => \A s \in Socks : /\ Len(taken[s]) <= sent[s]
                             /\ \A k \in DOMAIN taken[s] : taken[s][k] = k

\* Until then, an answer goes to the peer that asked, and at most once, as long as no
\* peer closes before its own has come (which leaves it to the next one in the slot).
AnswersAreOwn ==
  ~mixed /\ ~hasty => \A s \in Socks : \A k \in DOMAIN delivered[s] :
    /\ delivered[s][k].from = s
    /\ \A j \in 1 .. k - 1 : delivered[s][j] # delivered[s][k]

\* A peer that closed is closed here too: a send that goes through postpones it,
\* a slot moved into the one just closed is skipped, but not for ever.
PeersReleased == \A s \in Socks : conn[s] = "open" /\ fin[s] ~> conn[s] = "closed"
=============================================================================
