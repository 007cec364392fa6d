--------------------------- MODULE TcpServerProofs ---------------------------
(***************************************************************************)
(* The slots of the TCP service, for any number of connections, slots,     *)
(* frames and elements, whatever closing a slot takes off the list.        *)
(***************************************************************************)
EXTENDS TcpServer, ListsProofs, TLAPS

-----------------------------------------------------------------------------
(* Sequences of different things                                           *)

NoRepeats(q) == \A i, j \in DOMAIN q : q[i] = q[j] => i = j

LEMMA RangeOfAppend ==
  ASSUME NEW E, NEW q \in Seq(E), NEW x \in E
  PROVE  /\ Append(q, x) \in Seq(E) /\ Len(Append(q, x)) = Len(q) + 1
         /\ RangeOf(Append(q, x)) = RangeOf(q) \cup {x}
         /\ NoRepeats(q) /\ x \notin RangeOf(q) => NoRepeats(Append(q, x))
<1>1. /\ DOMAIN q = 1 .. Len(q) /\ Len(q) \in Nat
      /\ DOMAIN Append(q, x) = 1 .. Len(q) + 1
      /\ Append(q, x)[Len(q) + 1] = x
      /\ \A i \in 1 .. Len(q) : Append(q, x)[i] = q[i]
  OBVIOUS
<1>2. 1 .. Len(q) + 1 = (1 .. Len(q)) \cup {Len(q) + 1}
  BY <1>1
<1>3. RangeOf(Append(q, x)) = RangeOf(q) \cup {x}
  <2>1. RangeOf(Append(q, x)) \subseteq RangeOf(q) \cup {x}
    BY <1>1, <1>2 DEF RangeOf
  <2>2. RangeOf(q) \cup {x} \subseteq RangeOf(Append(q, x))
    BY <1>1, <1>2 DEF RangeOf
  <2>3. QED
    BY <2>1, <2>2
<1>4. NoRepeats(q) /\ x \notin RangeOf(q) => NoRepeats(Append(q, x))
  BY <1>1, <1>2 DEF RangeOf, NoRepeats
<1>5. QED
  BY <1>3, <1>4

LEMMA RangeOfConcat ==
  ASSUME NEW E, NEW q \in Seq(E), NEW r \in Seq(E)
  PROVE  /\ q \o r \in Seq(E) /\ Len(q \o r) = Len(q) + Len(r)
         /\ RangeOf(q \o r) = RangeOf(q) \cup RangeOf(r)
         /\ NoRepeats(q) /\ NoRepeats(r) /\ RangeOf(q) \cap RangeOf(r) = {}
              => NoRepeats(q \o r)
<1>1. /\ DOMAIN q = 1 .. Len(q) /\ Len(q) \in Nat
      /\ DOMAIN r = 1 .. Len(r) /\ Len(r) \in Nat
      /\ q \o r \in Seq(E) /\ Len(q \o r) = Len(q) + Len(r)
      /\ DOMAIN (q \o r) = 1 .. Len(q) + Len(r)
      /\ \A i \in 1 .. Len(q) : (q \o r)[i] = q[i]
      /\ \A i \in Len(q) + 1 .. Len(q) + Len(r) : (q \o r)[i] = r[i - Len(q)]
  BY ConcatProperties
<1>2. \A i \in 1 .. Len(q) + Len(r) :
        \/ i \in DOMAIN q /\ (q \o r)[i] = q[i]
        \/ i - Len(q) \in DOMAIN r /\ (q \o r)[i] = r[i - Len(q)]
  BY <1>1
<1>3. \A i \in 1 .. Len(r) : Len(q) + i \in DOMAIN (q \o r) /\ (q \o r)[Len(q) + i] = r[i]
  BY <1>1
<1>4. \A i \in 1 .. Len(q) : i \in DOMAIN (q \o r) /\ (q \o r)[i] = q[i]
  BY <1>1
<1>5. RangeOf(q \o r) = RangeOf(q) \cup RangeOf(r)
  <2>1. RangeOf(q \o r) \subseteq RangeOf(q) \cup RangeOf(r)
    BY <1>1, <1>2 DEF RangeOf
  <2>2. RangeOf(q) \cup RangeOf(r) \subseteq RangeOf(q \o r)
    <3>1. \A i \in DOMAIN q : q[i] \in RangeOf(q \o r)
      BY <1>1, <1>4 DEF RangeOf
    <3>2. \A i \in DOMAIN r : r[i] \in RangeOf(q \o r)
      <4>1. ASSUME NEW i \in DOMAIN r PROVE r[i] \in RangeOf(q \o r)
        <5>1. Len(q) + i \in DOMAIN (q \o r) /\ (q \o r)[Len(q) + i] = r[i]
          BY <1>1, <1>3
        <5>2. QED
          BY <5>1 DEF RangeOf
      <4>2. QED
        BY <4>1
    <3>3. QED
      BY <3>1, <3>2 DEF RangeOf
  <2>3. QED
    BY <2>1, <2>2
<1>6. ASSUME NoRepeats(q), NoRepeats(r), RangeOf(q) \cap RangeOf(r) = {},
             NEW i \in DOMAIN (q \o r), NEW j \in DOMAIN (q \o r), (q \o r)[i] = (q \o r)[j]
      PROVE  i = j
  <2>1. CASE i \in DOMAIN q /\ j \in DOMAIN q
    BY <1>4, <1>1, <1>6, <2>1 DEF NoRepeats
  <2>2. CASE i \notin DOMAIN q /\ j \notin DOMAIN q
    <3>1. /\ i - Len(q) \in DOMAIN r /\ (q \o r)[i] = r[i - Len(q)]
          /\ j - Len(q) \in DOMAIN r /\ (q \o r)[j] = r[j - Len(q)]
      BY <1>1, <1>2, <2>2
    <3>2. i - Len(q) = j - Len(q)
      BY <1>6, <3>1 DEF NoRepeats
    <3>3. QED
      BY <1>1, <3>2
  <2>3. CASE ~(i \in DOMAIN q <=> j \in DOMAIN q)
    <3>1. \A k \in DOMAIN (q \o r) :
            (q \o r)[k] \in IF k \in DOMAIN q THEN RangeOf(q) ELSE RangeOf(r)
      BY <1>1, <1>2, <1>4 DEF RangeOf
    <3>2. QED
      BY <1>6, <2>3, <3>1
  <2>4. QED
    BY <2>1, <2>2, <2>3
<1>7. QED
  BY <1>1, <1>5, <1>6 DEF NoRepeats

\* The last element takes the place of one that goes.
LastMoved(q, i) == SubSeq([q EXCEPT ![i] = q[Len(q)]], 1, Len(q) - 1)

LEMMA LastMovesIn ==
  ASSUME NEW E, NEW q \in Seq(E), NEW i \in 1 .. Len(q)
  PROVE  /\ LastMoved(q, i) \in Seq(E) /\ Len(LastMoved(q, i)) = Len(q) - 1
         /\ \A k \in 1 .. Len(q) - 1 :
              LastMoved(q, i)[k] = IF k = i THEN q[Len(q)] ELSE q[k]
         /\ NoRepeats(q) =>
              NoRepeats(LastMoved(q, i)) /\ RangeOf(LastMoved(q, i)) = RangeOf(q) \ {q[i]}
<1> SUFFICES ASSUME NEW c, c = LastMoved(q, i)
             PROVE  /\ c \in Seq(E) /\ Len(c) = Len(q) - 1
                    /\ \A k \in 1 .. Len(q) - 1 : c[k] = IF k = i THEN q[Len(q)] ELSE q[k]
                    /\ NoRepeats(q) => NoRepeats(c) /\ RangeOf(c) = RangeOf(q) \ {q[i]}
  OBVIOUS
<1>1. /\ Len(q) \in Nat \ {0} /\ DOMAIN q = 1 .. Len(q) /\ q[Len(q)] \in E
      /\ Len(q) \in DOMAIN q
  OBVIOUS
<1>2. PICK m : m = [q EXCEPT ![i] = q[Len(q)]]
  OBVIOUS
<1>3. m \in Seq(E) /\ Len(m) = Len(q)
  BY <1>1, <1>2, ExceptSeq
<1>4. \A k \in 1 .. Len(q) : m[k] = IF k = i THEN q[Len(q)] ELSE q[k]
  BY <1>1, <1>2
<1>5. /\ c \in Seq(E) /\ Len(c) = Len(q) - 1
      /\ \A k \in 1 .. Len(q) - 1 : c[k] = m[k]
  BY <1>1, <1>2, <1>3 DEF LastMoved
<1>6. \A k \in 1 .. Len(q) - 1 : c[k] = IF k = i THEN q[Len(q)] ELSE q[k]
  BY <1>1, <1>4, <1>5
<1>7. DOMAIN c = 1 .. Len(q) - 1
  BY <1>5
<1>8. ASSUME NoRepeats(q) PROVE NoRepeats(c)
  BY <1>1, <1>6, <1>7, <1>8 DEF NoRepeats
<1>9. ASSUME NoRepeats(q) PROVE RangeOf(c) = RangeOf(q) \ {q[i]}
  <2>1. ASSUME NEW k \in DOMAIN c PROVE c[k] \in RangeOf(q) \ {q[i]}
    BY <1>1, <1>6, <1>7, <1>9 DEF NoRepeats, RangeOf
  <2>2. ASSUME NEW k \in DOMAIN q, q[k] # q[i] PROVE q[k] \in RangeOf(c)
    <3>1. CASE k = Len(q)
      <4>1. i \in DOMAIN c /\ c[i] = q[k]
        BY <1>1, <1>6, <1>7, <2>2, <3>1
      <4>2. QED
        BY <4>1 DEF RangeOf
    <3>2. CASE k # Len(q)
      <4>1. k \in DOMAIN c /\ c[k] = q[k]
        BY <1>1, <1>6, <1>7, <2>2, <3>2
      <4>2. QED
        BY <4>1 DEF RangeOf
    <3>3. QED
      BY <3>1, <3>2
  <2>3. QED
    BY <2>1, <2>2 DEF RangeOf
<1>10. QED
  BY <1>5, <1>6, <1>8, <1>9

-----------------------------------------------------------------------------
(* The slots and the backlog                                               *)

States == {"away", "waiting", "open", "closed"}
With(state) == {s \in Socks : conn[s] = state}

\* Every connection that waits is in the backlog once, every open one in fds once.
EachInOnePlace ==
  /\ conn \in [Socks -> States]
  /\ backlog \in Seq(Socks) /\ NoRepeats(backlog) /\ RangeOf(backlog) = With("waiting")
  /\ fds \in Seq(Socks) /\ NoRepeats(fds) /\ RangeOf(fds) = With("open")
  /\ Len(fds) + Len(backlog) <= Slots

\* What a step does to a connection's place.
Stays == UNCHANGED <<conn, backlog, fds>>

Knocks(s) ==
  /\ conn[s] = "away" /\ Len(fds) + Len(backlog) < Slots
  /\ conn' = [conn EXCEPT ![s] = "waiting"]
  /\ backlog' = Append(backlog, s)
  /\ UNCHANGED fds

AllAccepted ==
  /\ fds' = fds \o backlog
  /\ conn' = [s \in Socks |-> IF conn[s] = "waiting" THEN "open" ELSE conn[s]]
  /\ backlog' = <<>>

SlotCloses ==
  /\ at \in 1 .. Len(fds)
  /\ fds' = Without(at)
  /\ conn' = [conn EXCEPT ![fds[at]] = "closed"]
  /\ UNCHANGED backlog

AllEnd ==
  /\ backlog' = <<>> /\ fds' = <<>>
  /\ conn' = [s \in Socks |-> IF s \in Present THEN "closed" ELSE conn[s]]

LEMMA PlaceSteps ==
  [Next]_vars =>
    Stays \/ (\E s \in Socks : Knocks(s)) \/ AllAccepted \/ SlotCloses \/ AllEnd
<1> SUFFICES ASSUME [Next]_vars
             PROVE  \/ Stays \/ (\E s \in Socks : Knocks(s)) \/ AllAccepted
                    \/ SlotCloses \/ AllEnd
  OBVIOUS
<1>1. CASE StartRound
  BY <1>1 DEF StartRound, Stays, peers, slots
<1>2. CASE VisitListener
  BY <1>2 DEF VisitListener, Stays, AllAccepted
<1>3. CASE VisitServe
  BY <1>3 DEF VisitServe, Stays, slots
<1>4. CASE VisitClose
  BY <1>4 DEF VisitClose, SlotCloses
<1>9. CASE VisitCrash
  BY <1>9 DEF VisitCrash, AllEnd
<1>5. CASE Requests
  BY <1>5 DEF Requests, RequestFails, RequestAnswers, Stays, peers, slots
<1>6. CASE Peers
  BY <1>6 DEF Peers, Connect, PeerSends, PeerCloses, Knocks, Stays, slots
<1>7. CASE UNCHANGED vars
  BY <1>7 DEF vars, Stays, peers, slots
<1>8. QED
  BY <1>1, <1>2, <1>3, <1>4, <1>5, <1>6, <1>7, <1>9 DEF Next, Server

LEMMA NothingQueuedYet == <<>> \in Seq(Socks) /\ Len(<<>>) = 0 /\ RangeOf(<<>>) = {} /\ NoRepeats(<<>>)
BY DEF RangeOf, NoRepeats

LEMMA PlacesInit == Init => EachInOnePlace
<1> SUFFICES ASSUME Init PROVE EachInOnePlace
  OBVIOUS
<1>1. conn = [s \in Socks |-> "away"] /\ backlog = <<>> /\ fds = <<>>
  BY DEF Init
<1>2. With("waiting") = {} /\ With("open") = {} /\ conn \in [Socks -> States]
  BY <1>1 DEF With, States
<1>3. Slots \in Nat
  BY TcpServerAssumption
<1>4. Len(fds) + Len(backlog) <= Slots
  BY <1>1, <1>3, NothingQueuedYet
<1>5. /\ backlog \in Seq(Socks) /\ NoRepeats(backlog) /\ RangeOf(backlog) = With("waiting")
      /\ fds \in Seq(Socks) /\ NoRepeats(fds) /\ RangeOf(fds) = With("open")
  BY <1>1, <1>2, NothingQueuedYet
<1>6. QED
  BY <1>2, <1>4, <1>5 DEF EachInOnePlace

LEMMA PlacesStep == EachInOnePlace /\ [Next]_vars => EachInOnePlace'
<1> SUFFICES ASSUME EachInOnePlace, [Next]_vars PROVE EachInOnePlace'
  OBVIOUS
<1>1. /\ conn \in [Socks -> States] /\ Slots \in Nat
      /\ backlog \in Seq(Socks) /\ NoRepeats(backlog) /\ RangeOf(backlog) = With("waiting")
      /\ fds \in Seq(Socks) /\ NoRepeats(fds) /\ RangeOf(fds) = With("open")
      /\ Len(fds) + Len(backlog) <= Slots /\ Len(fds) \in Nat /\ Len(backlog) \in Nat
  BY TcpServerAssumption DEF EachInOnePlace
<1>2. CASE Stays
  BY <1>1, <1>2 DEF Stays, EachInOnePlace, With
<1>3. ASSUME NEW s \in Socks, Knocks(s) PROVE EachInOnePlace'
  <2>1. /\ conn' \in [Socks -> States]
        /\ With("waiting")' = With("waiting") \cup {s} /\ With("open")' = With("open")
    BY <1>1, <1>3 DEF Knocks, With, States
  <2>2. s \notin RangeOf(backlog)
    BY <1>1, <1>3 DEF Knocks, With
  <2>3. /\ backlog' \in Seq(Socks) /\ Len(backlog') = Len(backlog) + 1
        /\ RangeOf(backlog') = RangeOf(backlog) \cup {s} /\ NoRepeats(backlog')
    BY <1>1, <1>3, <2>2, RangeOfAppend DEF Knocks
  <2>4. fds' = fds /\ Len(fds') + Len(backlog') <= Slots
    BY <1>1, <1>3, <2>3 DEF Knocks
  <2>5. QED
    BY <1>1, <2>1, <2>3, <2>4 DEF EachInOnePlace
<1>4. CASE AllAccepted
  <2>1. /\ conn' \in [Socks -> States]
        /\ With("waiting")' = {} /\ With("open")' = With("open") \cup With("waiting")
    BY <1>1, <1>4 DEF AllAccepted, With, States
  <2>2. With("open") \cap With("waiting") = {}
    BY DEF With
  <2>3. /\ fds' \in Seq(Socks) /\ Len(fds') = Len(fds) + Len(backlog)
        /\ RangeOf(fds') = RangeOf(fds) \cup RangeOf(backlog) /\ NoRepeats(fds')
    BY <1>1, <1>4, <2>2, RangeOfConcat DEF AllAccepted
  <2>4. /\ backlog' \in Seq(Socks) /\ Len(backlog') = 0
        /\ RangeOf(backlog') = {} /\ NoRepeats(backlog')
    BY <1>4, NothingQueuedYet DEF AllAccepted
  <2>5. Len(fds') + Len(backlog') <= Slots
    BY <1>1, <2>3, <2>4
  <2>6. QED
    BY <1>1, <2>1, <2>3, <2>4, <2>5 DEF EachInOnePlace
<1>5. CASE SlotCloses
  <2>1. at \in 1 .. Len(fds) /\ fds[at] \in Socks /\ at \in DOMAIN fds
    BY <1>1, <1>5 DEF SlotCloses
  <2>2. conn[fds[at]] = "open"
    BY <1>1, <2>1 DEF RangeOf, With
  <2>3. /\ conn' \in [Socks -> States]
        /\ With("waiting")' = With("waiting") /\ With("open")' = With("open") \ {fds[at]}
    BY <1>1, <1>5, <2>1, <2>2 DEF SlotCloses, With, States
  <2>4. /\ fds' \in Seq(Socks) /\ Len(fds') = Len(fds) - 1
        /\ RangeOf(fds') = RangeOf(fds) \ {fds[at]} /\ NoRepeats(fds')
    <3>1. fds' = LastMoved(fds, at)
      BY <1>5 DEF SlotCloses, Without, LastMoved
    <3>2. /\ LastMoved(fds, at) \in Seq(Socks) /\ Len(LastMoved(fds, at)) = Len(fds) - 1
          /\ RangeOf(LastMoved(fds, at)) = RangeOf(fds) \ {fds[at]}
          /\ NoRepeats(LastMoved(fds, at))
      BY <1>1, <2>1, LastMovesIn
    <3>3. QED
      BY <3>1, <3>2
  <2>5. backlog' = backlog /\ Len(fds') + Len(backlog') <= Slots
    BY <1>1, <1>5, <2>4 DEF SlotCloses
  <2>6. QED
    BY <1>1, <2>3, <2>4, <2>5 DEF EachInOnePlace
<1>6. CASE AllEnd
  <2>1. /\ conn' \in [Socks -> States]
        /\ \A s \in Socks : conn'[s] # "waiting" /\ conn'[s] # "open"
    BY <1>1, <1>6 DEF AllEnd, Present, States
  <2>2. With("waiting")' = {} /\ With("open")' = {}
    BY <2>1 DEF With
  <2>3. Len(<<>>) + Len(<<>>) <= Slots
    BY <1>1, NothingQueuedYet
  <2>4. QED
    BY <1>6, <2>1, <2>2, <2>3, NothingQueuedYet DEF AllEnd, EachInOnePlace
<1>7. QED
  BY <1>2, <1>3, <1>4, <1>5, <1>6, PlaceSteps

\* Whatever the number of slots: every accepted connection is in fd_sets once, every
\* waiting one in the backlog once, and closing a slot in the middle of a round
\* neither loses an fd nor keeps a closed one (so_server_process, wifi.c).
THEOREM FdsServed == Spec => []EachInOnePlace
<1>1. QED
  BY PlacesInit, PlacesStep, PTL DEF Spec

-----------------------------------------------------------------------------
(* The list of elements                                                    *)

\* The elements on a list of length m, in order; nx says which follows which.
IsChain(x, nx, m) ==
  /\ x \in [1 .. m -> 1 .. Elements] /\ x[1] = 1
  /\ \A i, j \in 1 .. m : x[i] = x[j] => i = j
  /\ \A i \in 1 .. m - 1 : nx[x[i]] = x[i + 1]
  /\ nx[x[m]] = 0

Linked ==
  /\ Elements \in Nat /\ lost \in Nat /\ lost < Elements
  /\ next \in [1 .. Elements -> 0 .. Elements]
  /\ \E x : IsChain(x, next, Elements - lost)

IsWalk(w, nx, slot) ==
  w = [k \in 0 .. slot |->
         IF k <= 1 THEN 1 ELSE IF w[k - 1] = 0 THEN 0 ELSE nx[w[k - 1]]]

WalkOn(nx, slot) == (CHOOSE w : IsWalk(w, nx, slot))[slot]

LEMMA ElementAtIs ==
  ASSUME NEW slot
  PROVE  ElementAt(slot) = WalkOn(next, slot) /\ (ElementAt(slot))' = WalkOn(next', slot)
BY DEF ElementAt, WalkOn, IsWalk

LEMMA WalkStep ==
  ASSUME NEW slot \in Nat, NEW nx, NEW w, IsWalk(w, nx, slot)
  PROVE  \A k \in 0 .. slot :
           w[k] = IF k <= 1 THEN 1 ELSE IF w[k - 1] = 0 THEN 0 ELSE nx[w[k - 1]]
<1>1. w = [k \in 0 .. slot |->
             IF k <= 1 THEN 1 ELSE IF w[k - 1] = 0 THEN 0 ELSE nx[w[k - 1]]]
  BY DEF IsWalk
<1>2. QED
  BY <1>1

\* so_client_element_at follows the list, and finds nothing behind its end.
LEMMA ElementOfSlot ==
  ASSUME NEW m \in Nat, 1 <= m, NEW nx, NEW x, IsChain(x, nx, m), Elements \in Nat,
         NEW slot \in Nat
  PROVE  WalkOn(nx, slot) = IF slot = 0 THEN 1 ELSE IF slot <= m THEN x[slot] ELSE 0
<1>2. /\ x \in [1 .. m -> 1 .. Elements] /\ x[1] = 1
      /\ \A i \in 1 .. m - 1 : nx[x[i]] = x[i + 1]
      /\ nx[x[m]] = 0
  BY DEF IsChain
<1> DEFINE f == [k \in 0 .. slot |-> IF k <= 1 THEN 1 ELSE IF k <= m THEN x[k] ELSE 0]
<1>3. \A k \in 0 .. slot : f[k] = IF k <= 1 THEN 1 ELSE IF k <= m THEN x[k] ELSE 0
  OBVIOUS
<1>4. ASSUME NEW k \in 0 .. slot
      PROVE  f[k] = IF k <= 1 THEN 1 ELSE IF f[k - 1] = 0 THEN 0 ELSE nx[f[k - 1]]
  <2>1. CASE k <= 1
    BY <1>3, <2>1
  <2>2. CASE ~(k <= 1) /\ k - 1 <= m
    <3>1. k - 1 \in 0 .. slot /\ k - 1 \in 1 .. m
      BY <2>2
    <3>2. f[k - 1] = x[k - 1]
      BY <1>2, <1>3, <3>1
    <3>3. x[k - 1] # 0
      BY <1>2, <3>1
    <3>4. nx[x[k - 1]] = IF k <= m THEN x[k] ELSE 0
      <4>1. CASE k <= m
        <5>1. k - 1 \in 1 .. m - 1 /\ (k - 1) + 1 = k
          BY <2>2, <4>1
        <5>2. nx[x[k - 1]] = x[(k - 1) + 1]
          BY <1>2, <5>1
        <5>3. QED
          BY <4>1, <5>1, <5>2
      <4>2. CASE ~(k <= m)
        <5>1. k - 1 = m
          BY <2>2, <4>2
        <5>2. QED
          BY <1>2, <4>2, <5>1
      <4>3. QED
        BY <4>1, <4>2
    <3>5. f[k] = IF k <= m THEN x[k] ELSE 0
      BY <1>3, <2>2
    <3>6. QED
      BY <2>2, <3>2, <3>3, <3>4, <3>5
  <2>3. CASE ~(k <= 1) /\ ~(k - 1 <= m)
    <3>1. k - 1 \in 0 .. slot /\ ~(k - 1 <= 1) /\ ~(k <= m)
      BY <2>3
    <3>2. f[k - 1] = 0 /\ f[k] = 0
      BY <1>3, <2>3, <3>1
    <3>3. QED
      BY <2>3, <3>2
  <2>4. QED
    BY <2>1, <2>2, <2>3
<1>5. f = [k \in 0 .. slot |-> f[k]]
  OBVIOUS
<1> HIDE DEF f
<1>6. IsWalk(f, nx, slot)
  BY <1>4, <1>5 DEF IsWalk
<1>7. PICK w : IsWalk(w, nx, slot) /\ WalkOn(nx, slot) = w[slot]
  BY <1>6 DEF WalkOn
<1>8. \A k \in 0 .. slot :
        w[k] = IF k <= 1 THEN 1 ELSE IF w[k - 1] = 0 THEN 0 ELSE nx[w[k - 1]]
  BY <1>7, WalkStep
<1> DEFINE T == {k \in 0 .. slot : w[k] # f[k]}
<1>9. ASSUME T # {} PROVE FALSE
  <2>1. T \subseteq Nat
    OBVIOUS
  <2>2. PICK k \in T : \A l \in T : k <= l
    BY <1>9, <2>1, Least
  <2>3. k \in 0 .. slot /\ w[k] # f[k]
    OBVIOUS
  <2>4. ~(k <= 1)
    BY <1>3, <1>8, <2>3
  <2>5. k - 1 \in 0 .. slot /\ ~(k <= k - 1)
    BY <2>3, <2>4
  <2>6. w[k - 1] = f[k - 1]
    BY <2>2, <2>5
  <2>7. QED
    BY <1>4, <1>8, <2>3, <2>6
<1>10. slot \in 0 .. slot
  OBVIOUS
<1>11. w[slot] = f[slot]
  BY <1>9, <1>10
<1>12. QED
  BY <1>2, <1>3, <1>7, <1>10, <1>11

\* The same without naming the elements.
LEMMA ElementsOfSlots ==
  ASSUME Linked
  PROVE  /\ ElementAt(0) = 1 /\ ElementAt(1) = 1
         /\ \A i \in 1 .. Elements - lost : ElementAt(i) \in 1 .. Elements
         /\ \A i \in Nat : i > Elements - lost => ElementAt(i) = 0
         /\ \A i, j \in 1 .. Elements - lost : ElementAt(i) = ElementAt(j) => i = j
<1>1. PICK x : IsChain(x, next, Elements - lost)
  BY DEF Linked
<1>2. PICK m \in Nat : m = Elements - lost /\ 1 <= m
  BY DEF Linked
<1>3. /\ x \in [1 .. m -> 1 .. Elements] /\ x[1] = 1
      /\ \A i, j \in 1 .. m : x[i] = x[j] => i = j
  BY <1>1, <1>2 DEF IsChain
<1>4. \A i \in Nat : ElementAt(i) = IF i = 0 THEN 1 ELSE IF i <= m THEN x[i] ELSE 0
  BY <1>1, <1>2, ElementOfSlot, ElementAtIs DEF Linked
<1>5. \A i \in 1 .. m : i \in Nat /\ ElementAt(i) = x[i]
  BY <1>4
<1>6. ElementAt(0) = 1 /\ ElementAt(1) = 1
  BY <1>2, <1>3, <1>4
<1>7. \A i \in Nat : i > m => ElementAt(i) = 0
  BY <1>2, <1>4
<1>8. QED
  BY <1>2, <1>3, <1>5, <1>6, <1>7

\* so_client_element_swap takes the elements behind the first, up to the second, off
\* the list, and leaves the others as they are.
LEMMA SwapCuts ==
  ASSUME Linked, NEW a \in Nat \ {0}, NEW b \in Nat, a < b, ElementAt(b) # 0,
         next' = Stored(a, b), lost' = lost + (b - a)
  PROVE  /\ Linked' /\ b <= Elements - lost
         /\ \A i \in Nat : (ElementAt(i))' = IF i <= a THEN ElementAt(i) ELSE ElementAt(i + (b - a))
<1>1. PICK x : IsChain(x, next, Elements - lost)
  BY DEF Linked
<1>2. PICK m \in Nat : m = Elements - lost /\ 1 <= m
  BY DEF Linked
<1>3. /\ x \in [1 .. m -> 1 .. Elements] /\ x[1] = 1
      /\ \A i, j \in 1 .. m : x[i] = x[j] => i = j
      /\ \A i \in 1 .. m - 1 : next[x[i]] = x[i + 1]
      /\ next[x[m]] = 0
      /\ next \in [1 .. Elements -> 0 .. Elements] /\ Elements \in Nat /\ lost \in Nat
  BY <1>1, <1>2 DEF IsChain, Linked
<1>4. \A i \in Nat : ElementAt(i) = IF i = 0 THEN 1 ELSE IF i <= m THEN x[i] ELSE 0
  BY <1>1, <1>2, ElementOfSlot, ElementAtIs DEF Linked
<1>5. b <= m
  BY <1>2, <1>4
<1>6. a \in 1 .. m /\ b \in 1 .. m /\ b - 1 \in 1 .. m /\ a <= b - 1 /\ b # b - 1 /\ b # a
  BY <1>2, <1>5
<1>7. ElementAt(a) = x[a] /\ ElementAt(b) = x[b] /\ ElementAt(b - 1) = x[b - 1]
  BY <1>4, <1>6
<1>8. x[a] \in 1 .. Elements /\ x[b] \in 1 .. Elements /\ x[b - 1] \in 1 .. Elements
  BY <1>3, <1>6
<1>9. x[b] # x[a] /\ x[b] # x[b - 1]
  BY <1>3, <1>6
<1>10. PICK first : first = [next EXCEPT ![x[b - 1]] = x[a]]
  OBVIOUS
<1>11. next' = [first EXCEPT ![x[a]] = first[x[b]]]
  BY <1>7, <1>10 DEF Stored
<1>12. /\ first \in [1 .. Elements -> 0 .. Elements] /\ first[x[b]] = next[x[b]]
       /\ \A e \in 1 .. Elements : e # x[b - 1] => first[e] = next[e]
  BY <1>3, <1>8, <1>9, <1>10
<1>13. /\ next' \in [1 .. Elements -> 0 .. Elements] /\ next'[x[a]] = next[x[b]]
       /\ \A e \in 1 .. Elements : e # x[a] /\ e # x[b - 1] => next'[e] = next[e]
  <2>1. PICK to \in 0 .. Elements : to = first[x[b]] /\ to = next[x[b]]
    BY <1>3, <1>8, <1>12
  <2>2. next' = [first EXCEPT ![x[a]] = to]
    BY <1>11, <2>1
  <2>3. PICK e0 \in 1 .. Elements : e0 = x[a]
    BY <1>8
  <2>4. next' = [first EXCEPT ![e0] = to]
    BY <2>2, <2>3
  <2>5. /\ next' \in [1 .. Elements -> 0 .. Elements] /\ next'[e0] = to
        /\ \A e \in 1 .. Elements : e # e0 => next'[e] = first[e]
    BY ONLY <1>12, <2>4
  <2>6. QED
    BY <1>12, <2>1, <2>3, <2>5
<1>14. PICK m2 \in Nat : m2 = m - (b - a) /\ 1 <= m2 /\ a <= m2
  BY <1>2, <1>5
<1>15. Elements - lost' = m2 /\ lost' \in Nat /\ lost' < Elements
  BY <1>2, <1>3, <1>14
<1> DEFINE y == [i \in 1 .. m2 |-> IF i <= a THEN x[i] ELSE x[i + (b - a)]]
<1>16. \A i \in 1 .. m2 : y[i] = IF i <= a THEN x[i] ELSE x[i + (b - a)]
  OBVIOUS
<1>17. \A i \in 1 .. m2 : /\ i <= a => i \in 1 .. m
                          /\ ~(i <= a) => i + (b - a) \in 1 .. m /\ i + (b - a) > b
  BY <1>2, <1>5, <1>14
<1>18. y \in [1 .. m2 -> 1 .. Elements] /\ y[1] = 1
  <2>1. \A i \in 1 .. m2 : y[i] \in 1 .. Elements
    BY <1>3, <1>16, <1>17
  <2>2. y[1] = 1
    BY <1>3, <1>14, <1>16
  <2>3. QED
    BY <2>1, <2>2
<1> HIDE DEF y
<1>19. ASSUME NEW i \in 1 .. m2, NEW j \in 1 .. m2, y[i] = y[j] PROVE i = j
  <2>1. PICK k \in 1 .. m : y[i] = x[k] /\ k = IF i <= a THEN i ELSE i + (b - a)
    BY <1>16, <1>17
  <2>2. PICK l \in 1 .. m : y[j] = x[l] /\ l = IF j <= a THEN j ELSE j + (b - a)
    BY <1>16, <1>17
  <2>3. k = l
    <3>1. x[k] = x[l]
      BY <1>19, <2>1, <2>2, Zenon
    <3>2. QED
      BY <1>3, <3>1, Zenon
  <2>4. QED
    BY <2>1, <2>2, <2>3
<1>20. ASSUME NEW i \in 1 .. m2
       PROVE  next'[y[i]] = IF i = m2 THEN 0 ELSE y[i + 1]
  <2>1. CASE i < a
    <3>1. i \in 1 .. m - 1 /\ i # a /\ i # b - 1 /\ i \in 1 .. m /\ i + 1 \in 1 .. m2 /\ i + 1 <= a
          /\ i <= a
      BY <1>2, <1>6, <1>14, <2>1
    <3>2. y[i] = x[i] /\ y[i + 1] = x[i + 1]
      BY <1>16, <3>1
    <3>3. x[i] # x[a] /\ x[i] # x[b - 1] /\ x[i] \in 1 .. Elements
      BY <1>3, <1>6, <3>1
    <3>4. next'[x[i]] = x[i + 1]
      BY <1>3, <1>13, <3>1, <3>3
    <3>5. i # m2
      BY <1>14, <2>1
    <3>6. QED
      BY <3>2, <3>4, <3>5
  <2>2. CASE i = a
    <3>1. y[i] = x[a] /\ next'[x[a]] = next[x[b]]
      BY <1>13, <1>16, <2>2
    <3>2. CASE a = m2
      <4>1. b = m
        BY <1>14, <3>2, <1>5
      <4>2. QED
        BY <1>3, <2>2, <3>1, <3>2, <4>1
    <3>3. CASE a # m2
      <4>1. b \in 1 .. m - 1 /\ a + 1 \in 1 .. m2 /\ ~(a + 1 <= a) /\ (a + 1) + (b - a) = b + 1
        BY <1>2, <1>5, <1>14, <3>3
      <4>2. y[a + 1] = x[b + 1]
        BY <1>16, <4>1
      <4>3. next[x[b]] = x[b + 1]
        BY <1>3, <4>1
      <4>4. QED
        BY <2>2, <3>1, <3>3, <4>2, <4>3
    <3>4. QED
      BY <3>2, <3>3
  <2>3. CASE i > a
    <3>1. PICK k \in 1 .. m : k = i + (b - a) /\ k > b /\ k # a /\ k # b - 1
      BY <1>17, <2>3
    <3>2. y[i] = x[k]
      BY <1>16, <2>3, <3>1
    <3>3. x[k] # x[a] /\ x[k] # x[b - 1] /\ x[k] \in 1 .. Elements
      BY <1>3, <1>6, <3>1
    <3>4. next'[x[k]] = next[x[k]]
      BY <1>13, <3>3
    <3>5. CASE i = m2
      <4>1. k = m
        BY <1>14, <3>1, <3>5
      <4>2. QED
        BY <1>3, <3>2, <3>4, <3>5, <4>1
    <3>6. CASE i # m2
      <4>1. k \in 1 .. m - 1 /\ i + 1 \in 1 .. m2 /\ ~(i + 1 <= a) /\ (i + 1) + (b - a) = k + 1
        BY <1>2, <1>14, <2>3, <3>1, <3>6
      <4>2. y[i + 1] = x[k + 1]
        BY <1>16, <4>1
      <4>3. next[x[k]] = x[k + 1]
        BY <1>3, <4>1
      <4>4. QED
        BY <3>2, <3>4, <3>6, <4>2, <4>3
    <3>7. QED
      BY <3>5, <3>6
  <2>4. QED
    BY <2>1, <2>2, <2>3
<1>21. /\ \A i \in 1 .. m2 - 1 : next'[y[i]] = y[i + 1]
       /\ next'[y[m2]] = 0
  <2>1. \A i \in 1 .. m2 - 1 : i \in 1 .. m2 /\ i # m2
    OBVIOUS
  <2>2. m2 \in 1 .. m2
    BY <1>14
  <2>3. QED
    BY <1>20, <2>1, <2>2
<1>22. IsChain(y, next', m2)
  BY <1>18, <1>19, <1>21 DEF IsChain
<1>23. Linked'
  BY <1>3, <1>13, <1>15, <1>22 DEF Linked
<1>24. ASSUME NEW i \in Nat
       PROVE  (ElementAt(i))' = IF i <= a THEN ElementAt(i) ELSE ElementAt(i + (b - a))
  <2>1. (ElementAt(i))' = IF i = 0 THEN 1 ELSE IF i <= m2 THEN y[i] ELSE 0
    <3>1. WalkOn(next', i) = IF i = 0 THEN 1 ELSE IF i <= m2 THEN y[i] ELSE 0
      <4>1. m2 \in Nat /\ 1 <= m2 /\ Elements \in Nat
        BY <1>3, <1>14
      <4>2. QED
        BY <1>22, <4>1, ElementOfSlot, Zenon
    <3>2. (ElementAt(i))' = WalkOn(next', i)
      BY ElementAtIs
    <3>3. QED
      BY <3>1, <3>2
  <2>2. CASE i <= a
    <3>1. i <= m /\ i <= m2 /\ (i = 0 \/ i \in 1 .. m2)
      BY <1>6, <1>14, <2>2
    <3>2. QED
      BY <1>4, <1>16, <2>1, <2>2, <3>1
  <2>3. CASE ~(i <= a)
    <3>1. /\ i # 0 /\ i + (b - a) \in Nat /\ i + (b - a) # 0
          /\ i <= m2 <=> i + (b - a) <= m
          /\ i <= m2 => i \in 1 .. m2
      BY <1>14, <2>3
    <3>2. QED
      BY <1>4, <1>16, <2>1, <2>3, <3>1
  <2>4. QED
    BY <2>2, <2>3
<1>25. QED
  BY <1>2, <1>5, <1>23, <1>24
-----------------------------------------------------------------------------
(* Types                                                                   *)

PeerTypes ==
  /\ inbox \in [Socks -> Seq(Frame)]
  /\ sent \in [Socks -> Nat] /\ \A s \in Socks : sent[s] <= MaxFrames[s]

ElementTypes ==
  /\ Linked
  /\ recv_buffer \in [1 .. Elements -> Seq(Frame)]
  /\ send_buffer \in [1 .. Elements -> Seq(Frame)]
  /\ pending \subseteq [frame : Frame, element : 1 .. Elements]
  /\ taken \in [Socks -> Seq(Nat)]
  /\ delivered \in [Socks -> Seq(Frame)]

\* The round starts with no bytes received, and slot 0 receives none.
RoundTypes ==
  /\ at \in Idle .. Slots
  /\ readable \subseteq Socks \cup {Listener}
  /\ writable \subseteq Socks
  /\ buffer \in Seq(Frame)
  /\ recvCount \in Nat /\ recvCount <= Len(buffer)
  /\ at = 0 => recvCount = 0

FlagTypes == fin \in [Socks -> BOOLEAN] /\ mixed \in BOOLEAN /\ hasty \in BOOLEAN

Typed == EachInOnePlace /\ PeerTypes /\ ElementTypes /\ RoundTypes /\ FlagTypes

LEMMA TypedIsTypeOK == Typed => TypeOK
<1> SUFFICES ASSUME Typed PROVE TypeOK
  OBVIOUS
<1>1. /\ fds \in Seq(Socks) /\ Len(fds) <= Slots /\ backlog \in Seq(Socks)
      /\ conn \in [Socks -> States]
  <2>1. Len(fds) \in Nat /\ Len(backlog) \in Nat /\ Slots \in Nat /\ Len(fds) + Len(backlog) <= Slots
    BY TcpServerAssumption DEF Typed, EachInOnePlace
  <2>2. QED
    BY <2>1 DEF Typed, EachInOnePlace
<1>2. next \in [1 .. Elements -> 0 .. Elements] /\ lost \in Nat
  BY DEF Typed, ElementTypes, Linked
<1>3. \A s \in Socks : sent[s] \in 0 .. MaxFrames[s]
  <2>1. \A s \in Socks : sent[s] \in Nat /\ MaxFrames[s] \in Nat /\ sent[s] <= MaxFrames[s]
    BY TcpServerAssumption DEF Typed, PeerTypes
  <2>2. ASSUME NEW s \in Socks PROVE sent[s] \in 0 .. MaxFrames[s]
    BY <2>1
  <2>3. QED
    BY <2>2
<1>4. recvCount \in 0 .. Len(buffer)
  BY DEF Typed, RoundTypes
<1>5. QED
  BY <1>1, <1>2, <1>3, <1>4
     DEF Typed, PeerTypes, ElementTypes, RoundTypes, FlagTypes, TypeOK, States

LEMMA Facts ==
  ASSUME Typed
  PROVE  /\ Len(fds) \in Nat /\ Len(fds) <= Slots /\ Slots \in Nat
         /\ Elements \in Nat /\ 1 \in 1 .. Elements
         /\ \A i \in 1 .. Len(fds) : fds[i] \in Socks
         /\ ElementAt(0) = 1 /\ ElementAt(1) = 1
         /\ \A i \in Nat \ {0} : ElementAt(i) # 0 => ElementAt(i) \in 1 .. Elements
         /\ \A i, j \in Nat \ {0} : ElementAt(i) = ElementAt(j) /\ ElementAt(i) # 0 => i = j
<1>1. Len(fds) \in Nat /\ Len(backlog) \in Nat /\ Slots \in Nat /\ Len(fds) + Len(backlog) <= Slots
  BY TcpServerAssumption DEF Typed, EachInOnePlace
<1>2. Len(fds) <= Slots /\ Elements \in Nat /\ 1 \in 1 .. Elements
  BY <1>1, TcpServerAssumption
<1>3. \A i \in 1 .. Len(fds) : fds[i] \in Socks
  BY DEF Typed, EachInOnePlace
<1>4. Linked /\ lost \in Nat
  BY DEF Typed, ElementTypes, Linked
<1>5. /\ ElementAt(0) = 1 /\ ElementAt(1) = 1
      /\ \A i \in 1 .. Elements - lost : ElementAt(i) \in 1 .. Elements
      /\ \A i \in Nat : i > Elements - lost => ElementAt(i) = 0
      /\ \A i, j \in 1 .. Elements - lost : ElementAt(i) = ElementAt(j) => i = j
  BY <1>4, ElementsOfSlots
<1>6. \A i \in Nat \ {0} : ElementAt(i) # 0 => i \in 1 .. Elements - lost
  BY <1>2, <1>4, <1>5
<1>7. \A i \in Nat \ {0} : ElementAt(i) # 0 => ElementAt(i) \in 1 .. Elements
  BY <1>5, <1>6
<1>8. \A i, j \in Nat \ {0} : ElementAt(i) = ElementAt(j) /\ ElementAt(i) # 0 => i = j
  BY <1>5, <1>6
<1>9. QED
  BY <1>1, <1>2, <1>3, <1>5, <1>7, <1>8

\* The slot the round goes on with is one there is.
LEMMA AdvanceTyped ==
  ASSUME Typed, at \in 0 .. Slots, NEW list \in Seq(Socks), Len(list) <= Slots, Advance(list)
  PROVE  at' \in Idle .. Slots /\ at' # 0
<1>1. Len(list) \in Nat /\ Slots \in Nat
  BY TcpServerAssumption
<1>2. QED
  BY <1>1 DEF Advance, Idle

\* What the two handlers leave (main.c).
LEMMA HandlersTyped ==
  ASSUME Typed, NEW e \in 1 .. Elements, NEW bytes \in Seq(Frame), NEW buf \in Seq(Frame),
         Handlers(e, bytes, buf)
  PROVE  /\ recv_buffer' \in [1 .. Elements -> Seq(Frame)]
         /\ pending' \subseteq [frame : Frame, element : 1 .. Elements]
         /\ taken' \in [Socks -> Seq(Nat)]
         /\ buffer' \in Seq(Frame) /\ Len(buffer') >= Len(buf)
<1>1. /\ recv_buffer \in [1 .. Elements -> Seq(Frame)]
      /\ pending \subseteq [frame : Frame, element : 1 .. Elements]
      /\ taken \in [Socks -> Seq(Nat)]
  BY DEF Typed, ElementTypes
<1>2. CASE bytes = <<>>
  <2>1. /\ recv_buffer' = [recv_buffer EXCEPT ![e] = bytes]
        /\ buffer' = buf /\ pending' = pending /\ taken' = taken
    BY <1>2 DEF Handlers, HasWork, requests
  <2>2. Len(buf) \in Nat
    OBVIOUS
  <2>3. QED
    BY <1>1, <2>1, <2>2
<1>3. CASE bytes # <<>>
  <2>1. /\ recv_buffer' = [recv_buffer EXCEPT ![e] = Tail(bytes)]
        /\ buffer' = <<Head(bytes)>> \o (IF buf = <<>> THEN <<>> ELSE Tail(buf))
        /\ pending' = pending \cup {[frame |-> Head(bytes), element |-> e]}
        /\ taken' = [taken EXCEPT ![Head(bytes).from] = Append(@, Head(bytes).n)]
    BY <1>3 DEF Handlers, HasWork
  <2>2. Head(bytes) \in Frame /\ Tail(bytes) \in Seq(Frame)
    BY <1>3
  <2>3. Head(bytes).from \in Socks /\ Head(bytes).n \in Nat
    BY <2>2 DEF Frame
  <2>4. taken' \in [Socks -> Seq(Nat)]
    BY <1>1, <2>1, <2>3
  <2>5. <<Head(bytes)>> \in Seq(Frame) /\ Len(<<Head(bytes)>>) = 1
    BY <2>2
  <2>6. PICK rest : rest = IF buf = <<>> THEN <<>> ELSE Tail(buf)
    OBVIOUS
  <2>12. rest \in Seq(Frame) /\ Len(rest) >= Len(buf) - 1
    <3>1. <<>> \in Seq(Frame) /\ Len(<<>>) = 0
      OBVIOUS
    <3>2. CASE buf = <<>>
      BY <2>6, <3>1, <3>2
    <3>3. CASE buf # <<>>
      <4>1. rest = Tail(buf)
        BY <2>6, <3>3
      <4>2. Tail(buf) \in Seq(Frame) /\ Len(Tail(buf)) = Len(buf) - 1 /\ Len(buf) \in Nat
        BY <3>3
      <4>3. QED
        BY <4>1, <4>2
    <3>4. QED
      BY <3>2, <3>3
  <2>7. buffer' = <<Head(bytes)>> \o rest
    BY <2>1, <2>6
  <2>8. buffer' \in Seq(Frame) /\ Len(buffer') = 1 + Len(rest)
    BY <2>5, <2>7, <2>12, ConcatProperties
  <2>9. Len(buffer') >= Len(buf)
    BY <2>8, <2>12
  <2>10. /\ recv_buffer' \in [1 .. Elements -> Seq(Frame)]
         /\ pending' \subseteq [frame : Frame, element : 1 .. Elements]
    BY <1>1, <2>1, <2>2
  <2>11. QED
    BY <2>4, <2>8, <2>9, <2>10
<1>4. QED
  BY <1>2, <1>3

\* What slot "at" has after its recv: the bytes in Fresh are written to its element.
Fresh == SubSeq(Buf, 1, Count)

LEMMA SlotRead ==
  ASSUME Typed, at \in 1 .. Len(fds)
  PROVE  /\ fds[at] \in Socks /\ inbox[fds[at]] \in Seq(Frame)
         /\ Buf \in Seq(Frame) /\ Count \in 0 .. Len(Buf)
         /\ Fresh \in Seq(Frame)
         /\ Reads => Fresh = inbox[fds[at]]
         /\ Count = 0 => Fresh = <<>>
<1>1. fds[at] \in Socks /\ inbox[fds[at]] \in Seq(Frame)
  BY DEF Typed, EachInOnePlace, PeerTypes
<1>2. buffer \in Seq(Frame) /\ recvCount \in 0 .. Len(buffer)
  BY DEF Typed, RoundTypes
<1>3. Buf \in Seq(Frame) /\ Count \in 0 .. Len(Buf)
  <2>1. CASE ~Reads
    BY <1>2, <2>1 DEF Buf, Count
  <2>2. CASE Reads /\ Gone
    BY <1>2, <2>2 DEF Buf, Count, Gone
  <2>3. CASE Reads /\ ~Gone
    BY <1>1, <2>3 DEF Buf, Count
  <2>4. QED
    BY <2>1, <2>2, <2>3
<1>4. Fresh \in Seq(Frame) /\ (Count = 0 => Fresh = <<>>)
  BY <1>3 DEF Fresh
<1>5. ASSUME Reads PROVE Fresh = inbox[fds[at]]
  <2>1. CASE Gone
    BY <1>4, <1>5, <2>1 DEF Gone, Count
  <2>2. CASE ~Gone
    <3>1. Fresh = SubSeq(inbox[fds[at]], 1, Len(inbox[fds[at]]))
      BY <1>5, <2>2 DEF Fresh, Buf, Count
    <3>2. QED
      BY <1>1, <3>1
  <2>3. QED
    BY <2>1, <2>2
<1>6. QED
  BY <1>1, <1>3, <1>4, <1>5

\* The elements of the slots stay when the list does.
LEMMA SameElements == UNCHANGED next => \A i : (ElementAt(i))' = ElementAt(i)
<1> SUFFICES ASSUME UNCHANGED next, NEW i PROVE (ElementAt(i))' = ElementAt(i)
  OBVIOUS
<1>1. ElementAt(i) = WalkOn(next, i) /\ (ElementAt(i))' = WalkOn(next', i)
  BY ElementAtIs
<1>2. QED
  BY <1>1

\* The visits with the elements of the slots put in.
LEMMA ListenerVisited ==
  ASSUME Typed, VisitListener
  PROVE  /\ at = 0 /\ Handlers(1, recv_buffer[1], buffer)
         /\ AllAccepted \/ Stays
         /\ Advance(fds')
<1>1. at = 0 /\ ElementAt(0) = 1 /\ recvCount = 0 /\ recv_buffer[1] \in Seq(Frame)
  BY Facts DEF VisitListener, Typed, RoundTypes, ElementTypes
<1>2. Handlers(1, recv_buffer[1] \o <<>>, buffer)
  <2>1. Handlers(ElementAt(0),
                 Written(ElementAt(0), IF recvCount > 0 THEN SubSeq(buffer, 1, recvCount) ELSE <<>>),
                 buffer)
    BY DEF VisitListener
  <2>2. ~(recvCount > 0)
    BY <1>1
  <2>3. QED
    BY <1>1, <2>1, <2>2 DEF Written
<1>3. recv_buffer[1] \o <<>> = recv_buffer[1]
  BY <1>1, ConcatEmptySeq
<1>4. QED
  BY <1>1, <1>2, <1>3 DEF VisitListener, AllAccepted, Stays

LEMMA ServeVisited ==
  ASSUME Typed, VisitServe
  PROVE  /\ at \in 1 .. Len(fds) /\ ElementAt(at) \in 1 .. Elements
         /\ Handlers(ElementAt(at), recv_buffer[ElementAt(at)] \o Fresh, Buf)
         /\ IF Sends
            THEN /\ send_buffer' = [send_buffer EXCEPT ![ElementAt(at)] = <<>>]
                 /\ delivered' = [delivered EXCEPT ![fds[at]] = @ \o send_buffer[ElementAt(at)]]
            ELSE UNCHANGED <<send_buffer, delivered>>
<1>1. at \in 1 .. Len(fds) /\ ElementAt(at) # 0
  BY DEF VisitServe
<1>2. at \in Nat \ {0}
  BY <1>1
<1>3. ElementAt(at) \in 1 .. Elements
  BY <1>1, <1>2, Facts
<1>4. QED
  BY <1>1, <1>3 DEF VisitServe, Written, Cleared, Fresh

\* The slots before the one that closes keep their elements, the ones behind it get
\* those of later slots.
LEMMA CloseVisited ==
  ASSUME Typed, VisitClose
  PROVE  /\ SlotCloses /\ ElementAt(at) \in 1 .. Elements
         /\ recv_buffer' = [recv_buffer EXCEPT ![ElementAt(at)] = <<>>]
         /\ send_buffer' = [send_buffer EXCEPT ![ElementAt(at)] = <<>>]
         /\ Linked'
         /\ \A i \in 0 .. at : (ElementAt(i))' = ElementAt(i)
         /\ \A i \in Nat : i > at =>
              \E j \in Nat : j > at /\ (ElementAt(i))' = ElementAt(j)
<1>1. at \in 1 .. Len(fds) /\ ElementAt(at) # 0
  BY DEF VisitClose
<1>2. at \in Nat \ {0} /\ Len(fds) \in Nat /\ Linked /\ lost \in Nat
  <2>1. Linked /\ lost \in Nat
    BY DEF Typed, ElementTypes, Linked
  <2>2. Len(fds) \in Nat
    BY Facts
  <2>3. QED
    BY <1>1, <2>1, <2>2
<1>3. ElementAt(at) \in 1 .. Elements
  BY <1>1, <1>2, Facts
<1>4. /\ SlotCloses
      /\ recv_buffer' = [recv_buffer EXCEPT ![ElementAt(at)] = <<>>]
      /\ send_buffer' = [send_buffer EXCEPT ![ElementAt(at)] = <<>>]
  BY DEF VisitClose, Cleared, SlotCloses
<1>5. CASE ~(at < LastAfterCut)
  <2>1. at >= LastAfterCut
    BY <1>2, <1>5 DEF LastAfterCut
  <2>2. next' = next /\ lost' = lost
    BY <1>2, <1>5, <2>1 DEF VisitClose, Swapped
  <2>3. Linked'
    BY <1>2, <2>2 DEF Linked
  <2>4. \A i : (ElementAt(i))' = ElementAt(i)
    BY <2>2, SameElements
  <2>5. QED
    BY <1>3, <1>4, <2>3, <2>4
<1>6. CASE at < LastAfterCut
  <2>1. LastAfterCut \in Nat
    BY <1>1, <1>2 DEF LastAfterCut
  <2>2. PICK b \in Nat : b = LastAfterCut /\ at < b
    BY <1>6, <2>1
  <2>3. ~(at >= b)
    BY <1>2, <2>2
  <2>4. /\ ElementAt(b) # 0 /\ next' = Stored(at, b) /\ lost' = lost + (b - at)
    BY <2>2, <2>3 DEF VisitClose, SwapFinds, Swapped
  <2>5. /\ Linked'
        /\ \A i \in Nat :
             (ElementAt(i))' = IF i <= at THEN ElementAt(i) ELSE ElementAt(i + (b - at))
    BY <1>2, <2>2, <2>4, SwapCuts
  <2>6. \A i \in 0 .. at : i \in Nat /\ i <= at
    BY <1>2
  <2>7. \A i \in Nat : i > at => ~(i <= at) /\ i + (b - at) \in Nat /\ i + (b - at) > at
    BY <1>2, <2>2
  <2>8. QED
    BY <1>3, <1>4, <2>5, <2>6, <2>7
<1>7. QED
  BY <1>5, <1>6

LEMMA NewIsLinked ==
  ASSUME NEW nx, nx = NewList
  PROVE  nx \in [1 .. Elements -> 0 .. Elements] /\ \E x : IsChain(x, nx, Elements - 0)
<1>1. Elements \in Nat /\ Elements \in 1 .. Elements /\ Elements - 0 = Elements
  BY TcpServerAssumption
<1>2. \A e \in 1 .. Elements : nx[e] = IF e = Elements THEN 0 ELSE e + 1
  BY DEF NewList
<1>3. nx \in [1 .. Elements -> 0 .. Elements]
  <2>1. \A e \in 1 .. Elements : (IF e = Elements THEN 0 ELSE e + 1) \in 0 .. Elements
    BY <1>1
  <2>2. QED
    BY <2>1 DEF NewList
<1> DEFINE x == [i \in 1 .. Elements |-> i]
<1>4. \A i \in 1 .. Elements : x[i] = i
  OBVIOUS
<1>5. x \in [1 .. Elements -> 1 .. Elements] /\ x[1] = 1
  BY <1>1
<1>6. \A i \in 1 .. Elements - 1 : nx[x[i]] = x[i + 1]
  <2>1. \A i \in 1 .. Elements - 1 : i \in 1 .. Elements /\ i + 1 \in 1 .. Elements /\ i # Elements
    BY <1>1
  <2>2. QED
    BY <1>2, <1>4, <2>1
<1>7. nx[x[Elements]] = 0
  BY <1>1, <1>2, <1>4
<1> HIDE DEF x
<1>8. IsChain(x, nx, Elements)
  BY <1>4, <1>5, <1>6, <1>7 DEF IsChain
<1>9. QED
  BY <1>1, <1>3, <1>8

LEMMA TypedInit == Init => Typed
<1> SUFFICES ASSUME Init PROVE Typed
  OBVIOUS
<1>1. EachInOnePlace
  BY PlacesInit
<1>2. /\ <<>> \in Seq(Frame) /\ Len(<<>>) = 0 /\ <<>> \in Seq(Nat)
  OBVIOUS
<1>3. PeerTypes
  <2>1. inbox \in [Socks -> Seq(Frame)] /\ sent \in [Socks -> Nat]
    BY <1>2 DEF Init
  <2>2. ASSUME NEW s \in Socks PROVE sent[s] <= MaxFrames[s]
    BY TcpServerAssumption DEF Init
  <2>3. QED
    BY <2>1, <2>2 DEF PeerTypes
<1>4. ElementTypes
  <2>1. Linked
    <3>1. next = NewList /\ lost = 0
      BY DEF Init
    <3>2. Elements \in Nat /\ 0 < Elements
      BY TcpServerAssumption
    <3>3. QED
      BY <3>1, <3>2, NewIsLinked DEF Linked
  <2>2. /\ recv_buffer \in [1 .. Elements -> Seq(Frame)]
        /\ send_buffer \in [1 .. Elements -> Seq(Frame)]
    BY <1>2 DEF Init, NoBytes
  <2>3. taken \in [Socks -> Seq(Nat)] /\ delivered \in [Socks -> Seq(Frame)]
    BY <1>2 DEF Init
  <2>4. pending = {}
    BY DEF Init
  <2>5. QED
    BY <2>1, <2>2, <2>3, <2>4 DEF ElementTypes
<1>5. RoundTypes
  <2>1. at = Idle /\ readable = {} /\ writable = {} /\ recvCount = 0 /\ buffer = <<>>
    BY DEF Init
  <2>2. Slots \in Nat
    BY TcpServerAssumption
  <2>3. at \in Idle .. Slots
    BY <2>1, <2>2 DEF Idle
  <2>4. buffer \in Seq(Frame) /\ recvCount \in Nat /\ recvCount <= Len(buffer)
    BY <1>2, <2>1
  <2>5. QED
    BY <2>1, <2>3, <2>4 DEF RoundTypes
<1>6. FlagTypes
  <2>1. fin \in [Socks -> BOOLEAN]
    BY DEF Init
  <2>2. mixed \in BOOLEAN /\ hasty \in BOOLEAN
    BY DEF Init
  <2>3. QED
    BY <2>1, <2>2 DEF FlagTypes
<1>7. QED
  BY <1>1, <1>3, <1>4, <1>5, <1>6 DEF Typed

\* The flags only ever get a truth value.
LEMMA FlagsStep == FlagTypes /\ [Next]_vars => FlagTypes'
<1> SUFFICES ASSUME FlagTypes, [Next]_vars PROVE FlagTypes'
  OBVIOUS
<1>1. \/ UNCHANGED mixed
      \/ mixed' = (mixed \/ (~Reads /\ Count > 0))
      \/ mixed' = (mixed \/ \E slot \in at + 1 .. Len(fds) : HasUnderWay(slot))
  BY DEF Next, Server, Requests, Peers, StartRound, VisitListener, VisitServe, VisitClose, VisitCrash,
         RequestFails, RequestAnswers, Connect, PeerSends, PeerCloses, vars, history
<1>2. mixed' \in BOOLEAN
  BY <1>1, Zenon DEF FlagTypes
<1>3. \/ UNCHANGED <<fin, hasty>>
      \/ \E s \in Socks : fin' = [fin EXCEPT ![s] = TRUE] /\ hasty' = (hasty \/ Owed(s))
  BY DEF Next, Server, Requests, Peers, StartRound, VisitListener, VisitServe, VisitClose, VisitCrash,
         RequestFails, RequestAnswers, Connect, PeerSends, PeerCloses, vars, history, peers
<1>4. hasty' \in BOOLEAN
  BY <1>3, Zenon DEF FlagTypes
<1>5. fin' \in [Socks -> BOOLEAN]
  BY <1>3 DEF FlagTypes
<1>6. QED
  BY <1>2, <1>4, <1>5 DEF FlagTypes

LEMMA LinkedStays == Linked /\ UNCHANGED <<next, lost>> => Linked'
BY DEF Linked

LEMMA TypedStep == Typed /\ [Next]_vars => Typed'
<1> SUFFICES ASSUME Typed, [Next]_vars PROVE Typed'
  OBVIOUS
<1>1. EachInOnePlace' /\ FlagTypes'
  BY PlacesStep, FlagsStep DEF Typed
<1>2. SUFFICES PeerTypes' /\ ElementTypes' /\ RoundTypes'
  BY <1>1 DEF Typed
<1>3. /\ inbox \in [Socks -> Seq(Frame)] /\ sent \in [Socks -> Nat]
      /\ \A s \in Socks : sent[s] <= MaxFrames[s]
  BY DEF Typed, PeerTypes
<1>4. /\ recv_buffer \in [1 .. Elements -> Seq(Frame)]
      /\ send_buffer \in [1 .. Elements -> Seq(Frame)]
      /\ pending \subseteq [frame : Frame, element : 1 .. Elements]
      /\ taken \in [Socks -> Seq(Nat)]
      /\ delivered \in [Socks -> Seq(Frame)]
  BY DEF Typed, ElementTypes
<1>5. /\ at \in Idle .. Slots /\ readable \subseteq Socks \cup {Listener} /\ writable \subseteq Socks
      /\ buffer \in Seq(Frame) /\ recvCount \in Nat /\ recvCount <= Len(buffer)
      /\ at = 0 => recvCount = 0
  BY DEF Typed, RoundTypes
<1>6. RangeOf(fds) \subseteq Socks /\ Slots \in Nat
  BY TcpServerAssumption DEF Typed, EachInOnePlace, With
<1>7. fds' \in Seq(Socks) /\ Len(fds') <= Slots
  <2>1. Len(fds') \in Nat /\ Len(backlog') \in Nat /\ Len(fds') + Len(backlog') <= Slots
    BY <1>1 DEF EachInOnePlace
  <2>2. QED
    BY <1>1, <1>6, <2>1 DEF EachInOnePlace
<1>8. <<>> \in Seq(Frame) /\ Len(<<>>) = 0
  OBVIOUS
<1>11. CASE StartRound
  <2>1. PeerTypes'
    BY <1>11 DEF StartRound, Typed, PeerTypes, peers
  <2>2. ElementTypes'
    BY <1>11, LinkedStays
       DEF StartRound, Typed, ElementTypes, slots, elements, requests, history
  <2>3. at' = 0 /\ recvCount' = 0 /\ buffer' = buffer /\ Len(buffer) \in Nat
    BY <1>5, <1>11 DEF StartRound, CountAtStart
  <2>4. readable' \subseteq Socks \cup {Listener} /\ writable' \subseteq Socks
    BY <1>6, <1>11 DEF StartRound
  <2>5. 0 \in Idle .. Slots
    BY <1>6 DEF Idle
  <2>6. QED
    BY <1>5, <2>1, <2>2, <2>3, <2>4, <2>5 DEF RoundTypes
<1>12. CASE VisitListener
  <2>1. Elements \in Nat /\ 1 \in 1 .. Elements
    BY TcpServerAssumption
  <2>2. /\ at = 0 /\ Handlers(1, recv_buffer[1], buffer) /\ recv_buffer[1] \in Seq(Frame)
        /\ Advance(fds')
    BY <1>4, <1>12, <2>1, ListenerVisited
  <2>3. /\ recv_buffer' \in [1 .. Elements -> Seq(Frame)]
        /\ pending' \subseteq [frame : Frame, element : 1 .. Elements]
        /\ taken' \in [Socks -> Seq(Nat)]
        /\ buffer' \in Seq(Frame) /\ Len(buffer') >= Len(buffer)
    BY <1>5, <2>1, <2>2, HandlersTyped
  <2>4. PeerTypes'
    BY <1>12 DEF VisitListener, Typed, PeerTypes
  <2>5. ElementTypes'
    BY <1>12, <2>3, LinkedStays DEF VisitListener, Typed, ElementTypes, history
  <2>6. at' \in Idle .. Slots /\ at' # 0
    BY <1>6, <1>7, <2>2, AdvanceTyped
  <2>7. recvCount' = recvCount /\ UNCHANGED <<readable, writable>>
    BY <1>12 DEF VisitListener
  <2>8. recvCount' <= Len(buffer')
    BY <1>5, <2>3, <2>7
  <2>9. QED
    BY <1>5, <2>3, <2>4, <2>5, <2>6, <2>7, <2>8 DEF RoundTypes
<1>13. CASE VisitServe
  <2>13. PICK e \in 1 .. Elements : e = ElementAt(at)
    BY <1>13, ServeVisited
  <2>1. /\ at \in 1 .. Len(fds)
        /\ Handlers(e, recv_buffer[e] \o Fresh, Buf)
    BY <1>13, <2>13, ServeVisited
  <2>2. /\ fds[at] \in Socks /\ Buf \in Seq(Frame) /\ Count \in 0 .. Len(Buf)
        /\ Fresh \in Seq(Frame)
    BY <2>1, SlotRead
  <2>3. recv_buffer[e] \in Seq(Frame) /\ send_buffer[e] \in Seq(Frame)
    BY <1>4
  <2>4. recv_buffer[e] \o Fresh \in Seq(Frame)
    BY <2>2, <2>3, ConcatProperties
  <2>5. /\ recv_buffer' \in [1 .. Elements -> Seq(Frame)]
        /\ pending' \subseteq [frame : Frame, element : 1 .. Elements]
        /\ taken' \in [Socks -> Seq(Nat)]
        /\ buffer' \in Seq(Frame) /\ Len(buffer') >= Len(Buf)
    BY <2>1, <2>2, <2>4, HandlersTyped
  <2>6. /\ send_buffer' \in [1 .. Elements -> Seq(Frame)]
        /\ delivered' \in [Socks -> Seq(Frame)]
    <3>1. CASE Sends
      <4>1. delivered[fds[at]] \o send_buffer[e] \in Seq(Frame)
        BY <1>4, <2>2, <2>3, ConcatProperties
      <4>2. QED
        BY <1>4, <1>8, <1>13, <2>2, <2>13, <3>1, <4>1, ServeVisited
    <3>2. CASE ~Sends
      BY <1>4, <1>13, <3>2, ServeVisited
    <3>3. QED
      BY <3>1, <3>2
  <2>7. ElementTypes'
    BY <1>13, <2>5, <2>6, LinkedStays DEF VisitServe, Typed, ElementTypes, slots
  <2>8. PeerTypes'
    <3>1. sent' = sent /\ inbox' \in [Socks -> Seq(Frame)]
      BY <1>3, <1>8, <1>13, <2>2 DEF VisitServe
    <3>2. QED
      BY <1>3, <3>1 DEF PeerTypes
  <2>9. at' \in Idle .. Slots /\ at' # 0
    <3>1. at \in 0 .. Slots /\ fds \in Seq(Socks) /\ Len(fds) <= Slots
      BY <1>6, <2>1, Facts DEF Typed, EachInOnePlace
    <3>2. QED
      BY <1>13, <3>1, AdvanceTyped DEF VisitServe
  <2>10. recvCount' = Count /\ UNCHANGED <<readable, writable>>
    BY <1>13 DEF VisitServe
  <2>11. recvCount' \in Nat /\ recvCount' <= Len(buffer')
    BY <2>2, <2>5, <2>10
  <2>12. QED
    BY <1>5, <2>5, <2>7, <2>8, <2>9, <2>10, <2>11 DEF RoundTypes
<1>14. CASE VisitClose
  <2>1. at \in 1 .. Len(fds)
    BY <1>14 DEF VisitClose
  <2>2. fds[at] \in Socks /\ Buf \in Seq(Frame) /\ Count \in 0 .. Len(Buf)
    BY <2>1, SlotRead
  <2>3. /\ recv_buffer' \in [1 .. Elements -> Seq(Frame)]
        /\ send_buffer' \in [1 .. Elements -> Seq(Frame)]
        /\ UNCHANGED <<pending, taken, delivered>> /\ Linked'
    BY <1>4, <1>8, <1>14, CloseVisited DEF VisitClose, requests
  <2>4. ElementTypes'
    BY <1>4, <2>3 DEF ElementTypes
  <2>5. PeerTypes'
    <3>1. sent' = sent /\ inbox' \in [Socks -> Seq(Frame)]
      BY <1>3, <1>8, <1>14, <2>2 DEF VisitClose
    <3>2. QED
      BY <1>3, <3>1 DEF PeerTypes
  <2>6. at' \in Idle .. Slots /\ at' # 0
    <3>1. at \in 0 .. Slots
      BY <1>6, <2>1, Facts
    <3>2. QED
      BY <1>7, <1>14, <3>1, AdvanceTyped DEF VisitClose
  <2>7. recvCount' = Count /\ buffer' = Buf /\ UNCHANGED <<readable, writable>>
    BY <1>14 DEF VisitClose
  <2>8. QED
    BY <1>5, <2>2, <2>4, <2>5, <2>6, <2>7 DEF RoundTypes
<1>19. CASE VisitCrash
  <2>1. /\ inbox' = [s \in Socks |-> <<>>] /\ next' = NewList /\ lost' = 0
        /\ recv_buffer' = NoBytes /\ send_buffer' = NoBytes
        /\ at' = Idle /\ readable' = {} /\ writable' = {} /\ recvCount' = 0 /\ buffer' = <<>>
        /\ pending' = {} /\ UNCHANGED <<sent, taken, delivered>>
    BY <1>19 DEF VisitCrash, history
  <2>2. PeerTypes'
    BY <1>3, <1>8, <2>1 DEF PeerTypes
  <2>3. Linked'
    <3>1. Elements \in Nat /\ 0 < Elements
      BY TcpServerAssumption
    <3>2. QED
      BY <2>1, <3>1, NewIsLinked DEF Linked
  <2>4. /\ recv_buffer' \in [1 .. Elements -> Seq(Frame)]
        /\ send_buffer' \in [1 .. Elements -> Seq(Frame)]
    BY <1>8, <2>1 DEF NoBytes
  <2>5. ElementTypes'
    BY <1>4, <2>1, <2>3, <2>4 DEF ElementTypes
  <2>6. at' \in Idle .. Slots /\ at' # 0
    BY <1>6, <2>1 DEF Idle
  <2>7. QED
    BY <1>8, <2>1, <2>2, <2>5, <2>6 DEF RoundTypes
<1>15. CASE Requests
  <2>1. PICK r \in pending : RequestFails(r) \/ RequestAnswers(r)
    BY <1>15 DEF Requests
  <2>2. r.frame \in Frame /\ r.element \in 1 .. Elements
    BY <1>4
  <2>3. pending' \subseteq pending /\ send_buffer' \in [1 .. Elements -> Seq(Frame)]
    <3>1. pending' = pending \ {r}
      BY <2>1 DEF RequestFails, RequestAnswers
    <3>2. \/ send_buffer' = send_buffer
          \/ send_buffer' = [send_buffer EXCEPT ![r.element] = <<r.frame>>]
      BY <2>1 DEF RequestFails, RequestAnswers, elements
    <3>3. <<r.frame>> \in Seq(Frame)
      BY <2>2
    <3>4. QED
      BY <1>4, <2>2, <3>1, <3>2, <3>3
  <2>4. UNCHANGED <<peers, slots, recv_buffer, round, taken, history>>
    BY <2>1 DEF RequestFails, RequestAnswers, elements
  <2>5. PeerTypes' /\ RoundTypes'
    BY <2>4 DEF Typed, PeerTypes, RoundTypes, peers, round
  <2>6. ElementTypes'
    BY <1>4, <2>3, <2>4, LinkedStays DEF Typed, ElementTypes, slots, history
  <2>7. QED
    BY <2>5, <2>6
<1>16. CASE Peers
  <2>1. UNCHANGED <<next, lost, elements, round, requests, delivered>>
    BY <1>16 DEF Peers, Connect, PeerSends, PeerCloses, slots, history
  <2>2. ElementTypes' /\ RoundTypes'
    BY <2>1, LinkedStays DEF Typed, ElementTypes, RoundTypes, elements, round, requests
  <2>3. PICK s \in Socks : UNCHANGED <<inbox, sent>> \/ PeerSends(s)
    BY <1>16 DEF Peers, Connect, PeerCloses
  <2>4. CASE UNCHANGED <<inbox, sent>>
    BY <1>3, <2>2, <2>4 DEF PeerTypes
  <2>5. CASE PeerSends(s)
    <3>1. sent[s] \in Nat /\ inbox[s] \in Seq(Frame) /\ MaxFrames[s] \in Nat
      BY <1>3, TcpServerAssumption
    <3>2. [from |-> s, n |-> sent[s] + 1] \in Frame
      BY <3>1 DEF Frame
    <3>3. inbox' \in [Socks -> Seq(Frame)]
      BY <1>3, <2>5, <3>1, <3>2 DEF PeerSends
    <3>4. sent' = [sent EXCEPT ![s] = sent[s] + 1] /\ sent[s] < MaxFrames[s]
      BY <2>5 DEF PeerSends
    <3>5. sent[s] + 1 \in Nat /\ sent[s] + 1 <= MaxFrames[s]
      BY <3>1, <3>4
    <3>6. sent' \in [Socks -> Nat] /\ \A t \in Socks : sent'[t] <= MaxFrames[t]
      BY <1>3, <3>4, <3>5
    <3>7. QED
      BY <2>2, <3>3, <3>6 DEF PeerTypes
  <2>6. QED
    BY <2>2, <2>3, <2>4, <2>5
<1>17. CASE UNCHANGED vars
  BY <1>17, LinkedStays DEF vars, Typed, PeerTypes, ElementTypes, RoundTypes, peers, slots, elements,
               round, requests, history
<1>18. QED
  BY <1>11, <1>12, <1>13, <1>14, <1>15, <1>16, <1>17, <1>19 DEF Next, Server

\* Type correctness, however many clients are connected at a time and whatever the
\* swaps took off the list: it stays a list, without a cycle (wifi.c).
THEOREM TypeCorrect == Spec => []Typed
<1>1. QED
  BY TypedInit, TypedStep, PTL DEF Spec

\* The fds of the service are the connections it accepted, and its data is in order,
\* for any number of clients (wifi.c).
THEOREM SocketsAreServed == Spec => []SocketsServed
<1>1. Typed => SocketsServed
  <2> SUFFICES ASSUME Typed PROVE SocketsServed
    OBVIOUS
  <2>2. TypeOK
    BY TypedIsTypeOK
  <2>3. QED
    BY <2>2 DEF Typed, EachInOnePlace, NoRepeats, With, SocketsServed
<1>2. QED
  BY <1>1, TypeCorrect, PTL

\* Every slot that the list still reaches has an element of its own, and the list is
\* short by what the swaps took off it, for any number of clients (wifi.c).
THEOREM SlotsKeepOwn == Spec => []SlotsHaveOwn
<1>1. Typed => SlotsHaveOwn
  <2> SUFFICES ASSUME Typed PROVE SlotsHaveOwn
    OBVIOUS
  <2>1. Linked /\ Elements \in Nat /\ lost \in Nat /\ lost < Elements
    BY DEF Typed, ElementTypes, Linked
  <2>2. /\ ElementAt(0) = 1
        /\ \A i \in 1 .. Elements - lost : ElementAt(i) \in 1 .. Elements
        /\ \A i \in Nat : i > Elements - lost => ElementAt(i) = 0
        /\ \A i, j \in 1 .. Elements - lost : ElementAt(i) = ElementAt(j) => i = j
    BY <2>1, ElementsOfSlots
  <2>3. ASSUME NEW i \in 0 .. Elements + 1
        PROVE  ElementAt(i) = 0 <=> i > Elements - lost
    <3>1. i \in Nat /\ (i = 0 \/ i \in 1 .. Elements - lost \/ i > Elements - lost)
      BY <2>1
    <3>2. i > Elements - lost => i # 0 /\ i \notin 1 .. Elements - lost
      BY <2>1
    <3>3. i = 0 \/ i \in 1 .. Elements - lost => ElementAt(i) # 0 /\ ~(i > Elements - lost)
      BY <2>1, <2>2
    <3>4. QED
      BY <2>2, <3>1, <3>3
  <2>4. QED
    BY <2>2, <2>3 DEF SlotsHaveOwn
<1>2. QED
  BY <1>1, TypeCorrect, PTL

-----------------------------------------------------------------------------
(* Frames on their way                                                     *)

\* q holds the frames of s that follow number "from", in order.
Numbered(q, s, from) == \A k \in 1 .. Len(q) : q[k] = [from |-> s, n |-> from + k]

LEMMA NumberedTail ==
  ASSUME NEW E, NEW q \in Seq(E), NEW s, NEW from \in Nat, Numbered(q, s, from), q # <<>>
  PROVE  /\ Head(q) = [from |-> s, n |-> from + 1]
         /\ Tail(q) \in Seq(E) /\ Len(Tail(q)) = Len(q) - 1
         /\ Numbered(Tail(q), s, from + 1)
<1>1. /\ Len(q) \in Nat \ {0} /\ Head(q) = q[1]
      /\ Tail(q) \in Seq(E) /\ Len(Tail(q)) = Len(q) - 1
      /\ \A k \in 1 .. Len(q) - 1 : Tail(q)[k] = q[k + 1]
  OBVIOUS
<1>2. Head(q) = [from |-> s, n |-> from + 1]
  BY <1>1 DEF Numbered
<1>3. ASSUME NEW k \in 1 .. Len(q) - 1
      PROVE  Tail(q)[k] = [from |-> s, n |-> (from + 1) + k]
  <2>1. k + 1 \in 1 .. Len(q) /\ from + (k + 1) = (from + 1) + k
    BY <1>1
  <2>2. q[k + 1] = [from |-> s, n |-> from + (k + 1)]
    BY <2>1 DEF Numbered
  <2>3. QED
    BY <1>1, <2>1, <2>2
<1>4. QED
  BY <1>1, <1>2, <1>3 DEF Numbered

LEMMA NumberedConcat ==
  ASSUME NEW E, NEW q \in Seq(E), NEW r \in Seq(E), NEW s, NEW from \in Nat,
         Numbered(q, s, from), Numbered(r, s, from + Len(q))
  PROVE  /\ q \o r \in Seq(E) /\ Len(q \o r) = Len(q) + Len(r)
         /\ Numbered(q \o r, s, from)
<1>1. /\ Len(q) \in Nat /\ Len(r) \in Nat
      /\ q \o r \in Seq(E) /\ Len(q \o r) = Len(q) + Len(r)
      /\ \A i \in 1 .. Len(q) : (q \o r)[i] = q[i]
      /\ \A i \in Len(q) + 1 .. Len(q) + Len(r) : (q \o r)[i] = r[i - Len(q)]
  BY ConcatProperties
<1>2. ASSUME NEW k \in 1 .. Len(q) + Len(r)
      PROVE  (q \o r)[k] = [from |-> s, n |-> from + k]
  <2>1. CASE k <= Len(q)
    <3>1. k \in 1 .. Len(q)
      BY <1>1, <2>1
    <3>2. QED
      BY <1>1, <3>1 DEF Numbered
  <2>2. CASE ~(k <= Len(q))
    <3>1. /\ k \in Len(q) + 1 .. Len(q) + Len(r) /\ k - Len(q) \in 1 .. Len(r)
          /\ (from + Len(q)) + (k - Len(q)) = from + k
      BY <1>1, <2>2
    <3>2. r[k - Len(q)] = [from |-> s, n |-> (from + Len(q)) + (k - Len(q))]
      BY <3>1 DEF Numbered
    <3>3. QED
      BY <1>1, <3>1, <3>2
  <2>3. QED
    BY <2>1, <2>2
<1>3. QED
  BY <1>1, <1>2 DEF Numbered

LEMMA NumberedAppend ==
  ASSUME NEW E, NEW q \in Seq(E), NEW s, NEW from \in Nat, Numbered(q, s, from),
         NEW x \in E, x = [from |-> s, n |-> from + Len(q) + 1]
  PROVE  /\ Append(q, x) \in Seq(E) /\ Len(Append(q, x)) = Len(q) + 1
         /\ Numbered(Append(q, x), s, from)
<1>1. /\ Len(q) \in Nat /\ Append(q, x) \in Seq(E) /\ Len(Append(q, x)) = Len(q) + 1
      /\ Append(q, x)[Len(q) + 1] = x
      /\ \A i \in 1 .. Len(q) : Append(q, x)[i] = q[i]
  OBVIOUS
<1>2. ASSUME NEW k \in 1 .. Len(q) + 1
      PROVE  Append(q, x)[k] = [from |-> s, n |-> from + k]
  <2>1. CASE k = Len(q) + 1
    <3>1. from + k = from + Len(q) + 1
      BY <1>1, <2>1
    <3>2. QED
      BY <1>1, <2>1, <3>1
  <2>2. CASE k # Len(q) + 1
    <3>1. k \in 1 .. Len(q)
      BY <1>1, <2>2
    <3>2. QED
      BY <1>1, <3>1 DEF Numbered
  <2>3. QED
    BY <2>1, <2>2
<1>3. QED
  BY <1>1, <1>2 DEF Numbered

LEMMA NumberedNothing == ASSUME NEW s, NEW from PROVE Numbered(<<>>, s, from)
BY DEF Numbered

\* The requests made of a connection's frames are its first frames in order; what
\* waits in its socket are its last ones.
PeerInOrder(s) ==
  /\ Len(taken[s]) <= sent[s]
  /\ \A k \in 1 .. Len(taken[s]) : taken[s][k] = k
  /\ Len(inbox[s]) <= sent[s]
  /\ Numbered(inbox[s], s, sent[s] - Len(inbox[s]))
  /\ conn[s] \in {"away", "waiting"} => taken[s] = <<>> /\ Len(inbox[s]) = sent[s]
  /\ conn[s] = "away" => sent[s] = 0

\* What the element of a slot holds; a slot without one holds nothing.
Held(i) == IF ElementAt(i) = 0 THEN <<>> ELSE recv_buffer[ElementAt(i)]

\* The element of a slot holds those in between.
SlotInOrder(i) ==
  /\ Numbered(Held(i), fds[i], Len(taken[fds[i]]))
  /\ Len(taken[fds[i]]) + Len(Held(i)) + Len(inbox[fds[i]]) = sent[fds[i]]

\* An element no slot has.
Unused(e) == \A i \in 1 .. Len(fds) : ElementAt(i) # e

PeersInOrder == \A s \in Socks : PeerInOrder(s)

AllInOrder ==
  /\ PeersInOrder
  /\ \A i \in 1 .. Len(fds) : SlotInOrder(i)
  /\ \A e \in 1 .. Elements : Unused(e) => recv_buffer[e] = <<>>

\* The types that matter here, in the form of facts.
LEMMA FlowFacts ==
  ASSUME Typed
  PROVE  /\ \A s \in Socks : /\ taken[s] \in Seq(Nat) /\ Len(taken[s]) \in Nat
                             /\ inbox[s] \in Seq(Frame) /\ Len(inbox[s]) \in Nat
                             /\ sent[s] \in Nat
         /\ \A e \in 1 .. Elements : recv_buffer[e] \in Seq(Frame) /\ Len(recv_buffer[e]) \in Nat
         /\ \A i \in 1 .. Len(fds) : /\ i \in Nat \ {0} /\ fds[i] \in Socks
                                     /\ Held(i) \in Seq(Frame) /\ Len(Held(i)) \in Nat
         /\ \A i, j \in 1 .. Len(fds) : fds[i] = fds[j] => i = j
<1>1. \A i, j \in 1 .. Len(fds) : fds[i] = fds[j] => i = j
  BY DEF Typed, EachInOnePlace, NoRepeats
<1>2. \A i \in 1 .. Len(fds) : i \in Nat \ {0} /\ fds[i] \in Socks
  BY Facts
<1>3. \A s \in Socks : taken[s] \in Seq(Nat) /\ inbox[s] \in Seq(Frame) /\ sent[s] \in Nat
  BY DEF Typed, ElementTypes, PeerTypes
<1>4. \A e \in 1 .. Elements : recv_buffer[e] \in Seq(Frame)
  BY DEF Typed, ElementTypes
<1>5. ASSUME NEW i \in 1 .. Len(fds) PROVE Held(i) \in Seq(Frame)
  <2>1. ElementAt(i) # 0 => ElementAt(i) \in 1 .. Elements
    BY <1>2, Facts
  <2>2. QED
    BY <1>4, <2>1 DEF Held
<1>6. QED
  BY <1>1, <1>2, <1>3, <1>4, <1>5

\* The same after a step that leaves the list as it is.
HeldThen(i) == IF ElementAt(i) = 0 THEN <<>> ELSE recv_buffer'[ElementAt(i)]

LEMMA HeldNext == UNCHANGED next => \A i : (Held(i))' = HeldThen(i)
BY SameElements DEF Held, HeldThen

SlotThen(i) ==
  /\ Numbered(HeldThen(i), fds'[i], Len(taken'[fds'[i]]))
  /\ Len(taken'[fds'[i]]) + Len(HeldThen(i)) + Len(inbox'[fds'[i]]) = sent'[fds'[i]]

LEMMA SlotsThen ==
  ASSUME UNCHANGED next, PeersInOrder', \A i \in 1 .. Len(fds') : SlotThen(i),
         \A e \in 1 .. Elements :
           (\A i \in 1 .. Len(fds') : ElementAt(i) # e) => recv_buffer'[e] = <<>>
  PROVE  AllInOrder'
<1>1. \A i : (ElementAt(i))' = ElementAt(i)
  BY SameElements
<1>2. \A i \in 1 .. Len(fds') : SlotInOrder(i)'
  BY <1>1 DEF SlotInOrder, SlotThen, Held, HeldThen, Numbered
<1>3. \A e \in 1 .. Elements : Unused(e)' => recv_buffer'[e] = <<>>
  BY <1>1 DEF Unused
<1>4. QED
  BY <1>2, <1>3 DEF AllInOrder

\* The handlers take the first frame of what is written to element e, where client s is.
FirstTaken(e, s, bytes) ==
  /\ taken' \in [Socks -> Seq(Nat)]
  /\ \A k \in 1 .. Len(taken'[s]) : taken'[s][k] = k
  /\ Numbered(recv_buffer'[e], s, Len(taken'[s]))
  /\ Len(taken'[s]) + Len(recv_buffer'[e]) = Len(taken[s]) + Len(bytes)
  /\ \A t \in Socks : t # s => taken'[t] = taken[t]
  /\ \A d \in 1 .. Elements : d # e => recv_buffer'[d] = recv_buffer[d]
  /\ \/ taken'[s] = taken[s] /\ UNCHANGED pending
     \/ \E f \in Frame :
          /\ f = [from |-> s, n |-> Len(taken[s]) + 1] /\ Len(bytes) > 0
          /\ Len(taken'[s]) = Len(taken[s]) + 1
          /\ pending' = pending \cup {[frame |-> f, element |-> e]}

LEMMA HandlersInOrder ==
  ASSUME Typed, NEW e \in 1 .. Elements, NEW s \in Socks,
         \A k \in 1 .. Len(taken[s]) : taken[s][k] = k,
         NEW bytes \in Seq(Frame), Numbered(bytes, s, Len(taken[s])),
         NEW buf \in Seq(Frame), Handlers(e, bytes, buf)
  PROVE  FirstTaken(e, s, bytes)
<1>1. /\ s \in Socks /\ taken[s] \in Seq(Nat) /\ Len(taken[s]) \in Nat /\ Len(bytes) \in Nat
      /\ e \in 1 .. Elements /\ recv_buffer \in [1 .. Elements -> Seq(Frame)]
      /\ taken \in [Socks -> Seq(Nat)]
  BY FlowFacts DEF Typed, ElementTypes
<1>2. CASE bytes = <<>>
  <2>1. /\ recv_buffer' = [recv_buffer EXCEPT ![e] = bytes]
        /\ UNCHANGED <<pending, taken>>
    BY <1>2 DEF Handlers, HasWork, requests
  <2>2. recv_buffer'[e] = bytes /\ \A d \in 1 .. Elements : d # e => recv_buffer'[d] = recv_buffer[d]
    BY <1>1, <2>1
  <2>3. QED
    BY <1>1, <2>1, <2>2 DEF FirstTaken
<1>3. CASE bytes # <<>>
  <2>1. /\ Head(bytes) = [from |-> s, n |-> Len(taken[s]) + 1]
        /\ Len(Tail(bytes)) = Len(bytes) - 1
        /\ Numbered(Tail(bytes), s, Len(taken[s]) + 1)
    BY <1>1, <1>3, NumberedTail
  <2>2. Head(bytes) \in Frame /\ Len(bytes) > 0
    BY <1>3
  <2>3. Head(bytes).from = s /\ Head(bytes).n = Len(taken[s]) + 1
    BY <2>1
  <2>4. /\ recv_buffer' = [recv_buffer EXCEPT ![e] = Tail(bytes)]
        /\ pending' = pending \cup {[frame |-> Head(bytes), element |-> e]}
        /\ taken' = [taken EXCEPT ![s] = Append(taken[s], Len(taken[s]) + 1)]
    BY <1>3, <2>3 DEF Handlers, HasWork
  <2>5. /\ recv_buffer'[e] = Tail(bytes)
        /\ \A d \in 1 .. Elements : d # e => recv_buffer'[d] = recv_buffer[d]
    BY <1>1, <2>4
  <2>6. /\ taken'[s] = Append(taken[s], Len(taken[s]) + 1)
        /\ \A t \in Socks : t # s => taken'[t] = taken[t]
    BY <1>1, <2>4
  <2>7. /\ Append(taken[s], Len(taken[s]) + 1) \in Seq(Nat)
        /\ Len(Append(taken[s], Len(taken[s]) + 1)) = Len(taken[s]) + 1
        /\ Append(taken[s], Len(taken[s]) + 1)[Len(taken[s]) + 1] = Len(taken[s]) + 1
        /\ \A k \in 1 .. Len(taken[s]) :
             Append(taken[s], Len(taken[s]) + 1)[k] = taken[s][k]
    BY <1>1
  <2>8. taken' \in [Socks -> Seq(Nat)]
    BY <1>1, <2>4, <2>7
  <2>9. \A k \in 1 .. Len(taken[s]) + 1 : k \in 1 .. Len(taken[s]) \/ k = Len(taken[s]) + 1
    <3>1. Len(taken[s]) \in Nat
      BY <1>1
    <3>2. QED
      BY ONLY <3>1
  <2>10. \A k \in 1 .. Len(taken'[s]) : taken'[s][k] = k
    BY <2>6, <2>7, <2>9
  <2>11. Len(taken'[s]) + Len(recv_buffer'[e]) = Len(taken[s]) + Len(bytes)
    <3>1. Len(taken'[s]) = Len(taken[s]) + 1
      BY <2>6, <2>7
    <3>2. Len(recv_buffer'[e]) = Len(bytes) - 1
      BY <2>1, <2>5
    <3>3. Len(taken[s]) \in Nat /\ Len(bytes) \in Nat
      BY <1>1
    <3>4. QED
      BY ONLY <3>1, <3>2, <3>3
  <2>12. Numbered(recv_buffer'[e], s, Len(taken'[s]))
    BY <2>1, <2>5, <2>6, <2>7
  <2>13. QED
    BY <2>1, <2>2, <2>4, <2>5, <2>6, <2>7, <2>8, <2>10, <2>11, <2>12 DEF FirstTaken
<1>4. QED
  BY <1>2, <1>3

LEMMA InOrderInit == Init => AllInOrder
<1> SUFFICES ASSUME Init PROVE AllInOrder
  OBVIOUS
<1>1. ASSUME NEW s \in Socks PROVE PeerInOrder(s)
  <2>1. taken[s] = <<>> /\ sent[s] = 0 /\ inbox[s] = <<>>
    BY <1>1 DEF Init
  <2>2. Len(<<>>) = 0
    OBVIOUS
  <2>3. QED
    BY <2>1, <2>2, NumberedNothing DEF PeerInOrder
<1>2. fds = <<>> /\ Len(<<>>) = 0
  BY DEF Init
<1>3. \A e \in 1 .. Elements : recv_buffer[e] = <<>>
  BY DEF Init, NoBytes
<1>4. 1 .. Len(fds) = {}
  BY <1>2
<1>5. QED
  BY <1>1, <1>3, <1>4 DEF AllInOrder, PeersInOrder

LEMMA FirstOfSum ==
  ASSUME NEW a \in Nat, NEW b \in Nat, NEW c \in Nat, NEW n, a + b + c = n
  PROVE  a <= n
OBVIOUS

LEMMA SumKept ==
  ASSUME NEW a \in Nat, NEW b \in Nat, NEW f \in Nat, NEW w \in Nat,
         NEW a2 \in Nat, NEW b2 \in Nat, NEW n \in Nat,
         a2 + b2 = a + (b + f), a + b + (f + w) = n
  PROVE  a2 + b2 + w = n
OBVIOUS

\* A step that changes none of this.
LEMMA InOrderUntouched ==
  ASSUME AllInOrder, UNCHANGED <<conn, fds, next, inbox, sent, recv_buffer, taken>>
  PROVE  AllInOrder'
<1>1. PeersInOrder'
  BY DEF AllInOrder, PeersInOrder, PeerInOrder, Numbered
<1>2. \A i \in 1 .. Len(fds) : SlotThen(i)
  BY DEF AllInOrder, SlotInOrder, SlotThen, Held, HeldThen
<1>3. \A e \in 1 .. Elements :
        (\A i \in 1 .. Len(fds) : ElementAt(i) # e) => recv_buffer'[e] = <<>>
  BY DEF AllInOrder, Unused
<1>4. QED
  BY <1>1, <1>2, <1>3, SlotsThen

\* The handlers of one slot, with element e for s, touch nothing of the others.
OthersKept(i, e, s) ==
  /\ HeldThen(i) = recv_buffer'[e]
  /\ \A j \in 1 .. Len(fds) : j # i =>
       /\ HeldThen(j) = Held(j) /\ fds[j] # s /\ taken'[fds[j]] = taken[fds[j]]
  /\ \A d \in 1 .. Elements : Unused(d) => recv_buffer'[d] = <<>>

LEMMA OthersInOrder ==
  ASSUME Typed, AllInOrder, UNCHANGED next,
         NEW i \in 1 .. Len(fds), NEW e \in 1 .. Elements, e = ElementAt(i),
         NEW s \in Socks, s = fds[i], NEW bytes, FirstTaken(e, s, bytes)
  PROVE  OthersKept(i, e, s)
<1>1. e # 0
  OBVIOUS
<1>2. \A j : HeldThen(j) = IF ElementAt(j) = 0 THEN <<>> ELSE recv_buffer'[ElementAt(j)]
  BY DEF HeldThen
<1>3. ASSUME NEW j \in 1 .. Len(fds), j # i
      PROVE  HeldThen(j) = Held(j) /\ fds[j] # s /\ taken'[fds[j]] = taken[fds[j]]
  <2>1. /\ j \in Nat \ {0} /\ i \in Nat \ {0} /\ fds[j] \in Socks
        /\ fds[j] = fds[i] => j = i
    BY FlowFacts
  <2>2. /\ ElementAt(j) # 0 => ElementAt(j) \in 1 .. Elements
        /\ ElementAt(j) # 0 => ElementAt(j) # e
    BY <1>3, <2>1, Facts
  <2>3. fds[j] # s /\ taken'[fds[j]] = taken[fds[j]]
    BY <1>3, <2>1 DEF FirstTaken
  <2>4. ElementAt(j) # 0 => recv_buffer'[ElementAt(j)] = recv_buffer[ElementAt(j)]
    BY <2>2 DEF FirstTaken
  <2>5. QED
    BY <1>2, <2>3, <2>4 DEF Held
<1>4. ASSUME NEW d \in 1 .. Elements, Unused(d) PROVE recv_buffer'[d] = <<>>
  <2>1. d # e
    BY <1>4 DEF Unused
  <2>2. QED
    BY <1>4, <2>1 DEF FirstTaken, AllInOrder
<1>5. QED
  BY <1>1, <1>2, <1>3, <1>4 DEF OthersKept

\* Slot 0 runs the handlers for the client in slot 1, or for an empty element, and
\* accepts.
LEMMA InOrderListener ==
  ASSUME Typed, AllInOrder, VisitListener, Typed' PROVE AllInOrder'
<1>1. /\ at = 0 /\ Handlers(1, recv_buffer[1], buffer)
      /\ AllAccepted \/ Stays
      /\ UNCHANGED <<inbox, sent, next>>
  BY ListenerVisited DEF VisitListener
<1>2. /\ Len(fds) \in Nat /\ 1 \in 1 .. Elements /\ ElementAt(1) = 1
      /\ recv_buffer[1] \in Seq(Frame) /\ recv_buffer \in [1 .. Elements -> Seq(Frame)]
  <2>1. Len(fds) \in Nat /\ 1 \in 1 .. Elements /\ ElementAt(1) = 1
    BY Facts
  <2>2. QED
    BY <2>1 DEF Typed, ElementTypes
<1>3. /\ \A s \in Socks : s \notin With("open") => taken'[s] = taken[s]
      /\ \A s \in Socks : Len(taken'[s]) <= sent[s]
                          /\ \A k \in 1 .. Len(taken'[s]) : taken'[s][k] = k
      /\ \A i \in 1 .. Len(fds) :
           /\ Numbered(HeldThen(i), fds[i], Len(taken'[fds[i]]))
           /\ Len(taken'[fds[i]]) + Len(HeldThen(i)) + Len(inbox[fds[i]]) = sent[fds[i]]
      /\ \A e \in 1 .. Elements : Unused(e) => recv_buffer'[e] = <<>>
  <2>1. CASE Len(fds) = 0
    <3>6. \A e \in 1 .. Elements : recv_buffer[e] = <<>>
      BY <1>2, <2>1 DEF AllInOrder, Unused
    <3>1. recv_buffer[1] = <<>>
      BY <1>2, <3>6
    <3>2. recv_buffer' = [recv_buffer EXCEPT ![1] = <<>>] /\ UNCHANGED taken
      BY <1>1, <3>1 DEF Handlers, HasWork, requests
    <3>3. \A e \in 1 .. Elements : recv_buffer'[e] = <<>>
      BY <1>2, <3>2, <3>6
    <3>4. 1 .. Len(fds) = {}
      BY <2>1
    <3>5. QED
      BY <3>2, <3>3, <3>4 DEF AllInOrder, PeersInOrder, PeerInOrder
  <2>2. CASE Len(fds) # 0
    <3>1. 1 \in 1 .. Len(fds) /\ fds[1] \in Socks
      BY <1>2, <2>2, FlowFacts
    <3>2. PICK s \in Socks : s = fds[1]
      BY <3>1
    <3>3. /\ Numbered(recv_buffer[1], s, Len(taken[s]))
          /\ Len(taken[s]) + Len(recv_buffer[1]) + Len(inbox[s]) = sent[s]
          /\ \A k \in 1 .. Len(taken[s]) : taken[s][k] = k
      <4>1. SlotInOrder(1) /\ Held(1) = recv_buffer[1]
        BY <1>2, <3>1 DEF AllInOrder, Held
      <4>2. QED
        BY <3>2, <4>1 DEF AllInOrder, PeersInOrder, SlotInOrder, PeerInOrder
    <3>11. FirstTaken(1, s, recv_buffer[1])
      <4>1. buffer \in Seq(Frame)
        BY DEF Typed, RoundTypes
      <4>2. QED
        BY <1>1, <1>2, <3>3, <4>1, HandlersInOrder
    <3>4. /\ taken' \in [Socks -> Seq(Nat)]
          /\ \A k \in 1 .. Len(taken'[s]) : taken'[s][k] = k
          /\ Numbered(recv_buffer'[1], s, Len(taken'[s]))
          /\ Len(taken'[s]) + Len(recv_buffer'[1]) = Len(taken[s]) + Len(recv_buffer[1])
          /\ \A t \in Socks : t # s => taken'[t] = taken[t]
          /\ \A e \in 1 .. Elements : e # 1 => recv_buffer'[e] = recv_buffer[e]
      BY <3>11 DEF FirstTaken
    <3>12. /\ HeldThen(1) = recv_buffer'[1]
           /\ \A j \in 1 .. Len(fds) : j # 1 =>
                HeldThen(j) = Held(j) /\ fds[j] # s /\ taken'[fds[j]] = taken[fds[j]]
           /\ \A d \in 1 .. Elements : Unused(d) => recv_buffer'[d] = <<>>
      <4>1. PICK b : b = recv_buffer[1]
        OBVIOUS
      <4>2. PICK i \in 1 .. Len(fds), e \in 1 .. Elements : i = 1 /\ e = 1
        BY <1>2, <3>1
      <4>3. UNCHANGED next /\ s = fds[i] /\ e = ElementAt(i) /\ FirstTaken(e, s, b)
        BY <1>1, <1>2, <3>2, <3>11, <4>1, <4>2
      <4>4. OthersKept(i, e, s)
        <5>1. Typed /\ AllInOrder /\ i \in 1 .. Len(fds) /\ e \in 1 .. Elements /\ s \in Socks
          OBVIOUS
        <5>2. QED
          BY ONLY <4>3, <5>1, OthersInOrder
      <4>5. QED
        BY <4>2, <4>4 DEF OthersKept
    <3>5. s \in With("open")
      BY <3>1, <3>2 DEF Typed, EachInOnePlace, RangeOf
    <3>6. Len(taken'[s]) + Len(recv_buffer'[1]) + Len(inbox[s]) = sent[s] /\ Len(taken'[s]) <= sent[s]
      <4>1. /\ Len(taken'[s]) \in Nat /\ Len(recv_buffer'[1]) \in Nat /\ Len(inbox[s]) \in Nat
            /\ sent[s] \in Nat
        <5>1. /\ taken'[s] \in Seq(Nat) /\ recv_buffer'[1] \in Seq(Frame)
              /\ inbox[s] \in Seq(Frame) /\ sent[s] \in Nat
          BY <1>2, <3>2 DEF Typed, ElementTypes, PeerTypes
        <5>2. QED
          BY <5>1
      <4>5. Len(taken[s]) \in Nat /\ Len(recv_buffer[1]) \in Nat
        BY <1>2, <3>2, FlowFacts
      <4>2. Len(taken[s]) + Len(recv_buffer[1]) + Len(inbox[s]) = sent[s]
        BY <3>3
      <4>3. Len(taken'[s]) + Len(recv_buffer'[1]) = Len(taken[s]) + Len(recv_buffer[1])
        BY <3>4
      <4>4. Len(taken'[s]) + Len(recv_buffer'[1]) + Len(inbox[s]) = sent[s]
        BY ONLY <4>1, <4>2, <4>3, <4>5
      <4>6. Len(taken'[s]) <= sent[s]
        BY ONLY <4>1, <4>4, FirstOfSum
      <4>7. QED
        BY <4>4, <4>6
    <3>7. ASSUME NEW t \in Socks
          PROVE  Len(taken'[t]) <= sent[t] /\ \A k \in 1 .. Len(taken'[t]) : taken'[t][k] = k
      <4>1. CASE t = s
        BY <3>4, <3>6, <4>1
      <4>2. CASE t # s
        BY <3>4, <4>2 DEF AllInOrder, PeersInOrder, PeerInOrder
      <4>3. QED
        BY <4>1, <4>2
    <3>8. ASSUME NEW i \in 1 .. Len(fds)
          PROVE  /\ Numbered(HeldThen(i), fds[i], Len(taken'[fds[i]]))
                 /\ Len(taken'[fds[i]]) + Len(HeldThen(i)) + Len(inbox[fds[i]]) = sent[fds[i]]
      <4>1. CASE i = 1
        BY <3>2, <3>4, <3>6, <3>12, <4>1
      <4>2. CASE i # 1
        <5>2. taken'[fds[i]] = taken[fds[i]] /\ HeldThen(i) = Held(i)
          BY <3>12, <4>2
        <5>3. SlotInOrder(i)
          BY DEF AllInOrder
        <5>4. QED
          BY <5>2, <5>3 DEF SlotInOrder
      <4>3. QED
        BY <4>1, <4>2
    <3>10. QED
      BY <3>4, <3>5, <3>7, <3>8, <3>12
  <2>3. QED
    BY <2>1, <2>2
<1>4. conn \in [Socks -> States]
  BY DEF Typed, EachInOnePlace
<1>5. CASE Stays
  <2>1. UNCHANGED <<conn, fds, inbox, sent>>
    BY <1>1, <1>5 DEF Stays
  <2>2. ASSUME NEW s \in Socks PROVE PeerInOrder(s)'
    <3>1. conn[s] \in {"away", "waiting"} => taken'[s] = taken[s]
      BY <1>3 DEF With
    <3>2. QED
      BY <1>3, <2>1, <3>1 DEF AllInOrder, PeersInOrder, PeerInOrder, Numbered
  <2>3. \A i \in 1 .. Len(fds) : SlotThen(i)
    BY <1>3, <2>1 DEF SlotThen
  <2>4. PeersInOrder'
    BY <2>2 DEF PeersInOrder
  <2>5. \A e \in 1 .. Elements :
          (\A i \in 1 .. Len(fds) : ElementAt(i) # e) => recv_buffer'[e] = <<>>
    BY <1>3 DEF Unused
  <2>6. QED
    BY <1>1, <2>1, <2>3, <2>4, <2>5, SlotsThen
<1>6. CASE AllAccepted
  <2>1. /\ UNCHANGED <<inbox, sent>> /\ fds' = fds \o backlog
        /\ conn' = [s \in Socks |-> IF conn[s] = "waiting" THEN "open" ELSE conn[s]]
    BY <1>1, <1>6 DEF AllAccepted
  <2>2. ASSUME NEW s \in Socks PROVE PeerInOrder(s)'
    <3>1. conn'[s] \in {"away", "waiting"} => conn[s] = "away" /\ taken'[s] = taken[s]
      BY <1>3, <1>4, <2>1 DEF With, States
    <3>2. QED
      BY <1>3, <2>1, <3>1 DEF AllInOrder, PeersInOrder, PeerInOrder, Numbered
  <2>3. /\ backlog \in Seq(Socks) /\ RangeOf(backlog) = With("waiting") /\ fds \in Seq(Socks)
    BY DEF Typed, EachInOnePlace
  <2>4. /\ Len(fds') = Len(fds) + Len(backlog) /\ Len(backlog) \in Nat
        /\ \A i \in 1 .. Len(fds) : fds'[i] = fds[i]
        /\ \A i \in Len(fds) + 1 .. Len(fds) + Len(backlog) : fds'[i] = backlog[i - Len(fds)]
    BY <2>1, <2>3, ConcatProperties
  <2>5. ASSUME NEW i \in 1 .. Len(fds') PROVE SlotThen(i)
    <3>1. CASE i <= Len(fds)
      <4>1. i \in 1 .. Len(fds)
        BY <1>2, <3>1
      <4>2. QED
        BY <1>3, <2>1, <2>4, <4>1 DEF SlotThen
    <3>2. CASE ~(i <= Len(fds))
      <4>1. i \in Len(fds) + 1 .. Len(fds) + Len(backlog) /\ i - Len(fds) \in 1 .. Len(backlog)
        BY <1>2, <2>4, <3>2
      <4>2. fds'[i] \in With("waiting")
        BY <2>3, <2>4, <4>1 DEF RangeOf
      <4>3. PICK s \in Socks : s = fds'[i] /\ conn[s] = "waiting" /\ s \notin With("open")
        BY <4>2 DEF With
      <4>4. taken'[s] = <<>> /\ Len(inbox[s]) = sent[s] /\ sent[s] \in Nat
        BY <1>3, <4>3, FlowFacts DEF AllInOrder, PeersInOrder, PeerInOrder
      <4>5. ASSUME ElementAt(i) # 0
            PROVE  ElementAt(i) \in 1 .. Elements /\ Unused(ElementAt(i))
        <5>1. i \in Nat \ {0} /\ \A j \in 1 .. Len(fds) : j # i /\ j \in Nat \ {0}
          BY <1>2, <4>1
        <5>2. ElementAt(i) \in 1 .. Elements
          BY <4>5, <5>1, Facts
        <5>3. \A j \in 1 .. Len(fds) : ElementAt(j) # ElementAt(i)
          BY <4>5, <5>1, Facts
        <5>4. QED
          BY <5>2, <5>3 DEF Unused
      <4>6. HeldThen(i) = <<>>
        BY <1>3, <4>5 DEF HeldThen
      <4>7. Len(<<>>) = 0 /\ 0 + 0 + sent[s] = sent[s]
        BY <4>4
      <4>8. /\ Numbered(HeldThen(i), s, Len(taken'[s]))
            /\ Len(taken'[s]) + Len(HeldThen(i)) + Len(inbox[s]) = sent[s]
        BY <4>4, <4>6, <4>7, NumberedNothing
      <4>9. QED
        BY <2>1, <4>3, <4>8 DEF SlotThen
    <3>3. QED
      BY <3>1, <3>2
  <2>8. PeersInOrder'
    BY <2>2 DEF PeersInOrder
  <2>6. \A e \in 1 .. Elements :
          (\A i \in 1 .. Len(fds') : ElementAt(i) # e) => recv_buffer'[e] = <<>>
    <3>1. \A i \in 1 .. Len(fds) : i \in 1 .. Len(fds')
      BY <1>2, <2>4
    <3>2. QED
      BY <1>3, <3>1 DEF Unused
  <2>7. QED
    BY <1>1, <2>5, <2>6, <2>8, SlotsThen
<1>7. QED
  BY <1>1, <1>5, <1>6

\* A client slot is read, its handlers run.
LEMMA InOrderServe ==
  ASSUME Typed, AllInOrder, VisitServe, ~mixed', Typed' PROVE AllInOrder'
<1>20. PICK e \in 1 .. Elements : e = ElementAt(at)
  BY ServeVisited
<1>1. /\ at \in 1 .. Len(fds) /\ Handlers(e, recv_buffer[e] \o Fresh, Buf)
      /\ inbox' = IF Reads THEN [inbox EXCEPT ![fds[at]] = <<>>] ELSE inbox
      /\ UNCHANGED <<conn, sent, fds, next>>
  BY <1>20, ServeVisited DEF VisitServe, slots
<1>2. Reads \/ Count = 0
  <2>1. Reads \/ ~(Count > 0)
    BY DEF VisitServe
  <2>2. Count \in Nat
    BY <1>1, SlotRead
  <2>3. QED
    BY <2>1, <2>2
<1>3. PICK s \in Socks : s = fds[at]
  BY <1>1, FlowFacts
<1>4. /\ e \in 1 .. Elements /\ recv_buffer[e] \in Seq(Frame) /\ Fresh \in Seq(Frame)
      /\ Buf \in Seq(Frame) /\ inbox[s] \in Seq(Frame) /\ sent[s] \in Nat
      /\ inbox \in [Socks -> Seq(Frame)]
      /\ Len(taken[s]) \in Nat /\ Len(recv_buffer[e]) \in Nat /\ Len(inbox[s]) \in Nat
  BY <1>1, <1>3, SlotRead, FlowFacts DEF Typed, PeerTypes
<1>5. /\ Numbered(recv_buffer[e], s, Len(taken[s]))
      /\ Len(taken[s]) + Len(recv_buffer[e]) + Len(inbox[s]) = sent[s]
      /\ Numbered(inbox[s], s, sent[s] - Len(inbox[s]))
      /\ \A k \in 1 .. Len(taken[s]) : taken[s][k] = k
  <2>1. SlotInOrder(at) /\ Held(at) = recv_buffer[e]
    BY <1>1, <1>20 DEF AllInOrder, PeersInOrder, Held
  <2>2. QED
    BY <1>3, <2>1 DEF AllInOrder, PeersInOrder, SlotInOrder, PeerInOrder
<1>6. sent[s] - Len(inbox[s]) = Len(taken[s]) + Len(recv_buffer[e])
  <2>1. Len(taken[s]) + Len(recv_buffer[e]) + Len(inbox[s]) = sent[s]
    BY <1>5
  <2>2. /\ taken \in [Socks -> Seq(Nat)] /\ recv_buffer \in [1 .. Elements -> Seq(Frame)]
        /\ sent \in [Socks -> Nat]
    BY DEF Typed, ElementTypes, PeerTypes
  <2>3. QED
    BY ONLY <1>4, <2>1, <2>2
<1>7. /\ Numbered(Fresh, s, Len(taken[s]) + Len(recv_buffer[e]))
      /\ Len(Fresh) + Len(inbox'[s]) = Len(inbox[s])
      /\ inbox'[s] = <<>> \/ inbox'[s] = inbox[s]
      /\ \A t \in Socks : t # s => inbox'[t] = inbox[t]
  <2>1. <<>> \in Seq(Frame) /\ Len(<<>>) = 0
    OBVIOUS
  <2>2. CASE Reads
    <3>1. Fresh = inbox[s]
      BY <1>1, <1>3, <2>2, SlotRead
    <3>2. inbox'[s] = <<>> /\ \A t \in Socks : t # s => inbox'[t] = inbox[t]
      BY <1>1, <1>3, <1>4, <2>1, <2>2
    <3>3. Len(inbox[s]) + 0 = Len(inbox[s])
      BY <1>4
    <3>4. QED
      BY <1>5, <1>6, <2>1, <3>1, <3>2, <3>3
  <2>3. CASE ~Reads
    <3>1. Fresh = <<>> /\ inbox' = inbox
      BY <1>1, <1>2, <2>3, SlotRead
    <3>2. 0 + Len(inbox[s]) = Len(inbox[s])
      BY <1>4
    <3>3. QED
      BY <2>1, <3>1, <3>2, NumberedNothing
  <2>4. QED
    BY <2>2, <2>3
<1>19. PICK bytes : bytes = recv_buffer[e] \o Fresh
  OBVIOUS
<1>8. /\ bytes \in Seq(Frame) /\ bytes = recv_buffer[e] \o Fresh
      /\ Len(bytes) = Len(recv_buffer[e]) + Len(Fresh)
      /\ Numbered(bytes, s, Len(taken[s]))
  BY <1>4, <1>5, <1>7, <1>19, NumberedConcat
<1>9. FirstTaken(e, s, bytes)
  <2>1. Handlers(e, bytes, Buf)
    BY <1>1, <1>8
  <2>2. QED
    BY <1>1, <1>3, <1>4, <1>5, <1>8, <2>1, HandlersInOrder
<1>10. /\ \A k \in 1 .. Len(taken'[s]) : taken'[s][k] = k
       /\ Numbered(recv_buffer'[e], s, Len(taken'[s]))
       /\ Len(taken'[s]) + Len(recv_buffer'[e]) = Len(taken[s]) + Len(bytes)
       /\ \A t \in Socks : t # s => taken'[t] = taken[t]
  BY <1>9 DEF FirstTaken
<1>21. /\ HeldThen(at) = recv_buffer'[e]
       /\ \A j \in 1 .. Len(fds) : j # at =>
            HeldThen(j) = Held(j) /\ fds[j] # s /\ taken'[fds[j]] = taken[fds[j]]
       /\ \A d \in 1 .. Elements : Unused(d) => recv_buffer'[d] = <<>>
  <2>1. OthersKept(at, e, s)
    BY <1>1, <1>3, <1>9, <1>20, OthersInOrder
  <2>2. QED
    BY <2>1 DEF OthersKept
<1>11. /\ Len(taken'[s]) \in Nat /\ Len(recv_buffer'[e]) \in Nat /\ Len(inbox'[s]) \in Nat
       /\ Len(Fresh) \in Nat
  <2>1. /\ taken'[s] \in Seq(Nat) /\ recv_buffer'[e] \in Seq(Frame) /\ inbox'[s] \in Seq(Frame)
    BY <1>4 DEF Typed, ElementTypes, PeerTypes
  <2>2. QED
    BY <1>4, <2>1
<1>12. Len(taken'[s]) + Len(recv_buffer'[e]) + Len(inbox'[s]) = sent[s]
  <2>1. Len(bytes) = Len(recv_buffer[e]) + Len(Fresh)
    BY <1>8
  <2>2. Len(Fresh) + Len(inbox'[s]) = Len(inbox[s])
    BY <1>7
  <2>3. Len(taken'[s]) + Len(recv_buffer'[e]) = Len(taken[s]) + Len(bytes)
    BY <1>10
  <2>4. Len(taken[s]) + Len(recv_buffer[e]) + Len(inbox[s]) = sent[s]
    BY <1>5
  <2>5. /\ taken \in [Socks -> Seq(Nat)] /\ recv_buffer \in [1 .. Elements -> Seq(Frame)]
        /\ inbox \in [Socks -> Seq(Frame)] /\ sent \in [Socks -> Nat]
        /\ taken' \in [Socks -> Seq(Nat)] /\ recv_buffer' \in [1 .. Elements -> Seq(Frame)]
        /\ inbox' \in [Socks -> Seq(Frame)]
    BY DEF Typed, ElementTypes, PeerTypes
  <2>6. e \in 1 .. Elements /\ Fresh \in Seq(Frame) /\ bytes \in Seq(Frame)
    BY <1>4, <1>8
  <2>7. Len(taken'[s]) + Len(recv_buffer'[e])
          = Len(taken[s]) + (Len(recv_buffer[e]) + Len(Fresh))
    BY ONLY <2>1, <2>3
  <2>8. Len(taken[s]) + Len(recv_buffer[e]) + (Len(Fresh) + Len(inbox'[s])) = sent[s]
    BY ONLY <2>2, <2>4
  <2>9. QED
    <3>1. /\ Len(taken[s]) \in Nat /\ Len(recv_buffer[e]) \in Nat /\ Len(Fresh) \in Nat
          /\ Len(inbox'[s]) \in Nat /\ Len(taken'[s]) \in Nat /\ Len(recv_buffer'[e]) \in Nat
          /\ sent[s] \in Nat
      BY <1>4, <1>11
    <3>2. PICK a \in Nat, b \in Nat, f \in Nat, w \in Nat, a2 \in Nat, b2 \in Nat, n \in Nat :
            /\ a = Len(taken[s]) /\ b = Len(recv_buffer[e]) /\ f = Len(Fresh)
            /\ w = Len(inbox'[s]) /\ a2 = Len(taken'[s]) /\ b2 = Len(recv_buffer'[e])
            /\ n = sent[s]
      BY <3>1
    <3>3. a2 + b2 = a + (b + f) /\ a + b + (f + w) = n
      BY <2>7, <2>8, <3>2
    <3>4. a2 + b2 + w = n
      BY ONLY <3>3, SumKept
    <3>5. QED
      BY <3>2, <3>4
<1>13. Len(taken'[s]) <= sent[s]
  BY ONLY <1>11, <1>12, FirstOfSum
<1>14. conn[s] = "open"
  BY <1>1, <1>3 DEF Typed, EachInOnePlace, RangeOf, With
<1>15. ASSUME NEW t \in Socks PROVE PeerInOrder(t)'
  <2>1. PeerInOrder(t)
    BY DEF AllInOrder, PeersInOrder
  <2>2. CASE t # s
    BY <1>1, <1>7, <1>10, <2>1, <2>2 DEF PeerInOrder, Numbered
  <2>3. CASE t = s
    <3>1. Len(inbox'[s]) <= sent[s] /\ Numbered(inbox'[s], s, sent[s] - Len(inbox'[s]))
      <4>1. CASE inbox'[s] = inbox[s]
        BY <2>1, <2>3, <4>1 DEF PeerInOrder
      <4>2. CASE inbox'[s] = <<>>
        <5>1. Len(<<>>) = 0 /\ 0 <= sent[s]
          BY <1>4
        <5>2. QED
          BY <4>2, <5>1, NumberedNothing
      <4>3. QED
        BY <1>7, <4>1, <4>2
    <3>2. Numbered(inbox[s], s, sent[s] - Len(inbox[s]))' \* the same, primed
      BY <1>1, <3>1 DEF Numbered
    <3>3. QED
      BY <1>1, <1>10, <1>13, <1>14, <2>3, <3>1, <3>2 DEF PeerInOrder
  <2>4. QED
    BY <2>2, <2>3
<1>16. ASSUME NEW i \in 1 .. Len(fds) PROVE SlotThen(i)
  <2>1. CASE i = at
    BY <1>1, <1>3, <1>10, <1>12, <1>21, <2>1 DEF SlotThen
  <2>2. CASE i # at
    <3>1. fds[i] \in Socks /\ fds[i] # s
      BY <1>21, <2>2, FlowFacts
    <3>2. /\ taken'[fds[i]] = taken[fds[i]] /\ HeldThen(i) = Held(i)
          /\ inbox'[fds[i]] = inbox[fds[i]]
      BY <1>7, <1>21, <2>2, <3>1
    <3>3. SlotInOrder(i)
      BY DEF AllInOrder, PeersInOrder
    <3>4. QED
      BY <1>1, <3>2, <3>3 DEF SlotInOrder, SlotThen
  <2>3. QED
    BY <2>1, <2>2
<1>17. PeersInOrder'
  BY <1>15 DEF PeersInOrder
<1>22. \A d \in 1 .. Elements :
         (\A i \in 1 .. Len(fds') : ElementAt(i) # d) => recv_buffer'[d] = <<>>
  BY <1>1, <1>21 DEF Unused
<1>18. QED
  BY <1>1, <1>16, <1>17, <1>22, SlotsThen

\* A slot is closed; with more to come for a client behind it, that is noted.
LEMMA NothingBehind ==
  ASSUME Typed, VisitClose, ~mixed', NEW i \in at + 1 .. Len(fds), ElementAt(i) # 0
  PROVE  /\ recv_buffer[ElementAt(i)] = <<>> /\ send_buffer[ElementAt(i)] = <<>>
         /\ \A r \in pending : r.element # ElementAt(i)
<1>1. ~HasUnderWay(i)
  BY DEF VisitClose
<1>2. QED
  BY <1>1 DEF HasUnderWay

LEMMA InOrderClose ==
  ASSUME Typed, AllInOrder, VisitClose, ~mixed', Typed' PROVE AllInOrder'
<1>20. PICK e \in 1 .. Elements : e = ElementAt(at)
  BY CloseVisited
<1>1. /\ SlotCloses /\ at \in 1 .. Len(fds)
      /\ recv_buffer' = [recv_buffer EXCEPT ![e] = <<>>]
      /\ inbox' = [inbox EXCEPT ![fds[at]] = <<>>]
      /\ UNCHANGED <<sent, taken>>
      /\ \A i \in 0 .. at : (ElementAt(i))' = ElementAt(i)
      /\ \A i \in Nat : i > at => \E j \in Nat : j > at /\ (ElementAt(i))' = ElementAt(j)
  BY <1>20, CloseVisited DEF VisitClose, requests
<1>2. PICK s \in Socks : s = fds[at]
  BY <1>1, FlowFacts
<1>3. Len(fds) \in Nat /\ at \in Nat \ {0} /\ at <= Len(fds)
  BY <1>1, Facts
<1>5. /\ recv_buffer \in [1 .. Elements -> Seq(Frame)] /\ inbox \in [Socks -> Seq(Frame)]
      /\ conn \in [Socks -> States] /\ fds \in Seq(Socks)
  BY DEF Typed, EachInOnePlace, ElementTypes, PeerTypes
<1>6. /\ Len(fds') = Len(fds) - 1
      /\ \A k \in 1 .. Len(fds) - 1 : fds'[k] = IF k = at THEN fds[Len(fds)] ELSE fds[k]
  <2>1. fds' = LastMoved(fds, at)
    BY <1>1 DEF SlotCloses, Without, LastMoved
  <2>2. /\ Len(LastMoved(fds, at)) = Len(fds) - 1
        /\ \A k \in 1 .. Len(fds) - 1 :
             LastMoved(fds, at)[k] = IF k = at THEN fds[Len(fds)] ELSE fds[k]
    BY <1>1, <1>5, LastMovesIn
  <2>3. QED
    BY <2>1, <2>2
<1>7. /\ recv_buffer'[e] = <<>> /\ inbox'[s] = <<>>
      /\ \A d \in 1 .. Elements : d # e => recv_buffer'[d] = recv_buffer[d]
      /\ \A t \in Socks : t # s => inbox'[t] = inbox[t]
  BY <1>1, <1>2, <1>5
<1>8. conn'[s] = "closed" /\ \A t \in Socks : t # s => conn'[t] = conn[t]
  BY <1>1, <1>2, <1>5 DEF SlotCloses
<1>9. ASSUME NEW t \in Socks PROVE PeerInOrder(t)'
  <2>1. PeerInOrder(t)
    BY DEF AllInOrder, PeersInOrder
  <2>2. CASE t # s
    BY <1>1, <1>7, <1>8, <2>1, <2>2 DEF PeerInOrder, Numbered
  <2>3. CASE t = s
    <3>1. Len(<<>>) = 0 /\ sent[s] \in Nat
      BY FlowFacts
    <3>2. 0 <= sent[s]
      BY <3>1
    <3>3. QED
      BY <1>1, <1>7, <1>8, <2>1, <2>3, <3>1, <3>2 DEF PeerInOrder, Numbered
  <2>4. QED
    BY <2>2, <2>3
<1>10. ASSUME NEW j \in Nat, j > at, ElementAt(j) # 0
       PROVE  recv_buffer'[ElementAt(j)] = <<>> /\ recv_buffer[ElementAt(j)] = <<>>
  <2>1. ElementAt(j) \in 1 .. Elements /\ j # at /\ j \in Nat \ {0}
    BY <1>3, <1>10, Facts
  <2>2. ElementAt(j) # e
    BY <1>3, <1>10, <1>20, <2>1, Facts
  <2>3. recv_buffer[ElementAt(j)] = <<>>
    <3>1. CASE j <= Len(fds)
      <4>1. j \in at + 1 .. Len(fds)
        BY <1>3, <1>10, <3>1
      <4>2. QED
        BY <1>10, <4>1, NothingBehind
    <3>2. CASE ~(j <= Len(fds))
      <4>1. \A i \in 1 .. Len(fds) : i \in Nat \ {0} /\ i # j
        BY <1>3, <3>2
      <4>2. \A i \in 1 .. Len(fds) : ElementAt(i) # ElementAt(j)
        BY <1>10, <2>1, <4>1, Facts
      <4>3. QED
        BY <2>1, <4>2 DEF AllInOrder, PeersInOrder, Unused
    <3>3. QED
      BY <3>1, <3>2
  <2>4. QED
    BY <1>7, <2>1, <2>2, <2>3
<1>11. \A i \in 1 .. Len(fds') : i \in 1 .. Len(fds) - 1 /\ i \in 1 .. Len(fds) /\ i \in Nat \ {0}
  BY <1>3, <1>6
<1>12. ASSUME NEW i \in 1 .. Len(fds'), i < at
       PROVE  /\ (ElementAt(i))' = ElementAt(i) /\ ElementAt(i) # e
              /\ fds'[i] = fds[i] /\ fds[i] \in Socks /\ fds[i] # s
  <2>1. i \in 0 .. at /\ i # at
    BY <1>3, <1>11, <1>12
  <2>2. ElementAt(i) # e
    BY <1>3, <1>11, <1>20, <2>1, Facts
  <2>3. fds'[i] = fds[i] /\ fds[i] \in Socks /\ fds[i] # s
    BY <1>1, <1>2, <1>6, <1>11, <2>1, FlowFacts
  <2>4. QED
    BY <1>1, <2>1, <2>2, <2>3
<1>13. ASSUME NEW i \in 1 .. Len(fds'), ~(i < at) PROVE (Held(i))' = <<>>
  <2>1. CASE i = at
    <3>1. (ElementAt(i))' = e
      BY <1>1, <1>3, <1>20, <2>1
    <3>2. QED
      BY <1>7, <3>1 DEF Held
  <2>2. CASE i # at
    <3>1. i > at /\ i \in Nat
      BY <1>3, <1>11, <1>13, <2>2
    <3>2. PICK j \in Nat : j > at /\ (ElementAt(i))' = ElementAt(j)
      BY <1>1, <3>1
    <3>3. ElementAt(j) # 0 => recv_buffer'[ElementAt(j)] = <<>>
      BY <1>10, <3>2
    <3>4. QED
      BY <3>2, <3>3 DEF Held
  <2>3. QED
    BY <2>1, <2>2
<1>14. ASSUME NEW i \in 1 .. Len(fds') PROVE SlotInOrder(i)'
  <2>1. CASE i < at
    <3>1. (Held(i))' = Held(i)
      <4>1. ElementAt(i) # 0 => ElementAt(i) \in 1 .. Elements
        BY <1>11, Facts
      <4>2. ElementAt(i) # 0 => recv_buffer'[ElementAt(i)] = recv_buffer[ElementAt(i)]
        BY <1>7, <1>12, <2>1, <4>1
      <4>3. QED
        BY <1>12, <2>1, <4>2 DEF Held
    <3>2. inbox'[fds[i]] = inbox[fds[i]] /\ fds'[i] = fds[i]
      BY <1>7, <1>12, <2>1
    <3>3. SlotInOrder(i)
      BY <1>11 DEF AllInOrder, PeersInOrder
    <3>4. QED
      BY <1>1, <3>1, <3>2, <3>3 DEF SlotInOrder, Numbered
  <2>2. CASE ~(i < at)
    <3>1. PICK j \in 1 .. Len(fds) : fds'[i] = fds[j] /\ j > at
      <4>1. CASE i = at
        <5>1. Len(fds) \in 1 .. Len(fds) /\ fds'[i] = fds[Len(fds)] /\ Len(fds) > at
          BY <1>3, <1>6, <1>11, <4>1
        <5>2. QED
          BY <5>1
      <4>2. CASE i # at
        <5>1. fds'[i] = fds[i] /\ i > at
          BY <1>3, <1>6, <1>11, <2>2, <4>2
        <5>2. QED
          BY <1>11, <5>1
      <4>3. QED
        BY <4>1, <4>2
    <3>2. PICK t \in Socks : t = fds[j] /\ t # s
      <4>1. j # at
        BY <1>3, <3>1
      <4>2. fds[j] \in Socks /\ fds[j] # s
        BY <1>1, <1>2, <4>1, FlowFacts
      <4>3. QED
        BY <4>2
    <3>3. Held(j) = <<>>
      <4>1. j \in Nat
        OBVIOUS
      <4>2. QED
        BY <1>10, <3>1, <4>1 DEF Held
    <3>4. SlotInOrder(j)
      BY DEF AllInOrder, PeersInOrder
    <3>5. (Held(i))' = <<>> /\ inbox'[t] = inbox[t]
      BY <1>7, <1>13, <2>2, <3>2
    <3>6. QED
      BY <1>1, <3>1, <3>2, <3>3, <3>4, <3>5 DEF SlotInOrder, Numbered
  <2>3. QED
    BY <2>1, <2>2
<1>15. ASSUME NEW d \in 1 .. Elements, Unused(d)' PROVE recv_buffer'[d] = <<>>
  <2>1. \A i \in 1 .. Len(fds') : (ElementAt(i))' # d
    BY <1>15 DEF Unused
  <2>2. CASE d = e
    BY <1>7, <2>2
  <2>3. CASE d # e /\ \E j \in 1 .. Len(fds) : ElementAt(j) = d
    <3>1. PICK j \in 1 .. Len(fds) : ElementAt(j) = d
      BY <2>3
    <3>2. ~(j < at)
      <4>1. ASSUME j < at PROVE FALSE
        <5>1. j \in 1 .. Len(fds')
          BY <1>3, <1>6, <4>1
        <5>2. (ElementAt(j))' = ElementAt(j)
          BY <1>12, <4>1, <5>1
        <5>3. QED
          BY <2>1, <3>1, <5>1, <5>2
      <4>2. QED
        BY <4>1
    <3>3. j > at /\ j \in Nat /\ ElementAt(j) # 0
      BY <1>3, <1>20, <2>3, <3>1, <3>2
    <3>4. QED
      BY <1>10, <3>1, <3>3
  <2>4. CASE d # e /\ ~(\E j \in 1 .. Len(fds) : ElementAt(j) = d)
    BY <1>7, <2>4 DEF AllInOrder, PeersInOrder, Unused
  <2>5. QED
    BY <2>2, <2>3, <2>4
<1>16. PeersInOrder'
  BY <1>9 DEF PeersInOrder
<1>17. QED
  BY <1>14, <1>15, <1>16 DEF AllInOrder, PeersInOrder

\* After a restart nothing is on its way, and no connection is open.
LEMMA InOrderCrash ==
  ASSUME Typed, AllInOrder, VisitCrash PROVE AllInOrder'
<1>1. /\ fds' = <<>> /\ inbox' = [s \in Socks |-> <<>>] /\ recv_buffer' = NoBytes
      /\ conn' = [s \in Socks |-> IF s \in Present THEN "closed" ELSE conn[s]]
      /\ UNCHANGED <<sent, taken>>
  BY DEF VisitCrash
<1>2. ASSUME NEW s \in Socks PROVE PeerInOrder(s)'
  <2>1. PeerInOrder(s) /\ sent[s] \in Nat /\ inbox'[s] = <<>> /\ Len(<<>>) = 0
    BY <1>1, FlowFacts DEF AllInOrder, PeersInOrder
  <2>2. conn'[s] # "waiting" /\ (conn'[s] = "away" => conn[s] = "away")
    BY <1>1 DEF Present
  <2>3. QED
    BY <1>1, <2>1, <2>2 DEF PeerInOrder, Numbered
<1>3. Len(fds') = 0
  BY <1>1
<1>4. 1 .. Len(fds') = {}
  BY <1>3
<1>5. \A e \in 1 .. Elements : recv_buffer'[e] = <<>>
  BY <1>1 DEF NoBytes
<1>6. PeersInOrder'
  BY <1>2 DEF PeersInOrder
<1>7. QED
  BY <1>4, <1>5, <1>6 DEF AllInOrder, PeersInOrder

\* What the slots hold is not touched.
LEMMA HeldStays ==
  ASSUME AllInOrder, PeersInOrder', UNCHANGED <<fds, next, inbox, sent, recv_buffer, taken>>
  PROVE  AllInOrder'
<1>2. \A i \in 1 .. Len(fds) : SlotThen(i)
  BY DEF AllInOrder, PeersInOrder, SlotInOrder, SlotThen, Held, HeldThen
<1>3. \A e \in 1 .. Elements :
        (\A i \in 1 .. Len(fds) : ElementAt(i) # e) => recv_buffer'[e] = <<>>
  BY DEF AllInOrder, PeersInOrder, Unused
<1>4. QED
  BY <1>2, <1>3, SlotsThen

\* One more connection waits for the listener.
LEMMA InOrderConnect ==
  ASSUME Typed, AllInOrder, NEW s \in Socks, Connect(s) PROVE AllInOrder'
<1>1. /\ conn[s] = "away" /\ conn' = [conn EXCEPT ![s] = "waiting"]
      /\ UNCHANGED <<fds, next, inbox, sent, recv_buffer, taken>>
  BY DEF Connect, slots, elements, requests
<1>2. conn \in [Socks -> States]
  BY DEF Typed, EachInOnePlace
<1>3. ASSUME NEW t \in Socks PROVE PeerInOrder(t)'
  <2>1. PeerInOrder(t)
    BY DEF AllInOrder, PeersInOrder
  <2>2. /\ conn'[t] \in {"away", "waiting"} => conn[t] \in {"away", "waiting"}
        /\ conn'[t] = "away" => conn[t] = "away"
    BY <1>1, <1>2
  <2>3. QED
    BY <1>1, <2>1, <2>2 DEF PeerInOrder, Numbered
<1>4. PeersInOrder'
  BY <1>3 DEF PeersInOrder
<1>5. QED
  BY <1>1, <1>4, HeldStays

\* A peer sends its next frame.
LEMMA InOrderSends ==
  ASSUME Typed, AllInOrder, NEW s \in Socks, PeerSends(s) PROVE AllInOrder'
<1>1. /\ sent' = [sent EXCEPT ![s] = sent[s] + 1]
      /\ inbox' = [inbox EXCEPT ![s] = Append(inbox[s], [from |-> s, n |-> sent[s] + 1])]
      /\ UNCHANGED <<conn, fds, next, recv_buffer, taken>>
  BY DEF PeerSends, slots, elements, requests
<1>2. /\ sent \in [Socks -> Nat] /\ inbox \in [Socks -> Seq(Frame)]
      /\ sent[s] \in Nat /\ inbox[s] \in Seq(Frame) /\ Len(inbox[s]) \in Nat
      /\ Len(taken[s]) \in Nat
  BY FlowFacts DEF Typed, PeerTypes
<1>3. /\ sent'[s] = sent[s] + 1
      /\ inbox'[s] = Append(inbox[s], [from |-> s, n |-> sent[s] + 1])
      /\ \A t \in Socks : t # s => sent'[t] = sent[t] /\ inbox'[t] = inbox[t]
  BY <1>1, <1>2
<1>4. PeerInOrder(s)
  BY DEF AllInOrder, PeersInOrder
<1>5. sent[s] - Len(inbox[s]) \in Nat /\ (sent[s] - Len(inbox[s])) + Len(inbox[s]) + 1 = sent[s] + 1
  <2>1. Len(inbox[s]) <= sent[s]
    BY <1>4 DEF PeerInOrder
  <2>2. QED
    BY ONLY <1>2, <2>1
<1>6. [from |-> s, n |-> sent[s] + 1] \in Frame
  BY <1>2 DEF Frame
<1>7. Len(inbox'[s]) = Len(inbox[s]) + 1 /\ Numbered(inbox'[s], s, sent[s] - Len(inbox[s]))
  <2>1. [from |-> s, n |-> sent[s] + 1]
           = [from |-> s, n |-> (sent[s] - Len(inbox[s])) + Len(inbox[s]) + 1]
    BY <1>5
  <2>2. Numbered(inbox[s], s, sent[s] - Len(inbox[s]))
    BY <1>4 DEF PeerInOrder
  <2>3. QED
    BY <1>2, <1>3, <1>5, <1>6, <2>1, <2>2, NumberedAppend
<1>8. sent'[s] - Len(inbox'[s]) = sent[s] - Len(inbox[s])
  BY ONLY <1>2, <1>3, <1>7
<1>9. ASSUME NEW t \in Socks PROVE PeerInOrder(t)'
  <2>1. PeerInOrder(t)
    BY DEF AllInOrder, PeersInOrder
  <2>2. CASE t # s
    BY <1>1, <1>3, <2>1, <2>2 DEF PeerInOrder, Numbered
  <2>3. CASE t = s
    <3>1. Len(taken[s]) <= sent[s] /\ Len(inbox[s]) <= sent[s]
      BY <1>4 DEF PeerInOrder
    <3>2. Len(taken[s]) <= sent'[s] /\ Len(inbox'[s]) <= sent'[s]
      BY ONLY <1>2, <1>3, <1>7, <3>1
    <3>3. Len(inbox[s]) = sent[s] => Len(inbox'[s]) = sent'[s]
      BY <1>3, <1>7
    <3>4. /\ \A k \in 1 .. Len(taken[s]) : taken[s][k] = k
          /\ conn[s] \in {"away", "waiting"} => taken[s] = <<>> /\ Len(inbox[s]) = sent[s]
          /\ conn[s] # "away"
      BY <1>4 DEF PeerInOrder, PeerSends, Present
    <3>5. Numbered(inbox'[s], s, sent'[s] - Len(inbox'[s]))
      BY <1>7, <1>8
    <3>6. QED
      BY <1>1, <2>3, <3>2, <3>3, <3>4, <3>5 DEF PeerInOrder, Numbered
  <2>4. QED
    BY <2>2, <2>3
<1>10. ASSUME NEW i \in 1 .. Len(fds) PROVE SlotThen(i)
  <2>1. SlotInOrder(i) /\ fds[i] \in Socks /\ HeldThen(i) = Held(i)
    BY <1>1, FlowFacts DEF AllInOrder, PeersInOrder, Held, HeldThen
  <2>2. CASE fds[i] # s
    BY <1>1, <1>3, <2>1, <2>2 DEF SlotInOrder, SlotThen
  <2>3. CASE fds[i] = s
    <3>1. /\ Numbered(Held(i), s, Len(taken[s]))
          /\ Len(taken[s]) + Len(Held(i)) + Len(inbox[s]) = sent[s]
      BY <2>1, <2>3 DEF SlotInOrder
    <3>2. Len(Held(i)) \in Nat
      BY <2>1, FlowFacts
    <3>3. Len(taken[s]) + Len(Held(i)) + Len(inbox'[s]) = sent'[s]
      <4>1. PICK a \in Nat, b \in Nat, c \in Nat, n \in Nat :
              a = Len(taken[s]) /\ b = Len(Held(i)) /\ c = Len(inbox[s]) /\ n = sent[s]
        BY <1>2, <3>2
      <4>2. a + b + c = n
        BY <3>1, <4>1
      <4>3. a + b + (c + 1) = n + 1
        BY ONLY <4>2
      <4>4. QED
        BY <1>3, <1>7, <4>1, <4>3
    <3>4. QED
      BY <1>1, <1>3, <2>1, <2>3, <3>1, <3>3 DEF SlotThen
  <2>4. QED
    BY <2>2, <2>3
<1>11. PeersInOrder'
  BY <1>9 DEF PeersInOrder
<1>12. \A e \in 1 .. Elements :
         (\A i \in 1 .. Len(fds') : ElementAt(i) # e) => recv_buffer'[e] = <<>>
  BY <1>1 DEF AllInOrder, PeersInOrder, Unused
<1>13. QED
  BY <1>1, <1>10, <1>11, <1>12, SlotsThen

\* Bytes that came to another element are never sorted out again.
LEMMA MixedStays == Typed /\ [Next]_vars /\ ~mixed' => ~mixed
BY DEF Next, Server, Requests, Peers, StartRound, VisitListener, VisitServe, VisitClose, VisitCrash,
       RequestFails, RequestAnswers, Connect, PeerSends, PeerCloses, vars, history

LEMMA InOrderStep ==
  ASSUME Typed, Typed', AllInOrder, [Next]_vars, ~mixed' PROVE AllInOrder'
<1>1. CASE StartRound
  BY <1>1, InOrderUntouched DEF StartRound, peers, slots, elements, requests
<1>2. CASE VisitListener
  BY <1>2, InOrderListener
<1>3. CASE VisitServe
  BY <1>3, InOrderServe
<1>4. CASE VisitClose
  BY <1>4, InOrderClose
<1>9. CASE VisitCrash
  BY <1>9, InOrderCrash
<1>5. CASE Requests
  BY <1>5, InOrderUntouched
     DEF Requests, RequestFails, RequestAnswers, peers, slots, elements
<1>6. CASE Peers
  <2>1. PICK s \in Socks : Connect(s) \/ PeerSends(s) \/ PeerCloses(s)
    BY <1>6 DEF Peers
  <2>2. CASE Connect(s)
    BY <2>2, InOrderConnect
  <2>3. CASE PeerSends(s)
    BY <2>3, InOrderSends
  <2>4. CASE PeerCloses(s)
    BY <2>4, InOrderUntouched DEF PeerCloses, slots, elements, requests
  <2>5. QED
    BY <2>1, <2>2, <2>3, <2>4
<1>7. CASE UNCHANGED vars
  BY <1>7, InOrderUntouched DEF vars, peers, slots, elements, requests
<1>8. QED
  BY <1>1, <1>2, <1>3, <1>4, <1>5, <1>6, <1>7, <1>9 DEF Next, Server

\* Typed, and every frame is where it belongs until bytes are mixed up.
InOrder == Typed /\ (~mixed => AllInOrder)

LEMMA InOrderKept == Spec => []InOrder
<1>1. Init => InOrder
  BY TypedInit, InOrderInit DEF InOrder
<1>2. InOrder /\ [Next]_vars => InOrder'
  <2> SUFFICES ASSUME InOrder, [Next]_vars PROVE InOrder'
    OBVIOUS
  <2>1. Typed /\ Typed'
    BY TypedStep DEF InOrder
  <2>2. ASSUME ~mixed' PROVE AllInOrder'
    BY <2>1, <2>2, MixedStays, InOrderStep DEF InOrder
  <2>3. QED
    BY <2>1, <2>2 DEF InOrder
<1>3. QED
  BY <1>1, <1>2, PTL DEF Spec

\* The service makes one request of each frame of a client, in the order sent, for any
\* number of connections and frames, until bytes are mixed up (wifi.c).
THEOREM FramesTakenInOrder == Spec => []OnceInOrder
<1>1. InOrder => OnceInOrder
  <2> SUFFICES ASSUME InOrder, ~mixed, NEW s \in Socks
               PROVE  Len(taken[s]) <= sent[s] /\ \A k \in DOMAIN taken[s] : taken[s][k] = k
    BY DEF OnceInOrder
  <2>1. PeerInOrder(s) /\ taken[s] \in Seq(Nat)
    BY FlowFacts DEF InOrder, AllInOrder, PeersInOrder
  <2>2. DOMAIN taken[s] = 1 .. Len(taken[s])
    BY <2>1
  <2>3. QED
    BY <2>1, <2>2 DEF PeerInOrder
<1>2. QED
  BY <1>1, InOrderKept, PTL

-----------------------------------------------------------------------------
(* Sockets that are read                                                   *)

\* Slot i is ready with bytes, or because its peer closed.
ReadyFor(i) == inbox[fds[i]] # <<>> \/ fin[fds[i]]

\* What select found stays true of the slots the round has not visited.
ReadyRight ==
  at # Idle =>
       /\ \A i \in 1 .. Len(fds) : i >= at /\ fds[i] \in readable => ReadyFor(i)
       /\ \A s \in Socks : s \in readable => conn[s] \in {"open", "closed"}

LEMMA ReadyInit == Init => ReadyRight
BY DEF Init, ReadyRight

\* A slot is closed when its peer closed: recv returned nothing, or the send failed.
LEMMA ClosedByPeer ==
  ASSUME Typed, ReadyRight, VisitClose
  PROVE  at \in 1 .. Len(fds) /\ fds[at] \in Socks /\ fin[fds[at]]
<1>1. at \in 1 .. Len(fds) /\ TRUE \in Closed
  BY DEF VisitClose
<1>2. fds[at] \in Socks
  BY <1>1 DEF Typed, EachInOnePlace
<1>3. CASE Sends
  <2>1. ASSUME ~fin[fds[at]] PROVE FALSE
    BY <1>1, <1>3, <2>1, Zenon DEF Closed
  <2>2. QED
    BY <1>1, <1>2, <2>1
<1>4. CASE ~Sends
  <2>1. Gone
    BY <1>1, <1>4, Zenon DEF Closed
  <2>2. fds[at] \in readable /\ inbox[fds[at]] = <<>>
    BY <2>1 DEF Gone, Reads
  <2>3. at # Idle /\ at >= at
    BY <1>1 DEF Idle
  <2>4. ReadyFor(at)
    BY <1>1, <2>2, <2>3 DEF ReadyRight
  <2>5. fin[fds[at]]
    BY <2>2, <2>4 DEF ReadyFor
  <2>6. QED
    BY <1>1, <1>2, <2>5
<1>5. QED
  BY <1>1, <1>2, <1>3, <1>4

\* The round goes on behind the slot it visited.
LEMMA Advanced ==
  ASSUME at \in Nat, NEW list, Advance(list), at' # Idle PROVE at' = at + 1
BY DEF Advance

LEMMA ReadyStep ==
  ASSUME Typed, Typed', ReadyRight, [Next]_vars PROVE ReadyRight'
<1>1. /\ Len(fds) \in Nat /\ fds \in Seq(Socks) /\ NoRepeats(fds) /\ RangeOf(fds) = With("open")
      /\ conn \in [Socks -> States] /\ fin \in [Socks -> BOOLEAN] /\ inbox \in [Socks -> Seq(Frame)]
      /\ \A i \in 1 .. Len(fds) : fds[i] \in Socks /\ fds[i] \in RangeOf(fds)
      /\ \A i, j \in 1 .. Len(fds) : fds[i] = fds[j] => i = j
      /\ backlog \in Seq(Socks) /\ RangeOf(backlog) = With("waiting")
  <2>1. /\ fds \in Seq(Socks) /\ NoRepeats(fds) /\ RangeOf(fds) = With("open")
        /\ conn \in [Socks -> States]
        /\ backlog \in Seq(Socks) /\ RangeOf(backlog) = With("waiting")
    BY DEF Typed, EachInOnePlace
  <2>2. fin \in [Socks -> BOOLEAN] /\ inbox \in [Socks -> Seq(Frame)]
    BY DEF Typed, PeerTypes, FlagTypes
  <2>3. Len(fds) \in Nat /\ DOMAIN fds = 1 .. Len(fds)
    BY <2>1
  <2>4. /\ \A i \in 1 .. Len(fds) : fds[i] \in Socks /\ fds[i] \in RangeOf(fds)
        /\ \A i, j \in 1 .. Len(fds) : fds[i] = fds[j] => i = j
    BY <2>1, <2>3 DEF NoRepeats, RangeOf
  <2>5. QED
    BY <2>1, <2>2, <2>3, <2>4
<1>2. CASE StartRound
  <2>1. /\ at' = 0 /\ UNCHANGED <<conn, inbox, fin, fds>>
        /\ \A s \in Socks : s \in readable' => s \in RangeOf(fds) /\ (inbox[s] # <<>> \/ fin[s])
    BY <1>2, TcpServerAssumption DEF StartRound, peers, slots
  <2>2. \A s \in Socks : s \in readable' => conn'[s] \in {"open", "closed"}
    BY <1>1, <2>1 DEF With
  <2>3. \A i \in 1 .. Len(fds') : fds'[i] \in readable' => ReadyFor(i)'
    BY <1>1, <2>1 DEF ReadyFor
  <2>4. QED
    BY <2>1, <2>2, <2>3 DEF ReadyRight
<1>3. CASE VisitListener
  <2>1. /\ at = 0 /\ Advance(fds') /\ UNCHANGED <<inbox, fin, readable>>
        /\ AllAccepted \/ Stays
    BY <1>3, ListenerVisited DEF VisitListener
  <2>2. at # Idle
    BY <2>1 DEF Idle
  <2>3. \A s \in Socks : /\ conn'[s] = "closed" => conn[s] = "closed"
                         /\ conn[s] \in {"open", "closed"} => conn'[s] = conn[s]
    BY <1>1, <2>1 DEF AllAccepted, Stays
  <2>4. ASSUME NEW i \in 1 .. Len(fds'), fds'[i] \in readable PROVE ReadyFor(i)'
    <3>1. i \in 1 .. Len(fds) /\ fds'[i] = fds[i]
      <4>1. CASE Stays
        BY <4>1 DEF Stays
      <4>2. CASE AllAccepted
        <5>1. /\ Len(fds') = Len(fds) + Len(backlog) /\ Len(backlog) \in Nat
              /\ \A k \in 1 .. Len(fds) : fds'[k] = fds[k]
              /\ \A k \in Len(fds) + 1 .. Len(fds) + Len(backlog) : fds'[k] = backlog[k - Len(fds)]
          BY <1>1, <4>2, ConcatProperties DEF AllAccepted
        <5>5. i \in 1 .. Len(fds) + Len(backlog) /\ Len(fds) \in Nat
          BY <1>1, <5>1
        <5>2. CASE i <= Len(fds)
          <6>1. i \in 1 .. Len(fds)
            BY ONLY <5>2, <5>5
          <6>2. QED
            BY <5>1, <6>1
        <5>3. CASE ~(i <= Len(fds))
          <6>1. /\ i \in Len(fds) + 1 .. Len(fds) + Len(backlog)
                /\ i - Len(fds) \in 1 .. Len(backlog)
            BY <5>1, <5>3, <5>5
          <6>2. fds'[i] \in With("waiting")
            <7>1. fds'[i] = backlog[i - Len(fds)] /\ i - Len(fds) \in DOMAIN backlog
              BY <1>1, <5>1, <6>1
            <7>2. fds'[i] \in RangeOf(backlog)
              BY <7>1 DEF RangeOf
            <7>3. QED
              BY <1>1, <7>2
          <6>3. QED
            BY <2>2, <2>4, <6>2 DEF With, ReadyRight
        <5>4. QED
          BY <5>2, <5>3
      <4>3. QED
        BY <2>1, <4>1, <4>2
    <3>2. i >= at
      BY <2>1
    <3>3. QED
      BY <2>1, <2>2, <2>4, <3>1, <3>2 DEF ReadyRight, ReadyFor
  <2>5. QED
    BY <2>1, <2>2, <2>3, <2>4 DEF ReadyRight
<1>4. CASE VisitServe
  <2>1. /\ at \in 1 .. Len(fds) /\ Advance(fds)
        /\ inbox' = IF Reads THEN [inbox EXCEPT ![fds[at]] = <<>>] ELSE inbox
        /\ UNCHANGED <<conn, fin, fds, readable>>
    BY <1>4 DEF VisitServe, slots
  <2>2. at # Idle /\ at \in Nat
    BY <2>1 DEF Idle
  <2>3. ASSUME at' # Idle, NEW i \in 1 .. Len(fds), i >= at', fds[i] \in readable
        PROVE  ReadyFor(i)'
    <3>1. at' = at + 1
      BY <2>1, <2>2, <2>3, Advanced
    <3>2. i >= at /\ i # at
      BY <2>2, <2>3, <3>1
    <3>3. fds[i] # fds[at] /\ fds[i] \in Socks
      BY <1>1, <2>1, <3>2
    <3>4. inbox'[fds[i]] = inbox[fds[i]]
      BY <1>1, <2>1, <3>3
    <3>5. QED
      BY <2>1, <2>2, <2>3, <3>2, <3>4 DEF ReadyRight, ReadyFor
  <2>4. QED
    BY <2>1, <2>2, <2>3 DEF ReadyRight
<1>5. CASE VisitClose
  <2>1. /\ at \in 1 .. Len(fds) /\ fds[at] \in Socks /\ fin[fds[at]]
    BY <1>5, ClosedByPeer
  <2>2. /\ fds' = LastMoved(fds, at) /\ conn' = [conn EXCEPT ![fds[at]] = "closed"]
        /\ inbox' = [inbox EXCEPT ![fds[at]] = <<>>] /\ Advance(fds')
        /\ UNCHANGED <<fin, readable>>
    BY <1>5 DEF VisitClose, Without, LastMoved
  <2>3. /\ Len(fds') = Len(fds) - 1
        /\ \A k \in 1 .. Len(fds) - 1 : fds'[k] = IF k = at THEN fds[Len(fds)] ELSE fds[k]
    <3>1. /\ Len(LastMoved(fds, at)) = Len(fds) - 1
          /\ \A k \in 1 .. Len(fds) - 1 :
               LastMoved(fds, at)[k] = IF k = at THEN fds[Len(fds)] ELSE fds[k]
      BY <1>1, <2>1, LastMovesIn
    <3>2. QED
      BY <2>2, <3>1
  <2>4. at # Idle /\ at \in Nat
    BY <2>1 DEF Idle
  <2>6. \A s \in Socks : s \in readable' => conn'[s] \in {"open", "closed"}
    BY <1>1, <2>2, <2>4 DEF ReadyRight
  <2>7. ASSUME at' # Idle, NEW i \in 1 .. Len(fds'), i >= at', fds'[i] \in readable
        PROVE  ReadyFor(i)'
    <3>1. at' = at + 1
      BY <2>2, <2>4, <2>7, Advanced
    <3>2. i \in 1 .. Len(fds) - 1 /\ i \in 1 .. Len(fds) /\ i >= at /\ i # at
      BY <1>1, <2>3, <2>4, <2>7, <3>1
    <3>3. fds'[i] = fds[i] /\ fds[i] # fds[at] /\ fds[i] \in Socks
      BY <1>1, <2>1, <2>3, <3>2
    <3>4. inbox'[fds[i]] = inbox[fds[i]]
      BY <1>1, <2>2, <3>3
    <3>5. QED
      BY <2>2, <2>4, <2>7, <3>2, <3>3, <3>4 DEF ReadyRight, ReadyFor
  <2>8. QED
    BY <2>2, <2>6, <2>7 DEF ReadyRight
<1>9. CASE VisitCrash
  BY <1>9 DEF VisitCrash, ReadyRight
<1>6. CASE Requests \/ UNCHANGED vars
  BY <1>6 DEF Requests, RequestFails, RequestAnswers, vars, peers, slots, round, ReadyRight, ReadyFor
<1>7. CASE Peers
  <2>1. PICK s \in Socks : Connect(s) \/ PeerSends(s) \/ PeerCloses(s)
    BY <1>7 DEF Peers
  <2>2. UNCHANGED <<fds, at, readable>>
    BY <2>1 DEF Connect, PeerSends, PeerCloses, slots, round
  <2>3. \A t \in Socks : inbox[t] # <<>> => inbox'[t] # <<>>
    <3>1. CASE UNCHANGED inbox
      BY <3>1
    <3>2. CASE inbox' = [inbox EXCEPT ![s] = Append(inbox[s], [from |-> s, n |-> sent[s] + 1])]
      <4>1. inbox'[s] = Append(inbox[s], [from |-> s, n |-> sent[s] + 1])
        BY <1>1, <3>2
      <4>2. inbox[s] \in Seq(Frame) /\ sent[s] \in Nat
        BY <1>1 DEF Typed, PeerTypes
      <4>3. [from |-> s, n |-> sent[s] + 1] \in Frame
        BY <4>2 DEF Frame
      <4>4. inbox'[s] # <<>>
        BY <4>1, <4>2, <4>3
      <4>5. QED
        BY <1>1, <3>2, <4>4
    <3>3. QED
      BY <2>1, <3>1, <3>2 DEF Connect, PeerSends, PeerCloses
  <2>4. \A t \in Socks : fin[t] => fin'[t]
    BY <1>1, <2>1 DEF Connect, PeerSends, PeerCloses
  <2>5. \A t \in Socks : /\ conn'[t] = "closed" => conn[t] = "closed"
                         /\ conn[t] \in {"open", "closed"} => conn'[t] = conn[t]
    BY <1>1, <2>1 DEF Connect, PeerSends, PeerCloses
  <2>6. QED
    BY <1>1, <2>2, <2>3, <2>4, <2>5 DEF ReadyRight, ReadyFor
<1>8. QED
  BY <1>2, <1>3, <1>4, <1>5, <1>6, <1>7, <1>9 DEF Next, Server
-----------------------------------------------------------------------------
(* Answers on their way back                                               *)

\* The frames requests were made of, among all frames.
TakenFrames == {f \in Frame : f.n \in DOMAIN taken[f.from]}

\* Which element serves which client.
Homes == {<<ElementAt(i), fds[i]>> : i \in 1 .. Len(fds)}

OneEach(H) ==
  /\ \A e \in 1 .. Elements : \A s, t \in Socks : <<e, s>> \in H /\ <<e, t>> \in H => s = t
  /\ \A s \in Socks : \A d, e \in 1 .. Elements : <<d, s>> \in H /\ <<e, s>> \in H => d = e

\* P are requests, T the frames they were made of, S what the elements are to send, D
\* what connections were sent, H who is served where.  A frame is asked for, or its
\* answer waits, or it was answered, only one of these, and always with its client.
AskedIn(P, T, H) == \A r \in P : r.frame \in T /\ <<r.element, r.frame.from>> \in H
WaitsIn(P, T, S, H) ==
  \A e \in 1 .. Elements :
    /\ S[e] \in Seq(Frame) /\ NoRepeats(S[e])
    /\ \A f \in RangeOf(S[e]) : /\ f \in T /\ <<e, f.from>> \in H
                                /\ \A r \in P : r.frame # f
SentIn(P, T, S, D) ==
  \A s \in Socks :
    /\ D[s] \in Seq(Frame) /\ NoRepeats(D[s])
    /\ \A f \in RangeOf(D[s]) :
         /\ f \in T /\ f.from = s
         /\ \A r \in P : r.frame # f
         /\ \A e \in 1 .. Elements : f \notin RangeOf(S[e])
OwnIn(P, T, S, D, H) == AskedIn(P, T, H) /\ WaitsIn(P, T, S, H) /\ SentIn(P, T, S, D)

LEMMA HomesOneEach == Typed => OneEach(Homes)
<1> SUFFICES ASSUME Typed PROVE OneEach(Homes)
  OBVIOUS
<1>1. \A i \in 1 .. Len(fds) : i \in Nat \ {0}
  BY FlowFacts
<1>2. ASSUME NEW e \in 1 .. Elements, NEW s \in Socks, NEW t \in Socks,
             <<e, s>> \in Homes, <<e, t>> \in Homes
      PROVE  s = t
  <2>1. PICK i \in 1 .. Len(fds) : e = ElementAt(i) /\ s = fds[i]
    BY <1>2 DEF Homes
  <2>2. PICK j \in 1 .. Len(fds) : e = ElementAt(j) /\ t = fds[j]
    BY <1>2 DEF Homes
  <2>5. i \in Nat \ {0} /\ j \in Nat \ {0} /\ ElementAt(i) = ElementAt(j) /\ ElementAt(i) # 0
    BY <1>1, <2>1, <2>2
  <2>3. i = j
    BY <2>5, Facts
  <2>4. QED
    BY <2>1, <2>2, <2>3
<1>3. ASSUME NEW s \in Socks, NEW d \in 1 .. Elements, NEW e \in 1 .. Elements,
             <<d, s>> \in Homes, <<e, s>> \in Homes
      PROVE  d = e
  <2>1. PICK i \in 1 .. Len(fds) : d = ElementAt(i) /\ s = fds[i]
    BY <1>3 DEF Homes
  <2>2. PICK j \in 1 .. Len(fds) : e = ElementAt(j) /\ s = fds[j]
    BY <1>3 DEF Homes
  <2>3. i = j
    BY <2>1, <2>2, FlowFacts
  <2>4. QED
    BY <2>1, <2>2, <2>3
<1>4. /\ \A e \in 1 .. Elements : \A s, t \in Socks : <<e, s>> \in Homes /\ <<e, t>> \in Homes => s = t
      /\ \A s \in Socks : \A d, e \in 1 .. Elements : <<d, s>> \in Homes /\ <<e, s>> \in Homes => d = e
  BY <1>2, <1>3, Zenon
<1>5. QED
  BY <1>4 DEF OneEach

LEMMA OwnTakes ==
  ASSUME NEW P, NEW T, NEW S, NEW D, NEW H, OwnIn(P, T, S, D, H),
         NEW e, NEW f, f \notin T, <<e, f.from>> \in H
  PROVE  OwnIn(P \cup {[frame |-> f, element |-> e]}, T \cup {f}, S, D, H)
<1>1. \A r \in P \cup {[frame |-> f, element |-> e]} :
        r \in P \/ (r.frame = f /\ r.element = e)
  OBVIOUS
<1>2. AskedIn(P \cup {[frame |-> f, element |-> e]}, T \cup {f}, H)
  BY <1>1 DEF OwnIn, AskedIn
<1>3. WaitsIn(P \cup {[frame |-> f, element |-> e]}, T \cup {f}, S, H)
  BY <1>1 DEF OwnIn, WaitsIn
<1>4. SentIn(P \cup {[frame |-> f, element |-> e]}, T \cup {f}, S, D)
  <2>1. \A s \in Socks : \A g \in RangeOf(D[s]) :
          g \in T /\ \A r \in P \cup {[frame |-> f, element |-> e]} : r.frame # g
    BY <1>1 DEF OwnIn, SentIn
  <2>2. QED
    BY <2>1 DEF OwnIn, SentIn
<1>5. QED
  BY <1>2, <1>3, <1>4 DEF OwnIn

LEMMA NothingInside == RangeOf(<<>>) = {} /\ NoRepeats(<<>>) /\ <<>> \in Seq(Frame)
BY DEF RangeOf, NoRepeats

LEMMA OneInside ==
  ASSUME NEW f \in Frame
  PROVE  <<f>> \in Seq(Frame) /\ RangeOf(<<f>>) = {f} /\ NoRepeats(<<f>>)
BY DEF RangeOf, NoRepeats

LEMMA OwnSends ==
  ASSUME NEW P, NEW T, NEW S, NEW D, NEW H, OwnIn(P, T, S, D, H), OneEach(H),
         DOMAIN S = 1 .. Elements, DOMAIN D = Socks,
         NEW i \in 1 .. Elements, NEW c \in Socks, <<i, c>> \in H
  PROVE  OwnIn(P, T, [S EXCEPT ![i] = <<>>], [D EXCEPT ![c] = D[c] \o S[i]], H)
<1> DEFINE S2 == [S EXCEPT ![i] = <<>>]
           D2 == [D EXCEPT ![c] = D[c] \o S[i]]
<1>1. /\ S2[i] = <<>> /\ \A e \in 1 .. Elements : e # i => S2[e] = S[e]
      /\ D2[c] = D[c] \o S[i] /\ \A s \in Socks : s # c => D2[s] = D[s]
  OBVIOUS
<1> HIDE DEF S2, D2
<1>2. WaitsIn(P, T, S2, H)
  BY <1>1, NothingInside DEF OwnIn, WaitsIn
<1>3. \A e \in 1 .. Elements : RangeOf(S2[e]) \subseteq RangeOf(S[e])
  BY <1>1, NothingInside
<1>4. D[c] \in Seq(Frame) /\ S[i] \in Seq(Frame) /\ NoRepeats(D[c]) /\ NoRepeats(S[i])
  BY DEF OwnIn, WaitsIn, SentIn
<1>5. RangeOf(D[c]) \cap RangeOf(S[i]) = {}
  BY DEF OwnIn, SentIn
<1>6. /\ D2[c] \in Seq(Frame) /\ NoRepeats(D2[c])
      /\ RangeOf(D2[c]) = RangeOf(D[c]) \cup RangeOf(S[i])
  BY <1>1, <1>4, <1>5, RangeOfConcat
<1>7. ASSUME NEW f \in RangeOf(S[i])
      PROVE  /\ f \in T /\ f.from = c /\ \A r \in P : r.frame # f
             /\ \A e \in 1 .. Elements : f \notin RangeOf(S2[e])
  <2>4. f \in T /\ <<i, f.from>> \in H /\ \A r \in P : r.frame # f
    BY DEF OwnIn, WaitsIn
  <2>5. f \in Frame
    BY <1>4 DEF RangeOf
  <2>1. f \in T /\ f.from = c /\ \A r \in P : r.frame # f
    BY <2>4, <2>5 DEF OneEach, Frame
  <2>2. ASSUME NEW e \in 1 .. Elements, f \in RangeOf(S2[e]) PROVE FALSE
    <3>1. e # i /\ f \in RangeOf(S[e])
      BY <1>1, <2>2, NothingInside
    <3>2. <<e, c>> \in H
      BY <2>1, <3>1 DEF OwnIn, WaitsIn
    <3>3. QED
      BY <3>1, <3>2 DEF OneEach
  <2>3. QED
    BY <2>1, <2>2
<1>8. ASSUME NEW s \in Socks
      PROVE  /\ D2[s] \in Seq(Frame) /\ NoRepeats(D2[s])
             /\ \A f \in RangeOf(D2[s]) :
                  /\ f \in T /\ f.from = s /\ \A r \in P : r.frame # f
                  /\ \A e \in 1 .. Elements : f \notin RangeOf(S2[e])
  <2>1. /\ D[s] \in Seq(Frame) /\ NoRepeats(D[s])
        /\ \A f \in RangeOf(D[s]) :
             /\ f \in T /\ f.from = s /\ \A r \in P : r.frame # f
             /\ \A e \in 1 .. Elements : f \notin RangeOf(S2[e])
    BY <1>3 DEF OwnIn, SentIn
  <2>2. CASE s # c
    BY <1>1, <2>1, <2>2
  <2>3. CASE s = c
    BY <1>6, <1>7, <2>1, <2>3
  <2>4. QED
    BY <2>2, <2>3
<1>9. SentIn(P, T, S2, D2)
  BY <1>8 DEF SentIn
<1>10. QED
  BY <1>2, <1>9 DEF OwnIn, S2, D2

\* A request that ended leaves nothing of its frame to ask for.
LEMMA AskedOnce ==
  ASSUME NEW P, NEW T, NEW S, NEW D, NEW H,
         P \subseteq [frame : Frame, element : 1 .. Elements], OwnIn(P, T, S, D, H),
         OneEach(H),
         NEW r \in P
  PROVE  \A q \in P \ {r} : q.frame # r.frame
<1> SUFFICES ASSUME NEW q \in P, q.frame = r.frame PROVE q = r
  OBVIOUS
<1>1. <<q.element, r.frame.from>> \in H /\ <<r.element, r.frame.from>> \in H
  BY DEF OwnIn, AskedIn
<1>5. q.element \in 1 .. Elements /\ r.element \in 1 .. Elements /\ r.frame.from \in Socks
  <2>1. r.frame \in Frame
    OBVIOUS
  <2>2. QED
    BY <2>1 DEF Frame
<1>2. q.element = r.element
  BY <1>1, <1>5 DEF OneEach
<1>3. /\ q \in [frame : Frame, element : 1 .. Elements]
      /\ r \in [frame : Frame, element : 1 .. Elements]
  OBVIOUS
<1>4. QED
  BY <1>2, <1>3

LEMMA OwnAnswers ==
  ASSUME NEW P, NEW T, NEW S, NEW D, NEW H, OwnIn(P, T, S, D, H),
         P \subseteq [frame : Frame, element : 1 .. Elements],
         DOMAIN S = 1 .. Elements,
         OneEach(H),
         NEW r \in P, S[r.element] = <<>>
  PROVE  OwnIn(P \ {r}, T, [S EXCEPT ![r.element] = <<r.frame>>], D, H)
<1> DEFINE S2 == [S EXCEPT ![r.element] = <<r.frame>>]
<1>1. r.frame \in Frame /\ r.element \in 1 .. Elements
  OBVIOUS
<1>2. /\ S2[r.element] = <<r.frame>>
      /\ \A e \in 1 .. Elements : e # r.element => S2[e] = S[e]
  BY <1>1
<1> HIDE DEF S2
<1>3. r.frame \in T /\ <<r.element, r.frame.from>> \in H
  BY DEF OwnIn, AskedIn
<1>4. \A q \in P \ {r} : q.frame # r.frame
  BY AskedOnce
<1>5. /\ <<r.frame>> \in Seq(Frame) /\ RangeOf(<<r.frame>>) = {r.frame}
      /\ NoRepeats(<<r.frame>>)
  BY <1>1, OneInside
<1>6. AskedIn(P \ {r}, T, H)
  BY DEF OwnIn, AskedIn
<1>7. ASSUME NEW e \in 1 .. Elements
      PROVE  /\ S2[e] \in Seq(Frame) /\ NoRepeats(S2[e])
             /\ \A f \in RangeOf(S2[e]) :
                  /\ f \in T /\ <<e, f.from>> \in H
                  /\ \A q \in P \ {r} : q.frame # f
  <2>1. CASE e = r.element
    BY <1>2, <1>3, <1>4, <1>5, <2>1
  <2>2. CASE e # r.element
    <3>1. S2[e] = S[e]
      BY <1>2, <2>2
    <3>2. QED
      BY <3>1 DEF OwnIn, WaitsIn
  <2>3. QED
    BY <2>1, <2>2
<1>12. WaitsIn(P \ {r}, T, S2, H)
  BY <1>7 DEF WaitsIn
<1>8. \A e \in 1 .. Elements : RangeOf(S2[e]) \subseteq RangeOf(S[e]) \cup {r.frame}
  BY <1>2, <1>5
<1>9. ASSUME NEW s \in Socks
      PROVE  /\ D[s] \in Seq(Frame) /\ NoRepeats(D[s])
             /\ \A f \in RangeOf(D[s]) :
                  /\ f \in T /\ f.from = s /\ \A q \in P \ {r} : q.frame # f
                  /\ \A e \in 1 .. Elements : f \notin RangeOf(S2[e])
  <2>1. /\ D[s] \in Seq(Frame) /\ NoRepeats(D[s])
        /\ \A f \in RangeOf(D[s]) :
             /\ f \in T /\ f.from = s /\ \A q \in P : q.frame # f
             /\ \A e \in 1 .. Elements : f \notin RangeOf(S[e])
    BY DEF OwnIn, SentIn
  <2>2. \A f \in RangeOf(D[s]) : f # r.frame
    BY <2>1
  <2>3. QED
    BY <1>8, <2>1, <2>2
<1>10. SentIn(P \ {r}, T, S2, D)
  BY <1>9 DEF SentIn
<1>11. QED
  BY <1>6, <1>12, <1>10 DEF OwnIn, S2

LEMMA OwnFewer ==
  ASSUME NEW P, NEW T, NEW S, NEW D, NEW H, OwnIn(P, T, S, D, H), NEW r
  PROVE  OwnIn(P \ {r}, T, S, D, H)
BY DEF OwnIn, AskedIn, WaitsIn, SentIn


\* More is served than before.
LEMMA OwnAccepts ==
  ASSUME NEW P, NEW T, NEW S, NEW D, NEW H, OwnIn(P, T, S, D, H), NEW H2, H \subseteq H2
  PROVE  OwnIn(P, T, S, D, H2)
BY DEF OwnIn, AskedIn, WaitsIn, SentIn

\* An element is emptied, and all that is asked for or waits elsewhere stays at home.
LEMMA OwnCloses ==
  ASSUME NEW P, NEW T, NEW S, NEW D, NEW H, OwnIn(P, T, S, D, H), DOMAIN S = 1 .. Elements,
         NEW i \in 1 .. Elements, NEW H2,
         \A r \in P : <<r.element, r.frame.from>> \in H2,
         \A e \in 1 .. Elements : \A f \in RangeOf(S[e]) : e # i => <<e, f.from>> \in H2
  PROVE  OwnIn(P, T, [S EXCEPT ![i] = <<>>], D, H2)
<1> DEFINE S2 == [S EXCEPT ![i] = <<>>]
<1>1. S2[i] = <<>> /\ \A e \in 1 .. Elements : e # i => S2[e] = S[e]
  OBVIOUS
<1> HIDE DEF S2
<1>2. \A e \in 1 .. Elements : RangeOf(S2[e]) \subseteq RangeOf(S[e])
  BY <1>1, NothingInside
<1>3. AskedIn(P, T, H2)
  BY DEF OwnIn, AskedIn
<1>4. WaitsIn(P, T, S2, H2)
  BY <1>1, NothingInside DEF OwnIn, WaitsIn
<1>5. SentIn(P, T, S2, D)
  BY <1>2 DEF OwnIn, SentIn
<1>6. QED
  BY <1>3, <1>4, <1>5 DEF OwnIn, S2

\* The handlers make no request for element e, or one of the next frame of client s.
Takes(e, s) ==
  \/ UNCHANGED <<pending, taken>>
  \/ \E f \in Frame :
       /\ f \notin TakenFrames /\ f.from = s /\ Len(taken[f.from]) < sent[f.from]
       /\ pending' = pending \cup {[frame |-> f, element |-> e]}
       /\ TakenFrames' = TakenFrames \cup {f}
       /\ \A t \in Socks : t # f.from => taken'[t] = taken[t]

LEMMA HandlersTake ==
  ASSUME Typed, Typed', AllInOrder', UNCHANGED sent,
         NEW e \in 1 .. Elements, NEW c \in Socks,
         NEW bytes \in Seq(Frame), NEW buf, Handlers(e, bytes, buf),
         \A f \in RangeOf(bytes) : f.from = c
  PROVE  Takes(e, c)
<1>1. CASE bytes = <<>>
  BY <1>1 DEF Handlers, HasWork, requests, Takes
<1>2. CASE bytes # <<>>
  <2>1. /\ pending' = pending \cup {[frame |-> Head(bytes), element |-> e]}
        /\ taken' = [taken EXCEPT ![Head(bytes).from]
                       = Append(taken[Head(bytes).from], Head(bytes).n)]
    BY <1>2 DEF Handlers, HasWork
  <2>2. Head(bytes) \in Frame /\ Head(bytes) \in RangeOf(bytes)
    BY <1>2 DEF RangeOf
  <2>3. PICK f \in Frame : f = Head(bytes)
    BY <2>2
  <2>4. PICK s \in Socks : s = f.from
    BY DEF Frame
  <2>5. /\ taken \in [Socks -> Seq(Nat)] /\ taken[s] \in Seq(Nat)
        /\ sent \in [Socks -> Nat] /\ sent[s] \in Nat /\ f.n \in Nat
    BY DEF Typed, ElementTypes, PeerTypes, Frame
  <2>6. PICK q \in Seq(Nat) : q = taken[s]
    BY <2>5
  <2>7. taken'[s] = Append(q, f.n) /\ \A t \in Socks : t # s => taken'[t] = taken[t]
    BY <2>1, <2>3, <2>4, <2>5, <2>6
  <2>8. /\ Len(q) \in Nat /\ DOMAIN q = 1 .. Len(q)
        /\ Len(Append(q, f.n)) = Len(q) + 1
        /\ DOMAIN Append(q, f.n) = 1 .. Len(q) + 1
        /\ Append(q, f.n)[Len(q) + 1] = f.n
    BY <2>5
  <2>9. /\ Len(taken'[s]) <= sent[s]
        /\ \A k \in 1 .. Len(taken'[s]) : taken'[s][k] = k
    BY DEF AllInOrder, PeersInOrder, PeerInOrder
  <2>10. f.n = Len(q) + 1 /\ Len(q) < sent[s]
    <3>1. Len(q) + 1 \in 1 .. Len(q) + 1
      BY <2>8
    <3>2. Append(q, f.n)[Len(q) + 1] = Len(q) + 1
      BY <2>7, <2>8, <2>9, <3>1
    <3>3. Len(q) + 1 <= sent[s]
      BY <2>7, <2>8, <2>9
    <3>4. Len(q) < sent[s]
      BY ONLY <2>5, <2>8, <3>3
    <3>5. QED
      BY <2>8, <3>2, <3>4
  <2>11. 1 .. Len(q) + 1 = (1 .. Len(q)) \cup {Len(q) + 1} /\ Len(q) + 1 \notin 1 .. Len(q)
    BY ONLY <2>8
  <2>12. \A g \in Frame : g.from = s /\ g.n = Len(q) + 1 <=> g = f
    BY <2>4, <2>10 DEF Frame
  <2>13. \A g \in Frame : g.n \in DOMAIN taken'[g.from] <=> g.n \in DOMAIN taken[g.from] \/ g = f
    <3>1. ASSUME NEW g \in Frame
          PROVE  g.n \in DOMAIN taken'[g.from] <=> g.n \in DOMAIN taken[g.from] \/ g = f
      <4>1. CASE g.from = s
        BY <2>6, <2>7, <2>8, <2>11, <2>12, <4>1
      <4>2. CASE g.from # s
        BY <2>4, <2>7, <4>2 DEF Frame
      <4>3. QED
        BY <4>1, <4>2
    <3>2. QED
      BY <3>1
  <2>14. f \notin TakenFrames
    BY <2>4, <2>6, <2>8, <2>10, <2>11 DEF TakenFrames
  <2>15. TakenFrames' = TakenFrames \cup {f}
    BY <2>13 DEF TakenFrames
  <2>16. f.from = c
    BY <2>2, <2>3
  <2>17. QED
    BY <2>1, <2>3, <2>4, <2>6, <2>7, <2>10, <2>14, <2>15, <2>16 DEF Takes
<1>3. QED
  BY <1>1, <1>2

LEMMA NumberedAreOfOne ==
  ASSUME NEW q, NEW s, NEW from, Numbered(q, s, from)
  PROVE  \A k \in 1 .. Len(q) : q[k].from = s
<1>1. ASSUME NEW k \in 1 .. Len(q) PROVE q[k].from = s
  <2>1. q[k] = [from |-> s, n |-> from + k]
    BY DEF Numbered
  <2>2. [from |-> s, n |-> from + k].from = s
    OBVIOUS
  <2>3. QED
    BY ONLY <2>1, <2>2
<1>2. QED
  BY <1>1

\* What is in the element of a slot, or waits in its socket, is its client's.
LEMMA SlotHoldsOwn ==
  ASSUME Typed, AllInOrder, NEW i \in 1 .. Len(fds)
  PROVE  /\ \A f \in RangeOf(Held(i)) : f.from = fds[i]
         /\ \A f \in RangeOf(inbox[fds[i]]) : f.from = fds[i]
<1>1. /\ fds[i] \in Socks
      /\ Held(i) \in Seq(Frame) /\ inbox[fds[i]] \in Seq(Frame)
  BY FlowFacts
<1>2. SlotInOrder(i) /\ PeerInOrder(fds[i])
  BY <1>1 DEF AllInOrder, PeersInOrder
<1>3. \A k \in 1 .. Len(Held(i)) : Held(i)[k].from = fds[i]
  BY <1>2, NumberedAreOfOne DEF SlotInOrder
<1>4. \A k \in 1 .. Len(inbox[fds[i]]) : inbox[fds[i]][k].from = fds[i]
  BY <1>2, NumberedAreOfOne DEF PeerInOrder
<1>5. /\ DOMAIN Held(i) = 1 .. Len(Held(i))
      /\ DOMAIN inbox[fds[i]] = 1 .. Len(inbox[fds[i]])
  BY <1>1
<1>6. QED
  BY <1>3, <1>4, <1>5 DEF RangeOf

LEMMA ServeTakes ==
  ASSUME Typed, Typed', AllInOrder, AllInOrder', VisitServe, ~mixed'
  PROVE  Takes(ElementAt(at), fds[at])
<1>8. PICK e \in 1 .. Elements : e = ElementAt(at)
  BY ServeVisited
<1>1. /\ at \in 1 .. Len(fds) /\ fds[at] \in Socks
      /\ Handlers(e, recv_buffer[e] \o Fresh, Buf)
      /\ UNCHANGED sent
  BY <1>8, ServeVisited, Facts DEF VisitServe
<1>9. Held(at) = recv_buffer[e]
  BY <1>8 DEF Held
<1>2. Reads \/ Count = 0
  <2>1. Reads \/ ~(Count > 0)
    BY DEF VisitServe
  <2>2. Count \in Nat
    BY <1>1, SlotRead
  <2>3. QED
    BY <2>1, <2>2
<1>3. recv_buffer[e] \in Seq(Frame) /\ Fresh \in Seq(Frame)
  BY <1>1, SlotRead, FlowFacts
<1>4. \A f \in RangeOf(Fresh) : f.from = fds[at]
  <2>1. CASE Reads
    BY <1>1, <2>1, SlotRead, SlotHoldsOwn
  <2>2. CASE Count = 0
    BY <1>1, <2>2, SlotRead, NothingInside
  <2>3. QED
    BY <1>2, <2>1, <2>2
<1>5. /\ recv_buffer[e] \o Fresh \in Seq(Frame)
      /\ RangeOf(recv_buffer[e] \o Fresh) = RangeOf(recv_buffer[e]) \cup RangeOf(Fresh)
  BY <1>3, RangeOfConcat
<1>6. \A f \in RangeOf(recv_buffer[e] \o Fresh) : f.from = fds[at]
  BY <1>1, <1>4, <1>5, <1>9, SlotHoldsOwn
<1>7. Takes(e, fds[at])
  BY <1>1, <1>5, <1>6, HandlersTake
<1>10. QED
  BY <1>7, <1>8

LEMMA ListenerTakes ==
  ASSUME Typed, Typed', AllInOrder, AllInOrder', VisitListener
  PROVE  \/ UNCHANGED <<pending, taken>>
         \/ 1 \in 1 .. Len(fds) /\ Takes(ElementAt(1), fds[1])
<1>1. Handlers(1, recv_buffer[1], buffer) /\ UNCHANGED sent
  BY ListenerVisited DEF VisitListener
<1>2. /\ 1 \in 1 .. Elements /\ recv_buffer[1] \in Seq(Frame) /\ Len(fds) \in Nat
      /\ ElementAt(1) = 1
  BY Facts, FlowFacts
<1>3. CASE Len(fds) = 0
  <2>1. Unused(1)
    BY <1>2, <1>3 DEF Unused
  <2>2. recv_buffer[1] = <<>>
    BY <1>2, <2>1 DEF AllInOrder
  <2>3. QED
    BY <1>1, <2>2 DEF Handlers, HasWork, requests
<1>4. CASE Len(fds) # 0
  <2>1. 1 \in 1 .. Len(fds)
    BY <1>2, <1>4
  <2>4. Held(1) = recv_buffer[1] /\ fds[1] \in Socks
    BY <1>2, <2>1, FlowFacts DEF Held
  <2>2. \A f \in RangeOf(recv_buffer[1]) : f.from = fds[1]
    BY <2>1, <2>4, SlotHoldsOwn
  <2>3. Takes(1, fds[1])
    BY <1>1, <1>2, <2>2, <2>4, HandlersTake
  <2>5. QED
    BY <1>2, <2>1, <2>3
<1>5. QED
  BY <1>3, <1>4

-----------------------------------------------------------------------------
(* Answers go where they belong                                            *)

OwnNow == OwnIn(pending, TakenFrames, send_buffer, delivered, Homes)

\* Nothing is owed to a peer that closed.
Quiet == \A s \in Socks : fin[s] => ~Owed(s)

LEMMA StaysQuiet ==
  ASSUME NEW s \in Socks, ~Owed(s), taken'[s] = taken[s], sent'[s] = sent[s],
         \A r \in pending' : r \in pending \/ r.frame.from # s,
         \A e \in 1 .. Elements : \A f \in RangeOf(send_buffer'[e]) :
           f \in RangeOf(send_buffer[e]) \/ f.from # s
  PROVE  ~Owed(s)'
<1>1. /\ ~(Len(taken[s]) < sent[s]) /\ \A r \in pending : r.frame.from # s
      /\ \A e \in 1 .. Elements : \A f \in RangeOf(send_buffer[e]) : f.from # s
  BY DEF Owed, RangeOf
<1>2. /\ ~(Len(taken'[s]) < sent'[s]) /\ \A r \in pending' : r.frame.from # s
      /\ \A e \in 1 .. Elements : \A f \in RangeOf(send_buffer'[e]) : f.from # s
  BY <1>1
<1>3. QED
  BY <1>2 DEF Owed, RangeOf

LEMMA SameTaken == UNCHANGED taken => TakenFrames' = TakenFrames
BY DEF TakenFrames

\* The requests and the frames taken, after handlers ran; the rest as before.
LEMMA OwnAfterTakes ==
  ASSUME OwnNow, Quiet, NEW e, NEW c, <<e, c>> \in Homes, Takes(e, c)
  PROVE  /\ OwnIn(pending', TakenFrames', send_buffer, delivered, Homes)
         /\ \A s \in Socks : fin[s] => /\ taken'[s] = taken[s]
                                       /\ \A r \in pending' : r \in pending \/ r.frame.from # s
<1>1. CASE UNCHANGED <<pending, taken>>
  BY <1>1, SameTaken DEF OwnNow
<1>2. CASE ~UNCHANGED <<pending, taken>>
  <2>1. PICK f \in Frame :
          /\ f \notin TakenFrames /\ f.from = c /\ Len(taken[f.from]) < sent[f.from]
          /\ pending' = pending \cup {[frame |-> f, element |-> e]}
          /\ TakenFrames' = TakenFrames \cup {f}
          /\ \A t \in Socks : t # f.from => taken'[t] = taken[t]
    BY <1>2 DEF Takes
  <2>2. OwnIn(pending \cup {[frame |-> f, element |-> e]}, TakenFrames \cup {f},
              send_buffer, delivered, Homes)
    BY <2>1, OwnTakes DEF OwnNow
  <2>3. \A s \in Socks : fin[s] => f.from # s
    BY <2>1 DEF Quiet, Owed
  <2>4. QED
    BY <2>1, <2>2, <2>3
<1>3. QED
  BY <1>1, <1>2
AnswersRight == OwnNow /\ Quiet

LEMMA HomesStay == UNCHANGED <<fds, next>> => Homes' = Homes
BY SameElements DEF Homes

LEMMA RightInit == Init => AnswersRight
<1> SUFFICES ASSUME Init PROVE AnswersRight
  OBVIOUS
<1>1. /\ pending = {} /\ fds = <<>> /\ \A s \in Socks : delivered[s] = <<>> /\ ~fin[s]
      /\ \A e \in 1 .. Elements : send_buffer[e] = <<>>
  BY DEF Init, NoBytes
<1>2. QED
  BY <1>1, NothingInside DEF AnswersRight, OwnNow, OwnIn, AskedIn, WaitsIn, SentIn, Quiet

\* A step that changes none of this.
LEMMA RightUntouched ==
  ASSUME AnswersRight,
         UNCHANGED <<fds, next, sent, fin, send_buffer, pending, taken, delivered>>
  PROVE  AnswersRight'
<1>1. TakenFrames' = TakenFrames
  BY SameTaken
<1>2. OwnNow'
  BY <1>1, HomesStay DEF AnswersRight, OwnNow
<1>3. Quiet'
  BY StaysQuiet DEF AnswersRight, Quiet
<1>4. QED
  BY <1>2, <1>3 DEF AnswersRight

LEMMA RightListener ==
  ASSUME Typed, Typed', AllInOrder, AllInOrder', AnswersRight, VisitListener
  PROVE  AnswersRight'
<1>1. /\ AllAccepted \/ Stays
      /\ UNCHANGED <<next, sent, fin, send_buffer, delivered>>
  BY ListenerVisited DEF VisitListener, history
<1>2. /\ OwnIn(pending', TakenFrames', send_buffer, delivered, Homes)
      /\ \A s \in Socks : fin[s] => /\ taken'[s] = taken[s]
                                    /\ \A r \in pending' : r \in pending \/ r.frame.from # s
  <2>1. CASE UNCHANGED <<pending, taken>>
    BY <2>1, SameTaken DEF AnswersRight, OwnNow
  <2>2. CASE 1 \in 1 .. Len(fds) /\ Takes(ElementAt(1), fds[1])
    <3>1. <<ElementAt(1), fds[1]>> \in Homes
      BY <2>2 DEF Homes
    <3>2. QED
      BY <2>2, <3>1, OwnAfterTakes DEF AnswersRight
  <2>3. QED
    BY <2>1, <2>2, ListenerTakes
<1>3. \A i \in 1 .. Len(fds) : i \in 1 .. Len(fds') /\ fds'[i] = fds[i]
  <2>1. CASE Stays
    BY <2>1 DEF Stays
  <2>2. CASE AllAccepted
    <3>1. fds \in Seq(Socks) /\ backlog \in Seq(Socks) /\ fds' = fds \o backlog
      BY <2>2 DEF Typed, EachInOnePlace, AllAccepted
    <3>2. /\ Len(fds') = Len(fds) + Len(backlog) /\ Len(fds) \in Nat /\ Len(backlog) \in Nat
          /\ \A i \in 1 .. Len(fds) : fds'[i] = fds[i]
      BY <3>1, ConcatProperties
    <3>3. \A i \in 1 .. Len(fds) : i \in 1 .. Len(fds) + Len(backlog)
      BY <3>2
    <3>4. QED
      BY <3>2, <3>3
  <2>3. QED
    BY <1>1, <2>1, <2>2
<1>8. Homes \subseteq Homes'
  <2>1. \A i : (ElementAt(i))' = ElementAt(i)
    BY <1>1, SameElements
  <2>2. QED
    BY <1>3, <2>1 DEF Homes
<1>4. OwnIn(pending', TakenFrames', send_buffer, delivered, Homes')
  BY <1>2, <1>8, OwnAccepts
<1>5. OwnNow'
  BY <1>1, <1>4 DEF OwnNow
<1>6. Quiet'
  <2>1. ASSUME NEW s \in Socks, fin[s] PROVE ~Owed(s)'
    <3>1. ~Owed(s)
      BY <2>1 DEF AnswersRight, Quiet
    <3>2. QED
      BY <1>1, <1>2, <2>1, <3>1, StaysQuiet
  <2>2. QED
    BY <1>1, <2>1 DEF Quiet
<1>7. QED
  BY <1>5, <1>6 DEF AnswersRight

LEMMA RightServe ==
  ASSUME Typed, Typed', AllInOrder, AllInOrder', AnswersRight, VisitServe, ~mixed'
  PROVE  AnswersRight'
<1>10. PICK e \in 1 .. Elements : e = ElementAt(at)
  BY ServeVisited
<1>11. PICK c \in Socks : c = fds[at]
  BY ServeVisited, Facts
<1>1. /\ at \in 1 .. Len(fds) /\ <<e, c>> \in Homes
      /\ UNCHANGED <<sent, fin, fds, next>>
  <2>1. at \in 1 .. Len(fds) /\ UNCHANGED <<sent, fin, fds, next>>
    BY DEF VisitServe, slots
  <2>2. QED
    BY <1>10, <1>11, <2>1 DEF Homes
<1>2. /\ OwnIn(pending', TakenFrames', send_buffer, delivered, Homes)
      /\ \A s \in Socks : fin[s] => /\ taken'[s] = taken[s]
                                    /\ \A r \in pending' : r \in pending \/ r.frame.from # s
  <2>1. Takes(e, c)
    BY <1>10, <1>11, ServeTakes
  <2>2. QED
    BY <1>1, <2>1, OwnAfterTakes DEF AnswersRight
<1>3. DOMAIN send_buffer = 1 .. Elements /\ DOMAIN delivered = Socks
  BY DEF Typed, ElementTypes
<1>4. \/ UNCHANGED <<send_buffer, delivered>>
      \/ /\ send_buffer' = [send_buffer EXCEPT ![e] = <<>>]
         /\ delivered' = [delivered EXCEPT ![c] = delivered[c] \o send_buffer[e]]
  BY <1>10, <1>11, ServeVisited
<1>5. OwnIn(pending', TakenFrames', send_buffer', delivered', Homes)
  <2>1. CASE UNCHANGED <<send_buffer, delivered>>
    BY <1>2, <2>1
  <2>2. CASE /\ send_buffer' = [send_buffer EXCEPT ![e] = <<>>]
             /\ delivered' = [delivered EXCEPT ![c] = delivered[c] \o send_buffer[e]]
    <3>1. OwnIn(pending', TakenFrames', [send_buffer EXCEPT ![e] = <<>>],
                [delivered EXCEPT ![c] = delivered[c] \o send_buffer[e]], Homes)
      BY <1>1, <1>2, <1>3, HomesOneEach, OwnSends
    <3>2. QED
      BY <2>2, <3>1
  <2>3. QED
    BY <1>4, <2>1, <2>2
<1>6. OwnNow'
  BY <1>1, <1>5, HomesStay DEF OwnNow
<1>7. \A d \in 1 .. Elements : \A f \in RangeOf(send_buffer'[d]) : f \in RangeOf(send_buffer[d])
  <2>1. \A d \in 1 .. Elements : send_buffer'[d] = send_buffer[d] \/ send_buffer'[d] = <<>>
    BY <1>3, <1>4
  <2>2. QED
    BY <2>1, NothingInside
<1>8. Quiet'
  <2>1. ASSUME NEW s \in Socks, fin[s] PROVE ~Owed(s)'
    <3>1. ~Owed(s)
      BY <2>1 DEF AnswersRight, Quiet
    <3>2. QED
      BY <1>1, <1>2, <1>7, <2>1, <3>1, StaysQuiet
  <2>2. QED
    BY <1>1, <2>1 DEF Quiet
<1>9. QED
  BY <1>6, <1>8 DEF AnswersRight

\* Nothing is under way for the slot that closes, nor, unless bytes are mixed up, for
\* those behind it; the slots before it keep their clients and their elements.
LEMMA RightClose ==
  ASSUME Typed, Typed', ReadyRight, AnswersRight, VisitClose, ~mixed'
  PROVE  AnswersRight'
<1>20. PICK e \in 1 .. Elements : e = ElementAt(at)
  BY CloseVisited
<1>1. /\ at \in 1 .. Len(fds) /\ fds[at] \in Socks /\ fin[fds[at]]
      /\ send_buffer' = [send_buffer EXCEPT ![e] = <<>>]
      /\ UNCHANGED <<sent, fin, pending, taken, delivered>>
      /\ \A k \in 0 .. at : (ElementAt(k))' = ElementAt(k)
  BY <1>20, ClosedByPeer, CloseVisited DEF VisitClose, requests
<1>2. Len(fds) \in Nat /\ at \in Nat \ {0} /\ at <= Len(fds) /\ fds \in Seq(Socks)
  <2>1. Len(fds) \in Nat /\ fds \in Seq(Socks)
    BY Facts DEF Typed, EachInOnePlace
  <2>2. QED
    BY <1>1, <2>1
<1>3. \A k \in 1 .. at - 1 : k \in 1 .. Len(fds') /\ fds'[k] = fds[k]
  <2>1. fds' = LastMoved(fds, at)
    BY DEF VisitClose, Without, LastMoved
  <2>2. /\ Len(fds') = Len(fds) - 1
        /\ \A k \in 1 .. Len(fds) - 1 : fds'[k] = IF k = at THEN fds[Len(fds)] ELSE fds[k]
    <3>1. fds \in Seq(Socks) /\ at \in 1 .. Len(fds)
      BY <1>1, <1>2
    <3>2. /\ Len(LastMoved(fds, at)) = Len(fds) - 1
          /\ \A k \in 1 .. Len(fds) - 1 :
               LastMoved(fds, at)[k] = IF k = at THEN fds[Len(fds)] ELSE fds[k]
      BY <3>1, LastMovesIn
    <3>3. QED
      BY <2>1, <3>2
  <2>3. \A k \in 1 .. at - 1 : k \in 1 .. Len(fds) - 1 /\ k # at
    BY ONLY <1>2
  <2>4. QED
    BY <2>2, <2>3
<1>4. \A k \in 1 .. at - 1 : <<ElementAt(k), fds[k]>> \in Homes'
  <2>1. \A k \in 1 .. at - 1 : k \in 0 .. at
    BY ONLY <1>2
  <2>2. \A k \in 1 .. at - 1 : (ElementAt(k))' = ElementAt(k)
    BY <1>1, <2>1
  <2>3. QED
    BY <1>3, <2>2 DEF Homes
<1>5. \A k \in 1 .. Len(fds) : k \in 1 .. at - 1 \/ k = at \/ k \in at + 1 .. Len(fds)
  BY ONLY <1>2
<1>6. ASSUME NEW r \in pending PROVE <<r.element, r.frame.from>> \in Homes'
  <2>1. <<r.element, r.frame.from>> \in Homes /\ r.element # 0
    <3>1. <<r.element, r.frame.from>> \in Homes
      BY DEF AnswersRight, OwnNow, OwnIn, AskedIn
    <3>2. r.element \in 1 .. Elements
      BY DEF Typed, ElementTypes
    <3>3. QED
      BY <3>1, <3>2
  <2>2. PICK k \in 1 .. Len(fds) : r.element = ElementAt(k) /\ r.frame.from = fds[k]
    BY <2>1 DEF Homes
  <2>3. k # at
    <3>1. ~Owed(fds[at])
      BY <1>1 DEF AnswersRight, Quiet
    <3>2. r.frame.from # fds[at]
      BY <3>1 DEF Owed
    <3>3. QED
      BY <2>2, <3>2
  <2>4. k \notin at + 1 .. Len(fds)
    BY <2>1, <2>2, NothingBehind
  <2>5. QED
    BY <1>4, <1>5, <2>2, <2>3, <2>4
<1>7. ASSUME NEW d \in 1 .. Elements, NEW f \in RangeOf(send_buffer[d]), d # e
      PROVE  <<d, f.from>> \in Homes'
  <2>1. <<d, f.from>> \in Homes /\ d # 0
    BY DEF AnswersRight, OwnNow, OwnIn, WaitsIn
  <2>2. PICK k \in 1 .. Len(fds) : d = ElementAt(k) /\ f.from = fds[k]
    BY <2>1 DEF Homes
  <2>3. k # at
    BY <1>7, <1>20, <2>2
  <2>4. k \notin at + 1 .. Len(fds)
    <3>1. send_buffer[d] # <<>>
      BY NothingInside
    <3>2. QED
      BY <2>1, <2>2, <3>1, NothingBehind
  <2>5. QED
    BY <1>4, <1>5, <2>2, <2>3, <2>4
<1>8. DOMAIN send_buffer = 1 .. Elements
  BY DEF Typed, ElementTypes
<1>9. OwnIn(pending, TakenFrames, [send_buffer EXCEPT ![e] = <<>>], delivered, Homes')
  <2>1. OwnIn(pending, TakenFrames, send_buffer, delivered, Homes)
    BY DEF AnswersRight, OwnNow
  <2>2. QED
    BY <1>6, <1>7, <1>8, <2>1, OwnCloses
<1>10. OwnNow'
  BY <1>1, <1>9, SameTaken DEF OwnNow
<1>11. \A d \in 1 .. Elements : \A f \in RangeOf(send_buffer'[d]) : f \in RangeOf(send_buffer[d])
  <2>1. \A d \in 1 .. Elements : send_buffer'[d] = send_buffer[d] \/ send_buffer'[d] = <<>>
    BY <1>1, <1>8
  <2>2. QED
    BY <2>1, NothingInside
<1>12. Quiet'
  <2>1. ASSUME NEW s \in Socks, fin[s] PROVE ~Owed(s)'
    <3>1. ~Owed(s)
      BY <2>1 DEF AnswersRight, Quiet
    <3>2. QED
      BY <1>1, <1>11, <3>1, StaysQuiet
  <2>2. QED
    BY <1>1, <2>1 DEF Quiet
<1>13. QED
  BY <1>10, <1>12 DEF AnswersRight

\* A restart leaves nothing to ask for and nothing to send.
LEMMA RightCrash ==
  ASSUME AnswersRight, VisitCrash PROVE AnswersRight'
<1>1. /\ pending' = {} /\ UNCHANGED <<sent, fin, taken, delivered>>
      /\ \A e \in 1 .. Elements : send_buffer'[e] = <<>>
  BY DEF VisitCrash, NoBytes, history
<1>2. \A e \in 1 .. Elements : /\ send_buffer'[e] \in Seq(Frame) /\ NoRepeats(send_buffer'[e])
                               /\ RangeOf(send_buffer'[e]) = {}
  BY <1>1, NothingInside
<1>3. AskedIn(pending', TakenFrames, Homes') /\ WaitsIn(pending', TakenFrames, send_buffer', Homes')
  BY <1>1, <1>2 DEF AskedIn, WaitsIn
<1>4. SentIn(pending', TakenFrames, send_buffer', delivered)
  BY <1>1, <1>2 DEF AnswersRight, OwnNow, OwnIn, SentIn
<1>5. OwnNow'
  BY <1>1, <1>3, <1>4, SameTaken DEF OwnNow, OwnIn
<1>6. Quiet'
  <2>1. ASSUME NEW s \in Socks, fin[s] PROVE ~Owed(s)'
    <3>1. ~Owed(s)
      BY <2>1 DEF AnswersRight, Quiet
    <3>2. QED
      BY <1>1, <1>2, <3>1, StaysQuiet
  <2>2. QED
    BY <1>1, <2>1 DEF Quiet
<1>7. QED
  BY <1>5, <1>6 DEF AnswersRight

LEMMA RightRequests ==
  ASSUME Typed, AnswersRight, Requests
  PROVE  AnswersRight'
<1>1. PICK r \in pending : RequestFails(r) \/ RequestAnswers(r)
  BY DEF Requests
<1>2. /\ UNCHANGED <<sent, fin, fds, next, taken, delivered>> /\ pending' = pending \ {r}
      /\ \/ UNCHANGED send_buffer
         \/ /\ send_buffer[r.element] = <<>>
            /\ send_buffer' = [send_buffer EXCEPT ![r.element] = <<r.frame>>]
  BY <1>1 DEF RequestFails, RequestAnswers, peers, slots, elements, history
<1>3. /\ OwnIn(pending, TakenFrames, send_buffer, delivered, Homes) /\ OneEach(Homes)
      /\ pending \subseteq [frame : Frame, element : 1 .. Elements]
      /\ DOMAIN send_buffer = 1 .. Elements
  BY HomesOneEach DEF AnswersRight, OwnNow, Typed, ElementTypes
<1>4. OwnIn(pending', TakenFrames, send_buffer', delivered, Homes)
  <2>1. CASE UNCHANGED send_buffer
    BY <1>2, <1>3, <2>1, OwnFewer
  <2>2. CASE /\ send_buffer[r.element] = <<>>
             /\ send_buffer' = [send_buffer EXCEPT ![r.element] = <<r.frame>>]
    <3>1. OwnIn(pending \ {r}, TakenFrames, [send_buffer EXCEPT ![r.element] = <<r.frame>>],
                delivered, Homes)
      BY <1>3, <2>2, OwnAnswers
    <3>2. QED
      BY <1>2, <2>2, <3>1
  <2>3. QED
    BY <1>2, <2>1, <2>2
<1>5. OwnNow'
  BY <1>2, <1>4, SameTaken, HomesStay DEF OwnNow
<1>6. \A e \in 1 .. Elements : \A f \in RangeOf(send_buffer'[e]) :
        f \in RangeOf(send_buffer[e]) \/ f = r.frame
  <2>1. RangeOf(<<r.frame>>) = {r.frame}
    BY <1>3, OneInside
  <2>2. \A e \in 1 .. Elements :
          send_buffer'[e] = send_buffer[e] \/ send_buffer'[e] = <<r.frame>>
    BY <1>2, <1>3
  <2>3. QED
    BY <2>1, <2>2
<1>7. Quiet'
  <2>1. ASSUME NEW s \in Socks, fin[s] PROVE ~Owed(s)'
    <3>1. ~Owed(s)
      BY <2>1 DEF AnswersRight, Quiet
    <3>2. r.frame.from # s
      BY <3>1 DEF Owed
    <3>3. QED
      BY <1>2, <1>6, <3>1, <3>2, StaysQuiet
  <2>2. QED
    BY <1>2, <2>1 DEF Quiet
<1>8. QED
  BY <1>5, <1>7 DEF AnswersRight

LEMMA RightPeers ==
  ASSUME Typed, AnswersRight, NEW s \in Socks,
         Connect(s) \/ PeerSends(s) \/ PeerCloses(s), ~hasty'
  PROVE  AnswersRight'
<1>1. /\ UNCHANGED <<fds, next, send_buffer, pending, taken, delivered>>
      /\ sent \in [Socks -> Nat] /\ fin \in [Socks -> BOOLEAN]
  BY DEF Connect, PeerSends, PeerCloses, slots, elements, requests, history, Typed, PeerTypes,
         FlagTypes
<1>2. OwnNow'
  BY <1>1, SameTaken, HomesStay DEF AnswersRight, OwnNow
<1>3. ASSUME NEW t \in Socks, fin'[t] PROVE ~Owed(t)'
  <2>1. ~Owed(t) /\ sent'[t] = sent[t]
    <3>1. CASE Connect(s)
      BY <1>3, <3>1 DEF Connect, AnswersRight, Quiet
    <3>2. CASE PeerSends(s)
      <4>1. fin[t] /\ t # s
        BY <1>3, <3>2 DEF PeerSends
      <4>2. sent'[t] = sent[t]
        BY <1>1, <3>2, <4>1 DEF PeerSends
      <4>3. QED
        BY <4>1, <4>2 DEF AnswersRight, Quiet
    <3>3. CASE PeerCloses(s)
      <4>1. sent' = sent /\ fin' = [fin EXCEPT ![s] = TRUE] /\ ~Owed(s)
        BY <3>3 DEF PeerCloses
      <4>2. t # s => fin[t]
        BY <1>1, <1>3, <4>1
      <4>3. QED
        BY <4>1, <4>2 DEF AnswersRight, Quiet
    <3>4. QED
      BY <3>1, <3>2, <3>3
  <2>2. QED
    BY <1>1, <2>1, StaysQuiet
<1>4. QED
  BY <1>2, <1>3 DEF AnswersRight, Quiet

\* A peer that closed too early stays one.
LEMMA HastyStays == [Next]_vars /\ ~hasty' => ~hasty
BY DEF Next, Server, Requests, Peers, StartRound, VisitListener, VisitServe, VisitClose, VisitCrash,
       RequestFails, RequestAnswers, Connect, PeerSends, PeerCloses, vars, history

LEMMA RightStep ==
  ASSUME Typed, Typed', AllInOrder, AllInOrder', ReadyRight, AnswersRight,
         [Next]_vars, ~mixed', ~hasty'
  PROVE  AnswersRight'
<1>1. CASE StartRound
  BY <1>1, RightUntouched DEF StartRound, peers, slots, elements, requests, history
<1>2. CASE VisitListener
  BY <1>2, RightListener
<1>3. CASE VisitServe
  BY <1>3, RightServe
<1>4. CASE VisitClose
  BY <1>4, RightClose
<1>9. CASE VisitCrash
  BY <1>9, RightCrash
<1>5. CASE Requests
  BY <1>5, RightRequests
<1>6. CASE Peers
  BY <1>6, RightPeers DEF Peers
<1>7. CASE UNCHANGED vars
  BY <1>7, RightUntouched DEF vars, peers, slots, elements, requests, history
<1>8. QED
  BY <1>1, <1>2, <1>3, <1>4, <1>5, <1>6, <1>7, <1>9 DEF Next, Server

Answering == InOrder /\ ReadyRight /\ (~mixed /\ ~hasty => AnswersRight)

LEMMA AnsweringKept == Spec => []Answering
<1>1. Init => Answering
  BY TypedInit, InOrderInit, ReadyInit, RightInit DEF Answering, InOrder
<1>2. Answering /\ [Next]_vars => Answering'
  <2> SUFFICES ASSUME Answering, [Next]_vars PROVE Answering'
    OBVIOUS
  <2>1. Typed /\ Typed' /\ InOrder
    BY TypedStep DEF Answering, InOrder
  <2>2. ~mixed' => AllInOrder /\ AllInOrder'
    BY <2>1, MixedStays, InOrderStep DEF InOrder
  <2>3. InOrder'
    BY <2>1, <2>2 DEF InOrder
  <2>4. ReadyRight'
    BY <2>1, ReadyStep DEF Answering
  <2>5. ASSUME ~mixed', ~hasty' PROVE AnswersRight'
    BY <2>1, <2>2, <2>5, MixedStays, HastyStays, RightStep DEF Answering
  <2>6. QED
    BY <2>3, <2>4, <2>5 DEF Answering
<1>3. QED
  BY <1>1, <1>2, PTL DEF Spec

\* An answer goes to the client that asked for it, at most once, for any number of
\* connections and frames, until bytes are mixed up or a peer leaves early (wifi.c).
THEOREM AnswersGoHome == Spec => []AnswersAreOwn
<1>1. Answering => AnswersAreOwn
  <2> SUFFICES ASSUME Answering, ~mixed, ~hasty, NEW s \in Socks, NEW k \in DOMAIN delivered[s]
               PROVE  /\ delivered[s][k].from = s
                      /\ \A j \in 1 .. k - 1 : delivered[s][j] # delivered[s][k]
    BY DEF AnswersAreOwn
  <2>1. /\ delivered[s] \in Seq(Frame) /\ NoRepeats(delivered[s])
        /\ \A f \in RangeOf(delivered[s]) : f.from = s
    BY DEF Answering, AnswersRight, OwnNow, OwnIn, SentIn
  <2>2. DOMAIN delivered[s] = 1 .. Len(delivered[s]) /\ Len(delivered[s]) \in Nat
    BY <2>1
  <2>3. \A j \in 1 .. k - 1 : j \in DOMAIN delivered[s] /\ j # k
    BY <2>2
  <2>4. QED
    BY <2>1, <2>3 DEF NoRepeats, RangeOf
<1>2. QED
  BY <1>1, AnsweringKept, PTL
=============================================================================
