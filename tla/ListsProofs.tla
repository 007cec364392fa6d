----------------------------- MODULE ListsProofs -----------------------------
EXTENDS Lists, Integers, SequenceTheorems, WellFoundedInduction, TLAPS

\* A set of numbers has a least element.
LEMMA Least ==
  ASSUME NEW T \in SUBSET Nat, T # {}
  PROVE  \E n \in T : \A m \in T : n <= m
<1> DEFINE Less == {r \in Nat \X Nat : r[1] < r[2]}
<1>1. OpToRel(<, Nat) = Less
  BY DEF OpToRel
<1>2. IsWellFoundedOn(Less, Nat)
  BY <1>1, NatLessThanWellFounded
<1> HIDE DEF Less
<1>3. PICK n \in T : \A m \in T : <<m, n>> \notin Less
  BY <1>2, WFMin
<1>4. ASSUME NEW m \in T PROVE n <= m
  <2>1. m \in Nat /\ n \in Nat
    OBVIOUS
  <2>2. <<m, n>> \in Nat \X Nat /\ <<m, n>>[1] = m /\ <<m, n>>[2] = n
    BY <2>1
  <2>3. ~(m < n)
    BY <1>3, <2>2 DEF Less
  <2>4. QED
    BY <2>1, <2>3
<1>5. QED
  BY <1>4

\* What the recursion of Kept means, up to n.
IsUpto(f, list, keep, n) ==
  f = [k \in 0 .. n |-> IF k = 0 THEN <<>>
                        ELSE IF k \in keep THEN Append(f[k - 1], list[k]) ELSE f[k - 1]]

LEMMA KeptIs ==
  ASSUME NEW list, NEW keep
  PROVE  Kept(list, keep) = (CHOOSE f : IsUpto(f, list, keep, Len(list)))[Len(list)]
BY DEF Kept, IsUpto

LEMMA UptoExists ==
  ASSUME NEW list, NEW keep, NEW n \in Nat
  PROVE  \E f : IsUpto(f, list, keep, n)
<1> DEFINE T == {m \in Nat : ~\E f : IsUpto(f, list, keep, m)}
<1>1. SUFFICES ASSUME T # {} PROVE FALSE
  OBVIOUS
<1>2. PICK m \in T : \A l \in T : m <= l
  BY <1>1, Least
<1>3. CASE m = 0
  <2>1. IsUpto([k \in 0 .. 0 |-> <<>>], list, keep, 0)
    BY DEF IsUpto
  <2>2. QED
    BY <1>3, <2>1
<1>4. CASE m # 0
  <2>1. m - 1 \in Nat /\ ~(m <= m - 1)
    BY <1>4
  <2>2. PICK g : IsUpto(g, list, keep, m - 1)
    BY <1>2, <2>1
  <2> DEFINE f == [k \in 0 .. m |->
                     IF k = m THEN IF k \in keep THEN Append(g[k - 1], list[k]) ELSE g[k - 1]
                     ELSE g[k]]
  <2>3. /\ \A k \in 0 .. m - 1 : f[k] = g[k]
        /\ \A k \in 0 .. m - 1 :
             g[k] = IF k = 0 THEN <<>>
                    ELSE IF k \in keep THEN Append(g[k - 1], list[k]) ELSE g[k - 1]
        /\ f[m] = IF m \in keep THEN Append(g[m - 1], list[m]) ELSE g[m - 1]
    <3>1. g = [k \in 0 .. m - 1 |->
                 IF k = 0 THEN <<>>
                 ELSE IF k \in keep THEN Append(g[k - 1], list[k]) ELSE g[k - 1]]
      BY <2>2 DEF IsUpto
    <3>2. \A k \in 0 .. m - 1 :
            g[k] = IF k = 0 THEN <<>>
                   ELSE IF k \in keep THEN Append(g[k - 1], list[k]) ELSE g[k - 1]
      BY <3>1
    <3>3. /\ \A k \in 0 .. m - 1 : f[k] = g[k]
          /\ f[m] = IF m \in keep THEN Append(g[m - 1], list[m]) ELSE g[m - 1]
      BY <2>1
    <3>4. QED
      BY <3>2, <3>3
  <2>4. f = [k \in 0 .. m |-> f[k]]
    OBVIOUS
  <2> HIDE DEF f
  <2>5. ASSUME NEW k \in 0 .. m
        PROVE  f[k] = IF k = 0 THEN <<>>
                      ELSE IF k \in keep THEN Append(f[k - 1], list[k]) ELSE f[k - 1]
    <3>1. CASE k = 0
      BY <2>1, <2>3, <3>1, <1>4
    <3>2. CASE k \in 1 .. m - 1
      <4>1. f[k] = g[k] /\ f[k - 1] = g[k - 1] /\ k # 0 /\ k \in 0 .. m - 1
        BY <2>1, <2>3, <3>2
      <4>2. QED
        BY <2>3, <4>1
    <3>3. CASE k = m
      <4>1. f[m - 1] = g[m - 1]
        BY <2>1, <2>3
      <4>2. QED
        BY <1>4, <2>3, <3>3, <4>1
    <3>4. QED
      BY <2>1, <3>1, <3>2, <3>3
  <2>6. IsUpto(f, list, keep, m)
    BY <2>4, <2>5 DEF IsUpto
  <2>7. QED
    BY <2>6
<1>5. QED
  BY <1>3, <1>4

\* What a sequence holds, and what one more element adds.
NodesOf(s) == {s[i] : i \in DOMAIN s}

LEMMA NodesOfAppend ==
  ASSUME NEW E, NEW s \in Seq(E), NEW e \in E
  PROVE  /\ Append(s, e) \in Seq(E) /\ Len(Append(s, e)) = Len(s) + 1
         /\ NodesOf(Append(s, e)) = NodesOf(s) \cup {e}
<1>1. /\ DOMAIN s = 1 .. Len(s) /\ Len(s) \in Nat
      /\ DOMAIN Append(s, e) = 1 .. Len(s) + 1
      /\ Append(s, e)[Len(s) + 1] = e
      /\ \A i \in 1 .. Len(s) : Append(s, e)[i] = s[i]
  OBVIOUS
<1>2. 1 .. Len(s) + 1 = (1 .. Len(s)) \cup {Len(s) + 1}
  BY <1>1
<1>3. NodesOf(Append(s, e)) \subseteq NodesOf(s) \cup {e}
  BY <1>1, <1>2 DEF NodesOf
<1>4. NodesOf(s) \cup {e} \subseteq NodesOf(Append(s, e))
  BY <1>1, <1>2 DEF NodesOf
<1>5. QED
  BY <1>3, <1>4

LEMMA NodesIn ==
  ASSUME NEW E, NEW s \in Seq(E)
  PROVE  NodesOf(s) \in SUBSET E
<1>1. \A i \in 1 .. Len(s) : s[i] \in E
  OBVIOUS
<1>2. DOMAIN s = 1 .. Len(s)
  OBVIOUS
<1>3. QED
  BY <1>1, <1>2 DEF NodesOf

LEMMA NodesOfTail ==
  ASSUME NEW E, NEW s \in Seq(E), s # <<>>
  PROVE  Head(s) \in NodesOf(s) /\ NodesOf(Tail(s)) \in SUBSET NodesOf(s)
<1>1. /\ DOMAIN s = 1 .. Len(s) /\ Len(s) \in Nat \ {0} /\ Head(s) = s[1]
      /\ DOMAIN Tail(s) = 1 .. Len(s) - 1
      /\ \A i \in 1 .. Len(s) - 1 : Tail(s)[i] = s[i + 1]
  OBVIOUS
<1>2. /\ 1 \in DOMAIN s
      /\ \A i \in DOMAIN Tail(s) : i + 1 \in DOMAIN s /\ Tail(s)[i] = s[i + 1]
  BY <1>1
<1>3. QED
  BY <1>1, <1>2 DEF NodesOf

LEMMA NodesOfConcat ==
  ASSUME NEW E, NEW s \in Seq(E), NEW t \in Seq(E)
  PROVE  NodesOf(s \o t) \in SUBSET (NodesOf(s) \cup NodesOf(t))
<1>1. /\ DOMAIN s = 1 .. Len(s) /\ Len(s) \in Nat
      /\ DOMAIN t = 1 .. Len(t) /\ Len(t) \in Nat
      /\ s \o t \in Seq(E) /\ Len(s \o t) = Len(s) + Len(t)
      /\ \A i \in 1 .. Len(s) + Len(t) :
           (s \o t)[i] = IF i <= Len(s) THEN s[i] ELSE t[i - Len(s)]
  BY ConcatProperties
<1>2. SUFFICES ASSUME NEW i \in 1 .. Len(s) + Len(t)
               PROVE  (s \o t)[i] \in NodesOf(s) \cup NodesOf(t)
  <2>1. DOMAIN (s \o t) = 1 .. Len(s) + Len(t)
    BY <1>1
  <2>2. QED
    BY <2>1 DEF NodesOf
<1>3. CASE i <= Len(s)
  BY <1>1, <1>3 DEF NodesOf
<1>4. CASE ~(i <= Len(s))
  <2>1. i - Len(s) \in DOMAIN t
    BY <1>1, <1>4
  <2>2. QED
    BY <1>1, <1>4, <2>1 DEF NodesOf
<1>5. QED
  BY <1>3, <1>4

LEMMA NothingInIt == ASSUME NEW E PROVE <<>> \in Seq(E) /\ Len(<<>>) = 0
OBVIOUS

LEMMA NodesOfEmpty == NodesOf(<<>>) = {}
BY DEF NodesOf

\* A queue that is left alone, emptied or read from; one that is perhaps written to.
LEMMA Shortened ==
  ASSUME NEW E, NEW s \in Seq(E), NEW new, new \in {s, <<>>} \/ (s # <<>> /\ new = Tail(s))
  PROVE  new \in Seq(E) /\ NodesOf(new) \in SUBSET NodesOf(s)
<1>1. CASE new = s
  BY <1>1
<1>2. CASE new = <<>>
  BY <1>2, NothingInIt, NodesOfEmpty
<1>3. CASE s # <<>> /\ new = Tail(s)
  <2>1. Tail(s) \in Seq(E)
    BY <1>3
  <2>2. QED
    BY <1>3, <2>1, NodesOfTail
<1>4. QED
  BY <1>1, <1>2, <1>3

LEMMA Appended ==
  ASSUME NEW E, NEW s \in Seq(E), NEW e \in E, NEW new, new = Append(s, e) \/ new = s
  PROVE  new \in Seq(E) /\ NodesOf(new) \in SUBSET (NodesOf(s) \cup {e})
<1>1. Append(s, e) \in Seq(E) /\ NodesOf(Append(s, e)) = NodesOf(s) \cup {e}
  BY NodesOfAppend
<1>2. QED
  BY <1>1

\* What Kept returns: nodes of the list, all those at the positions kept and no
\* others, not more than there were, and as many if all are kept.
Selects(s, E, list, keep, n) ==
  /\ s \in Seq(E) /\ Len(s) <= n
  /\ NodesOf(s) = {list[k] : k \in keep \cap 1 .. n}
  /\ 1 .. n \subseteq keep => Len(s) = n

LEMMA SelectsNext ==
  ASSUME NEW E, NEW list \in Seq(E), NEW keep, NEW n \in Nat \ {0}, n <= Len(list),
         NEW s, Selects(s, E, list, keep, n - 1)
  PROVE  Selects(IF n \in keep THEN Append(s, list[n]) ELSE s, E, list, keep, n)
<1>1. n \in 1 .. Len(list) /\ list[n] \in E
  OBVIOUS
<1>2. 1 .. n = (1 .. n - 1) \cup {n}
  OBVIOUS
<1>3. /\ s \in Seq(E) /\ Len(s) <= n - 1 /\ NodesOf(s) = {list[k] : k \in keep \cap 1 .. n - 1}
      /\ 1 .. n - 1 \subseteq keep => Len(s) = n - 1
  BY DEF Selects
<1>4. CASE n \in keep
  <2>1. {list[k] : k \in keep \cap 1 .. n} = NodesOf(s) \cup {list[n]}
    BY <1>2, <1>3, <1>4
  <2>2. /\ Append(s, list[n]) \in Seq(E) /\ Len(Append(s, list[n])) = Len(s) + 1
        /\ NodesOf(Append(s, list[n])) = NodesOf(s) \cup {list[n]}
    BY <1>1, <1>3, NodesOfAppend
  <2>3. Len(s) + 1 <= n /\ (1 .. n \subseteq keep => Len(s) + 1 = n)
    BY <1>2, <1>3
  <2>4. QED
    BY <1>4, <2>1, <2>2, <2>3 DEF Selects
<1>5. CASE n \notin keep
  <2>1. {list[k] : k \in keep \cap 1 .. n} = NodesOf(s)
    BY <1>2, <1>3, <1>5
  <2>2. Len(s) <= n /\ ~(1 .. n \subseteq keep)
    BY <1>2, <1>3, <1>5
  <2>3. QED
    BY <1>3, <1>5, <2>1, <2>2 DEF Selects
<1>6. QED
  BY <1>4, <1>5

THEOREM KeptNodes ==
  ASSUME NEW E, NEW list \in Seq(E), NEW keep
  PROVE  /\ Kept(list, keep) \in Seq(E)
         /\ Len(Kept(list, keep)) <= Len(list)
         /\ {Kept(list, keep)[i] : i \in DOMAIN Kept(list, keep)}
              = {list[k] : k \in keep \cap DOMAIN list}
         /\ DOMAIN list \subseteq keep => Len(Kept(list, keep)) = Len(list)
<1>1. Len(list) \in Nat /\ DOMAIN list = 1 .. Len(list)
  OBVIOUS
<1>2. PICK f : IsUpto(f, list, keep, Len(list)) /\ Kept(list, keep) = f[Len(list)]
  BY <1>1, UptoExists, KeptIs
<1>3. \A k \in 0 .. Len(list) :
        f[k] = IF k = 0 THEN <<>>
               ELSE IF k \in keep THEN Append(f[k - 1], list[k]) ELSE f[k - 1]
  <2>1. f = [k \in 0 .. Len(list) |->
               IF k = 0 THEN <<>>
               ELSE IF k \in keep THEN Append(f[k - 1], list[k]) ELSE f[k - 1]]
    BY <1>2 DEF IsUpto
  <2>2. QED
    BY <2>1
<1> DEFINE T == {n \in 0 .. Len(list) : ~Selects(f[n], E, list, keep, n)}
<1>4. SUFFICES ASSUME T # {} PROVE FALSE
  <2>1. CASE T = {}
    <3>1. Selects(f[Len(list)], E, list, keep, Len(list))
      BY <1>1, <2>1
    <3>2. QED
      BY <1>1, <1>2, <3>1 DEF Selects, NodesOf
  <2>2. QED
    BY <2>1
<1>5. PICK n \in T : \A m \in T : n <= m
  <2>1. T \in SUBSET Nat
    BY <1>1
  <2>2. QED
    BY <1>4, <2>1, Least
<1>6. n \in 0 .. Len(list) /\ ~Selects(f[n], E, list, keep, n)
  OBVIOUS
<1>7. CASE n = 0
  <2>1. f[0] = <<>>
    BY <1>1, <1>3
  <2>2. Selects(<<>>, E, list, keep, 0)
    BY DEF Selects, NodesOf
  <2>3. QED
    BY <1>6, <1>7, <2>1, <2>2
<1>8. CASE n # 0
  <2>1. n - 1 \in 0 .. Len(list) /\ n \in Nat \ {0} /\ n <= Len(list) /\ ~(n <= n - 1)
    BY <1>1, <1>6, <1>8
  <2>2. Selects(f[n - 1], E, list, keep, n - 1)
    BY <1>5, <2>1
  <2>3. f[n] = IF n \in keep THEN Append(f[n - 1], list[n]) ELSE f[n - 1]
    BY <1>3, <1>6, <1>8
  <2>4. QED
    BY <1>6, <2>1, <2>2, <2>3, SelectsNext
<1>9. QED
  BY <1>7, <1>8

\* Where the nodes that Kept returns were: each at a place of its own, in the order
\* of the list.
Places(s, pos, list, keep, n) ==
  /\ s \in Seq(NodesOf(list))
  /\ pos \in [DOMAIN s -> keep \cap 1 .. n]
  /\ \A i \in DOMAIN s : s[i] = list[pos[i]]
  /\ \A i, j \in DOMAIN s : i < j => pos[i] < pos[j]

LEMMA PlacesNext ==
  ASSUME NEW E, NEW list \in Seq(E), NEW keep, NEW n \in Nat \ {0}, n <= Len(list),
         NEW s, NEW pos, Places(s, pos, list, keep, n - 1)
  PROVE  \E q : Places(IF n \in keep THEN Append(s, list[n]) ELSE s, q, list, keep, n)
<1>1. /\ s \in Seq(NodesOf(list)) /\ Len(s) \in Nat /\ DOMAIN s = 1 .. Len(s)
      /\ pos \in [DOMAIN s -> keep \cap 1 .. n - 1]
      /\ \A i \in DOMAIN s : s[i] = list[pos[i]]
      /\ \A i, j \in DOMAIN s : i < j => pos[i] < pos[j]
  BY DEF Places
<1>2. 1 .. n - 1 \subseteq 1 .. n
  OBVIOUS
<1>3. CASE n \in keep
  <2> DEFINE t == Append(s, list[n])
             q == [i \in DOMAIN t |-> IF i = Len(s) + 1 THEN n ELSE pos[i]]
  <2>1. list[n] \in NodesOf(list)
    BY DEF NodesOf
  <2>2. /\ t \in Seq(NodesOf(list)) /\ DOMAIN t = 1 .. Len(s) + 1
        /\ t[Len(s) + 1] = list[n]
        /\ \A i \in DOMAIN s : t[i] = s[i]
    BY <1>1, <2>1
  <2>3. \A i \in DOMAIN t : i # Len(s) + 1 => i \in DOMAIN s
    BY <1>1, <2>2
  <2>4. /\ \A i \in DOMAIN s : i \in DOMAIN t /\ q[i] = pos[i]
        /\ Len(s) + 1 \in DOMAIN t /\ q[Len(s) + 1] = n
    BY <1>1, <2>2
  <2> HIDE DEF t
  <2>5. q \in [DOMAIN t -> keep \cap 1 .. n]
    BY <1>1, <1>2, <1>3, <2>3
  <2> HIDE DEF q
  <2>6. \A i \in DOMAIN t : t[i] = list[q[i]]
    BY <1>1, <2>2, <2>3, <2>4
  <2>7. ASSUME NEW i \in DOMAIN t, NEW j \in DOMAIN t, i < j PROVE q[i] < q[j]
    <3>1. i # Len(s) + 1
      BY <1>1, <2>2, <2>7
    <3>2. i \in DOMAIN s /\ q[i] = pos[i] /\ pos[i] \in 1 .. n - 1
      BY <1>1, <2>3, <2>4, <3>1
    <3>3. CASE j = Len(s) + 1
      BY <2>4, <3>2, <3>3
    <3>4. CASE j # Len(s) + 1
      BY <1>1, <2>3, <2>4, <2>7, <3>2, <3>4
    <3>5. QED
      BY <3>3, <3>4
  <2>8. Places(t, q, list, keep, n)
    BY <2>2, <2>5, <2>6, <2>7 DEF Places
  <2>9. QED
    BY <1>3, <2>8 DEF t
<1>4. CASE n \notin keep
  <2>1. pos \in [DOMAIN s -> keep \cap 1 .. n]
    BY <1>1, <1>2
  <2>2. Places(s, pos, list, keep, n)
    BY <1>1, <2>1 DEF Places
  <2>3. QED
    BY <1>4, <2>2
<1>5. QED
  BY <1>3, <1>4

\* list_remove takes nodes out and leaves the others in their order.
THEOREM KeptInOrder ==
  ASSUME NEW E, NEW list \in Seq(E), NEW keep
  PROVE  \E pos \in [DOMAIN Kept(list, keep) -> keep \cap DOMAIN list] :
           /\ \A i \in DOMAIN Kept(list, keep) : Kept(list, keep)[i] = list[pos[i]]
           /\ \A i, j \in DOMAIN Kept(list, keep) : i < j => pos[i] < pos[j]
<1>1. Len(list) \in Nat /\ DOMAIN list = 1 .. Len(list)
  OBVIOUS
<1>2. PICK f : IsUpto(f, list, keep, Len(list)) /\ Kept(list, keep) = f[Len(list)]
  BY <1>1, UptoExists, KeptIs
<1>3. \A k \in 0 .. Len(list) :
        f[k] = IF k = 0 THEN <<>>
               ELSE IF k \in keep THEN Append(f[k - 1], list[k]) ELSE f[k - 1]
  <2>1. f = [k \in 0 .. Len(list) |->
               IF k = 0 THEN <<>>
               ELSE IF k \in keep THEN Append(f[k - 1], list[k]) ELSE f[k - 1]]
    BY <1>2 DEF IsUpto
  <2>2. QED
    BY <2>1
<1> DEFINE T == {n \in 0 .. Len(list) : ~\E pos : Places(f[n], pos, list, keep, n)}
<1>4. T = {}
  <2>1. SUFFICES ASSUME T # {} PROVE FALSE
    OBVIOUS
  <2>2. PICK n \in T : \A m \in T : n <= m
    <3>1. T \in SUBSET Nat
      BY <1>1
    <3>2. QED
      BY <2>1, <3>1, Least
  <2>3. n \in 0 .. Len(list) /\ ~\E pos : Places(f[n], pos, list, keep, n)
    OBVIOUS
  <2>4. CASE n = 0
    <3>1. f[0] = <<>>
      BY <1>1, <1>3
    <3>2. Places(<<>>, <<>>, list, keep, 0)
      BY DEF Places
    <3>3. QED
      BY <2>3, <2>4, <3>1, <3>2
  <2>5. CASE n # 0
    <3>1. n - 1 \in 0 .. Len(list) /\ n \in Nat \ {0} /\ n <= Len(list) /\ ~(n <= n - 1)
      BY <1>1, <2>3, <2>5
    <3>2. PICK pos : Places(f[n - 1], pos, list, keep, n - 1)
      BY <2>2, <3>1
    <3>3. f[n] = IF n \in keep THEN Append(f[n - 1], list[n]) ELSE f[n - 1]
      BY <1>3, <2>3, <2>5
    <3>4. \E q : Places(f[n], q, list, keep, n)
      BY <3>1, <3>2, <3>3, PlacesNext
    <3>5. QED
      BY <2>3, <3>4
  <2>6. QED
    BY <2>4, <2>5
<1>5. \E pos : Places(Kept(list, keep), pos, list, keep, Len(list))
  BY <1>1, <1>2, <1>4
<1>6. QED
  BY <1>1, <1>5 DEF Places

-----------------------------------------------------------------------------
(* Sequences one behind the other                                          *)

\* What the recursion of Joined means, up to n.
IsJoining(f, parts, n) ==
  f = [k \in 0 .. n |-> IF k = 0 THEN <<>> ELSE f[k - 1] \o parts[k]]

LEMMA JoinedIs ==
  ASSUME NEW parts
  PROVE  Joined(parts) = (CHOOSE f : IsJoining(f, parts, Len(parts)))[Len(parts)]
BY DEF Joined, IsJoining

LEMMA JoiningStep ==
  ASSUME NEW f, NEW parts, NEW n, IsJoining(f, parts, n)
  PROVE  \A k \in 0 .. n : f[k] = IF k = 0 THEN <<>> ELSE f[k - 1] \o parts[k]
<1>1. f = [k \in 0 .. n |-> IF k = 0 THEN <<>> ELSE f[k - 1] \o parts[k]]
  BY DEF IsJoining
<1>2. QED
  BY <1>1

LEMMA JoiningExists ==
  ASSUME NEW parts, NEW n \in Nat
  PROVE  \E f : IsJoining(f, parts, n)
<1> DEFINE T == {m \in Nat : ~\E f : IsJoining(f, parts, m)}
<1>1. SUFFICES ASSUME T # {} PROVE FALSE
  OBVIOUS
<1>2. PICK m \in T : \A l \in T : m <= l
  BY <1>1, Least
<1>3. CASE m = 0
  <2>1. IsJoining([k \in 0 .. 0 |-> <<>>], parts, 0)
    BY DEF IsJoining
  <2>2. QED
    BY <1>3, <2>1
<1>4. CASE m # 0
  <2>1. m - 1 \in Nat /\ ~(m <= m - 1)
    BY <1>4
  <2>2. PICK g : IsJoining(g, parts, m - 1)
    BY <1>2, <2>1
  <2> DEFINE f == [k \in 0 .. m |-> IF k = m THEN g[k - 1] \o parts[k] ELSE g[k]]
  <2>3. /\ \A k \in 0 .. m - 1 : f[k] = g[k]
        /\ f[m] = g[m - 1] \o parts[m]
    <3>1. \A k \in 0 .. m : f[k] = IF k = m THEN g[k - 1] \o parts[k] ELSE g[k]
      OBVIOUS
    <3>2. m \in 0 .. m /\ \A k \in 0 .. m - 1 : k \in 0 .. m /\ k # m
      BY <2>1
    <3>3. QED
      BY <3>1, <3>2
  <2>8. \A k \in 0 .. m - 1 : g[k] = IF k = 0 THEN <<>> ELSE g[k - 1] \o parts[k]
    BY <2>2, JoiningStep
  <2>4. f = [k \in 0 .. m |-> f[k]]
    OBVIOUS
  <2> HIDE DEF f
  <2>5. ASSUME NEW k \in 0 .. m
        PROVE  f[k] = IF k = 0 THEN <<>> ELSE f[k - 1] \o parts[k]
    <3>1. CASE k = 0
      BY <2>1, <2>3, <2>8, <3>1
    <3>2. CASE k \in 1 .. m - 1
      <4>1. f[k] = g[k] /\ f[k - 1] = g[k - 1] /\ k # 0 /\ k \in 0 .. m - 1
        BY <2>1, <2>3, <3>2
      <4>2. QED
        BY <2>8, <4>1
    <3>3. CASE k = m
      <4>1. f[m - 1] = g[m - 1]
        BY <2>1, <2>3
      <4>2. QED
        BY <1>4, <2>3, <3>3, <4>1
    <3>4. QED
      BY <2>1, <3>1, <3>2, <3>3
  <2>6. IsJoining(f, parts, m)
    BY <2>4, <2>5 DEF IsJoining
  <2>7. QED
    BY <2>6
<1>5. QED
  BY <1>3, <1>4

\* The recursion gives sequences, and the same ones where the parts are the same.
SameParts(E, p, q, n) == \A k \in 1 .. n : p[k] \in Seq(E) /\ q[k] = p[k]

LEMMA JoiningAgree ==
  ASSUME NEW E, NEW n \in Nat, NEW m \in Nat, n <= m, NEW p, NEW q, SameParts(E, p, q, n),
         NEW f, IsJoining(f, p, n), NEW g, IsJoining(g, q, m)
  PROVE  \A k \in 0 .. n : f[k] \in Seq(E) /\ g[k] = f[k]
<1> DEFINE T == {k \in Nat : k <= n /\ ~(f[k] \in Seq(E) /\ g[k] = f[k])}
<1>1. SUFFICES ASSUME T # {} PROVE FALSE
  OBVIOUS
<1>2. PICK k \in T : \A l \in T : k <= l
  BY <1>1, Least
<1>3. /\ k \in Nat /\ k \in 0 .. n /\ k \in 0 .. m
      /\ f[k] = IF k = 0 THEN <<>> ELSE f[k - 1] \o p[k]
      /\ g[k] = IF k = 0 THEN <<>> ELSE g[k - 1] \o q[k]
  <2>1. k \in 0 .. n /\ k \in 0 .. m
    OBVIOUS
  <2>2. QED
    BY <2>1, JoiningStep
<1>4. CASE k = 0
  <2>1. <<>> \in Seq(E)
    OBVIOUS
  <2>2. QED
    BY <1>3, <1>4, <2>1
<1>5. CASE k # 0
  <2>1. k - 1 \in Nat /\ k - 1 <= n /\ ~(k <= k - 1) /\ k \in 1 .. n
    BY <1>3, <1>5
  <2>2. f[k - 1] \in Seq(E) /\ g[k - 1] = f[k - 1]
    BY <1>2, <2>1
  <2>3. p[k] \in Seq(E) /\ q[k] = p[k]
    BY <2>1 DEF SameParts
  <2>4. f[k - 1] \o p[k] \in Seq(E)
    BY <2>2, <2>3, ConcatProperties
  <2>5. QED
    BY <1>3, <1>5, <2>2, <2>3, <2>4
<1>6. QED
  BY <1>4, <1>5

LEMMA JoinedEmpty == Joined(<<>>) = <<>>
<1>1. Len(<<>>) = 0
  OBVIOUS
<1>2. PICK f : IsJoining(f, <<>>, 0) /\ Joined(<<>>) = f[0]
  BY <1>1, JoinedIs, JoiningExists
<1>3. QED
  BY <1>2, JoiningStep

LEMMA JoinedAppend ==
  ASSUME NEW E, NEW parts \in Seq(Seq(E)), NEW x \in Seq(E)
  PROVE  Joined(parts) \in Seq(E) /\ Joined(Append(parts, x)) = Joined(parts) \o x
<1>1. /\ Len(parts) \in Nat /\ Len(Append(parts, x)) = Len(parts) + 1
      /\ \A k \in 1 .. Len(parts) : parts[k] \in Seq(E) /\ Append(parts, x)[k] = parts[k]
      /\ Append(parts, x)[Len(parts) + 1] = x
  OBVIOUS
<1>2. PICK n \in Nat : n = Len(parts)
  BY <1>1
<1>3. PICK p : p = Append(parts, x)
  OBVIOUS
<1>4. PICK f : IsJoining(f, parts, n) /\ Joined(parts) = f[n]
  BY <1>2, JoinedIs, JoiningExists
<1>5. PICK g : IsJoining(g, p, n + 1) /\ Joined(p) = g[n + 1]
  <2>1. Len(p) = n + 1 /\ n + 1 \in Nat
    BY <1>1, <1>2, <1>3
  <2>2. QED
    BY <2>1, JoinedIs, JoiningExists
<1>6. n \in 0 .. n /\ n + 1 \in 0 .. n + 1 /\ n + 1 # 0 /\ (n + 1) - 1 = n /\ n <= n + 1 /\ n + 1 \in Nat
  OBVIOUS
<1>7. f[n] \in Seq(E) /\ g[n] = f[n]
  <2>1. SameParts(E, parts, p, n)
    BY <1>1, <1>2, <1>3 DEF SameParts
  <2>2. IsJoining(f, parts, n) /\ IsJoining(g, p, n + 1)
    BY <1>4, <1>5
  <2>3. \A k \in 0 .. n : f[k] \in Seq(E) /\ g[k] = f[k]
    BY ONLY <1>2, <1>6, <2>1, <2>2, JoiningAgree
  <2>4. QED
    BY <1>6, <2>3
<1>8. g[n + 1] = g[n] \o x
  <2>1. g[n + 1] = g[(n + 1) - 1] \o p[n + 1]
    <3>1. \A k \in 0 .. n + 1 : g[k] = IF k = 0 THEN <<>> ELSE g[k - 1] \o p[k]
      BY <1>5, JoiningStep
    <3>2. QED
      BY <1>6, <3>1
  <2>2. p[n + 1] = x
    BY <1>1, <1>2, <1>3
  <2>3. QED
    BY <1>6, <2>1, <2>2
<1>9. QED
  BY <1>3, <1>4, <1>5, <1>7, <1>8

Regroup(a, b, c) == (a \o b) \o c = a \o (b \o c)

LEMMA Regrouped ==
  ASSUME NEW E, NEW a \in Seq(E), NEW b \in Seq(E), NEW c \in Seq(E)
  PROVE  Regroup(a, b, c)
BY DEF Regroup

\* The first part comes first.
LEMMA JoinedHead ==
  ASSUME NEW E, NEW parts \in Seq(Seq(E)), parts # <<>>
  PROVE  Joined(parts) = Head(parts) \o Joined(Tail(parts))
<1> DEFINE T == {n \in Nat : \E p \in Seq(Seq(E)) :
                   Len(p) = n /\ p # <<>> /\ Joined(p) # Head(p) \o Joined(Tail(p))}
<1> SUFFICES ASSUME Joined(parts) # Head(parts) \o Joined(Tail(parts)) PROVE FALSE
  OBVIOUS
<1>1. Len(parts) \in T
  <2>1. Len(parts) \in Nat
    OBVIOUS
  <2>2. QED
    BY <2>1
<1>2. PICK n \in T : \A l \in T : n <= l
  BY <1>1, Least
<1>3. PICK p \in Seq(Seq(E)) : Len(p) = n /\ p # <<>> /\ Joined(p) # Head(p) \o Joined(Tail(p))
  OBVIOUS
<1>4. PICK front \in Seq(Seq(E)), x \in Seq(E) : p = Append(front, x)
  BY <1>3, SequenceEmptyOrAppend
<1>5. Joined(front) \in Seq(E) /\ Joined(p) = Joined(front) \o x
  BY <1>4, JoinedAppend
<1>6. Len(front) \in Nat /\ n = Len(front) + 1
  BY <1>3, <1>4
<1>7. CASE front = <<>>
  <2>1. Head(p) = x /\ Tail(p) = <<>>
    BY <1>4, <1>7, HeadTailAppend
  <2>2. Joined(p) = <<>> \o x /\ Head(p) \o Joined(Tail(p)) = x \o <<>>
    BY <1>5, <1>7, <2>1, JoinedEmpty
  <2>3. <<>> \o x = x /\ x \o <<>> = x
    BY ConcatEmptySeq
  <2>4. QED
    BY <1>3, <2>2, <2>3
<1>8. CASE front # <<>>
  <2>1. ~(n <= Len(front))
    BY <1>6
  <2>2. Joined(front) = Head(front) \o Joined(Tail(front))
    <3>1. Len(front) \notin T
      BY <1>2, <2>1
    <3>2. QED
      BY <1>6, <1>8, <3>1
  <2>3. /\ Head(front) \in Seq(E) /\ Tail(front) \in Seq(Seq(E))
        /\ Head(p) = Head(front) /\ Tail(p) = Append(Tail(front), x)
    BY <1>4, <1>8, HeadTailAppend, HeadTailProperties
  <2>4. /\ Joined(Tail(front)) \in Seq(E)
        /\ Joined(Tail(p)) = Joined(Tail(front)) \o x
    BY <2>3, JoinedAppend
  <2>5. (Head(front) \o Joined(Tail(front))) \o x = Head(front) \o (Joined(Tail(front)) \o x)
    <3>2. Head(front) \in Seq(E) /\ Joined(Tail(front)) \in Seq(E) /\ x \in Seq(E)
      BY <1>4, <2>3, <2>4
    <3>3. QED
      <4>1. Regroup(Head(front), Joined(Tail(front)), x)
        BY ONLY <3>2, Regrouped
      <4>2. QED
        BY <4>1 DEF Regroup
  <2>6. QED
    BY <1>3, <1>5, <2>2, <2>3, <2>4, <2>5
<1>9. QED
  BY <1>7, <1>8

\* What the elements of two sequences, one behind the other, are.
LEMMA BehindIs ==
  ASSUME NEW E, NEW s \in Seq(E), NEW t \in Seq(E)
  PROVE  /\ s \o t \in Seq(E) /\ Len(s \o t) = Len(s) + Len(t)
         /\ \A k \in 1 .. Len(s) : (s \o t)[k] = s[k]
         /\ \A k \in 1 .. Len(t) : (s \o t)[Len(s) + k] = t[k]
<1> DEFINE u == s \o t
<1>1. /\ u \in Seq(E) /\ Len(u) = Len(s) + Len(t) /\ Len(t) \in Nat /\ Len(s) \in Nat
      /\ \A k \in 1 .. Len(s) + Len(t) : u[k] = IF k <= Len(s) THEN s[k] ELSE t[k - Len(s)]
  BY ConcatProperties
<1> HIDE DEF u
<1>2. ASSUME NEW k \in 1 .. Len(s) PROVE u[k] = s[k]
  <2>1. k \in 1 .. Len(s) + Len(t) /\ k <= Len(s)
    BY <1>1
  <2>2. QED
    BY <1>1, <2>1
<1>3. ASSUME NEW k \in 1 .. Len(t) PROVE u[Len(s) + k] = t[k]
  <2>1. /\ Len(s) + k \in 1 .. Len(s) + Len(t) /\ ~(Len(s) + k <= Len(s))
        /\ (Len(s) + k) - Len(s) = k
    BY <1>1
  <2>2. QED
    BY <1>1, <2>1
<1>4. QED
  BY <1>1, <1>2, <1>3 DEF u
=============================================================================
