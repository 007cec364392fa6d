--------------------------- MODULE TcpFramesProofs ---------------------------
(***************************************************************************)
(* What the program does with the bytes of a client, for an array of any   *)
(* size that holds an empty frame (256 cells in the program, 12 in the     *)
(* runs of TcpFrames), any frames, any number of them on a connection and  *)
(* any number of connections.                                              *)
(*                                                                         *)
(* First the operations on the buffer; then sequences that are joined, and *)
(* the bytes of a frame; then what the parser finds when a frame has       *)
(* arrived; last the inductive invariant.                                  *)
(***************************************************************************)
EXTENDS TcpFrames, ListsProofs

-----------------------------------------------------------------------------
(* The buffer                                                              *)

\* Of what is held, in terms of the array.
LEMMA HeldIs ==
  ASSUME NEW rb \in RingBuffers, NEW r, NEW w, rb.pos_read = r, rb.pos_write = w, r <= w
  PROVE  /\ Held(rb) \in Seq(Byte)
         /\ Len(Held(rb)) = w - r
         /\ \A k \in 1 .. w - r : Held(rb)[k] = rb.buffer[r + k - 1]
<1>1. /\ r \in 0 .. Last /\ w \in 0 .. Last
      /\ rb.buffer \in [0 .. Last -> Byte] /\ Last \in Nat
  BY RingBufferAssumption DEF RingBuffers
<1>2. \A k \in 1 .. w - r : At(rb, k - 1) = rb.buffer[r + k - 1] /\ At(rb, k - 1) \in Byte
  BY <1>1 DEF At
<1>3. w - r \in Nat
  BY <1>1
<1>4. QED
  BY <1>2, <1>3 DEF Held

\* A number below the modulus is its own remainder.
LEMMA SmallMod ==
  ASSUME NEW a \in Nat, NEW b \in Nat, a < b
  PROVE  a % b = a
OBVIOUS

\* so_client_write of bytes that fit puts them behind what is held and keeps the
\* positions in the range of a uint8_t.
THEOREM WriteAppends ==
  ASSUME NEW rb \in RingBuffers, NEW bytes \in Seq(Byte),
         rb.pos_read <= rb.pos_write, Fits(rb, Len(bytes))
  PROVE  /\ Write(rb, bytes) \in RingBuffers
         /\ Write(rb, bytes).pos_read <= Write(rb, bytes).pos_write
         /\ Held(Write(rb, bytes)) = Held(rb) \o bytes
<1> SUFFICES ASSUME NEW new, new = Write(rb, bytes),
                    NEW r, r = rb.pos_read, NEW w, w = rb.pos_write,
                    NEW end, end = w + Len(bytes)
             PROVE  /\ new \in RingBuffers /\ new.pos_read <= new.pos_write
                    /\ Held(new) = Held(rb) \o bytes
  OBVIOUS
<1> DEFINE after == [i \in 0 .. Last |-> IF i \in w .. w + Len(bytes) - 1
                                    THEN bytes[i - w + 1] ELSE rb.buffer[i]]
<1>1. /\ r \in 0 .. Last /\ w \in 0 .. Last /\ r <= w /\ Last \in Nat
      /\ rb.buffer \in [0 .. Last -> Byte]
      /\ Len(bytes) \in Nat /\ end = w + Len(bytes) /\ end \in 0 .. Last
  BY RingBufferAssumption DEF RingBuffers, Fits
<1>2. \A i \in 0 .. Last : i \in w .. end - 1 => bytes[i - w + 1] \in Byte
  BY <1>1
<1>3. after \in [0 .. Last -> Byte]
  BY <1>1, <1>2
<1> HIDE DEF after
<1>4. /\ new \in RingBuffers
      /\ new.buffer = after /\ new.pos_read = r /\ new.pos_write = end
  <2>1. new = [rb EXCEPT !.buffer = after, !.pos_write = end]
    BY DEF Write, after
  <2>2. QED
    BY <1>1, <1>3, <2>1 DEF RingBuffers
<1>5. /\ Held(rb) \in Seq(Byte) /\ Len(Held(rb)) = w - r
      /\ \A k \in 1 .. w - r : Held(rb)[k] = rb.buffer[r + k - 1]
  BY HeldIs
<1>6. r <= end
  BY <1>1
<1>7. /\ Held(new) \in Seq(Byte) /\ Len(Held(new)) = end - r
      /\ \A k \in 1 .. end - r : Held(new)[k] = new.buffer[r + k - 1]
  BY <1>4, <1>6, HeldIs
<1>8. \A k \in 1 .. end - r : Held(new)[k] = (Held(rb) \o bytes)[k]
  <2>1. SUFFICES ASSUME NEW k \in 1 .. end - r
                 PROVE  Held(new)[k] = (Held(rb) \o bytes)[k]
    OBVIOUS
  <2>2. Held(new)[k] = new.buffer[r + k - 1] /\ r + k - 1 \in 0 .. Last
    BY <1>1, <1>7
  <2>3. CASE k <= w - r
    <3>1. r + k - 1 < w
      BY <1>1, <2>3
    <3>2. new.buffer[r + k - 1] = rb.buffer[r + k - 1]
      BY <1>1, <1>4, <2>2, <3>1 DEF after
    <3>3. (Held(rb) \o bytes)[k] = Held(rb)[k]
      BY <1>1, <1>5, <2>3, ConcatProperties
    <3>4. QED
      BY <1>1, <1>5, <2>2, <2>3, <3>2, <3>3
  <2>4. CASE k > w - r
    <3>1. r + k - 1 \in w .. w + Len(bytes) - 1 /\ (r + k - 1) - w + 1 = k - (w - r)
      BY <1>1, <2>4
    <3>2. new.buffer[r + k - 1] = bytes[k - (w - r)]
      BY <1>4, <2>2, <3>1 DEF after
    <3>3. k \in Len(Held(rb)) + 1 .. Len(Held(rb)) + Len(bytes)
      BY <1>1, <1>5, <2>4
    <3>4. (Held(rb) \o bytes)[k] = bytes[k - (w - r)]
      BY <1>5, <3>3, ConcatProperties
    <3>5. QED
      BY <2>2, <3>2, <3>4
  <2>5. k <= w - r \/ k > w - r
    BY <1>1
  <2>6. QED
    BY <2>3, <2>4, <2>5
<1>9. Held(rb) \o bytes \in Seq(Byte) /\ Len(Held(rb) \o bytes) = end - r
  <2>1. /\ Held(rb) \o bytes \in Seq(Byte)
        /\ Len(Held(rb) \o bytes) = Len(Held(rb)) + Len(bytes)
    BY <1>5, ConcatProperties
  <2>2. Len(Held(rb)) + Len(bytes) = end - r
    BY <1>1, <1>5
  <2>3. QED
    BY <2>1, <2>2
<1>10. Held(new) = Held(rb) \o bytes
  BY <1>7, <1>8, <1>9
<1>11. QED
  BY <1>4, <1>6, <1>10

\* so_client_clear of n bytes that are there drops the first n of a buffer that is
\* read from its front, although memcpy copies overlapping cells.
THEOREM ClearDrops ==
  ASSUME NEW rb \in RingBuffers, rb.pos_read = 0, NEW n \in 0 .. rb.pos_write
  PROVE  /\ Clear(rb, n) \in RingBuffers
         /\ Clear(rb, n).pos_read = 0
         /\ Held(Clear(rb, n)) = SubSeq(Held(rb), n + 1, Len(Held(rb)))
<1> SUFFICES ASSUME NEW new, new = Clear(rb, n), NEW w, w = rb.pos_write
             PROVE  /\ new \in RingBuffers /\ new.pos_read = 0
                    /\ Held(new) = SubSeq(Held(rb), n + 1, Len(Held(rb)))
  OBVIOUS
<1> DEFINE after == [i \in 0 .. Last |->
                   IF i < Last - n THEN rb.buffer[i + n] ELSE rb.buffer[i]]
<1>1. /\ w \in 0 .. Last /\ Last \in Nat /\ n \in 0 .. w
      /\ rb.buffer \in [0 .. Last -> Byte]
  BY RingBufferAssumption DEF RingBuffers
<1>2. Wrapped(w - n) = w - n
  BY <1>1, SmallMod DEF Wrapped
<1>3. after \in [0 .. Last -> Byte]
  BY <1>1
<1> HIDE DEF after
<1>4. /\ new \in RingBuffers
      /\ new.buffer = after /\ new.pos_read = 0 /\ new.pos_write = w - n
  <2>1. new = [rb EXCEPT !.pos_read = 0, !.pos_write = w - n, !.buffer = after]
    BY <1>2 DEF Clear, after
  <2>2. 0 \in 0 .. Last /\ w - n \in 0 .. Last
    BY <1>1
  <2>3. QED
    BY <1>3, <2>1, <2>2 DEF RingBuffers
<1>5. /\ Held(rb) \in Seq(Byte) /\ Len(Held(rb)) = w
      /\ \A k \in 1 .. w : Held(rb)[k] = rb.buffer[k - 1]
  BY <1>1, HeldIs
<1>6. /\ Held(new) \in Seq(Byte) /\ Len(Held(new)) = w - n
      /\ \A k \in 1 .. w - n : Held(new)[k] = new.buffer[k - 1]
  <2>1. 0 <= w - n
    BY <1>1
  <2>2. /\ Held(new) \in Seq(Byte) /\ Len(Held(new)) = w - n - 0
        /\ \A k \in 1 .. w - n - 0 : Held(new)[k] = new.buffer[0 + k - 1]
    BY <1>4, <2>1, HeldIs
  <2>3. QED
    BY <1>1, <2>2
<1>7. /\ SubSeq(Held(rb), n + 1, w) \in Seq(Byte) /\ Len(SubSeq(Held(rb), n + 1, w)) = w - n
      /\ \A k \in 1 .. w - n : SubSeq(Held(rb), n + 1, w)[k] = Held(rb)[n + k]
  BY <1>1, <1>5
<1>8. \A k \in 1 .. w - n : Held(new)[k] = SubSeq(Held(rb), n + 1, w)[k]
  <2>1. SUFFICES ASSUME NEW k \in 1 .. w - n
                 PROVE  Held(new)[k] = SubSeq(Held(rb), n + 1, w)[k]
    OBVIOUS
  <2>2. k - 1 \in 0 .. Last /\ k - 1 < Last - n /\ n + k \in 1 .. w
    BY <1>1
  <2>3. new.buffer[k - 1] = rb.buffer[(k - 1) + n]
    BY <1>4, <2>2 DEF after
  <2>4. Held(rb)[n + k] = rb.buffer[(n + k) - 1] /\ (n + k) - 1 = (k - 1) + n
    BY <1>1, <1>5, <2>2
  <2>5. QED
    BY <1>6, <1>7, <2>3, <2>4
<1>9. Held(new) = SubSeq(Held(rb), n + 1, w)
  BY <1>6, <1>7, <1>8, SeqEqual
<1>10. QED
  BY <1>4, <1>5, <1>9

\* An array emptied at a close is one that holds nothing; its cells stay as they are.
LEMMA EmptiedHoldsNothing ==
  ASSUME NEW rb \in RingBuffers
  PROVE  Emptied(rb) \in RingBuffers /\ Held(Emptied(rb)) = <<>>
<1>1. /\ Emptied(rb) \in RingBuffers
      /\ Emptied(rb).pos_read = 0 /\ Emptied(rb).pos_write = 0
  <2>1. 0 \in 0 .. Last
    BY RingBufferAssumption
  <2>2. QED
    BY <2>1 DEF Emptied, RingBuffers
<1>2. QED
  BY <1>1, HeldIs

-----------------------------------------------------------------------------
(* Frames as bytes                                                         *)

FrameFacts(f) == f.type \in Byte /\ f.payload \in Seq(Byte) /\ Overhead + Len(f.payload) <= Last

LEMMA FramesAre == \A f \in Frames : FrameFacts(f)
BY TcpFramesAssumption DEF FrameFacts

\* Where the parts of a frame are.
LEMMA BytesAre ==
  ASSUME NEW f, FrameFacts(f)
  PROVE  /\ Bytes(f) \in Seq(Byte) /\ Len(Bytes(f)) = Overhead + Len(f.payload)
         /\ Bytes(f)[1] = Sof /\ Bytes(f)[2] = f.type /\ Bytes(f)[3] = Len(f.payload)
         /\ \A k \in 1 .. Len(f.payload) : Bytes(f)[k + 4] = f.payload[k]
         /\ Bytes(f)[Overhead + Len(f.payload)] = 0
<1>1. PICK p \in Seq(Byte), n \in Nat, t \in Byte :
        /\ p = f.payload /\ n = Len(p) /\ t = f.type /\ 5 + n <= Last
  BY DEF FrameFacts, Overhead
<1>2. PICK front : front = <<Sof, t, n, 0>>
  OBVIOUS
<1>3. /\ Sof \in Byte /\ 0 \in Byte /\ n \in Byte
  <2>1. n \in 0 .. Last
    BY <1>1, RingBufferAssumption
  <2>2. QED
    BY <2>1, TcpFramesAssumption
<1>4. /\ front \in Seq(Byte) /\ Len(front) = 4
      /\ front[1] = Sof /\ front[2] = t /\ front[3] = n
  BY <1>2, <1>3
<1>5. /\ <<0>> \in Seq(Byte) /\ Len(<<0>>) = 1 /\ <<0>>[1] = 0
  BY <1>3
<1>6. PICK most : most = front \o p
  OBVIOUS
<1>7. /\ most \in Seq(Byte) /\ Len(most) = 4 + n
      /\ most[1] = Sof /\ most[2] = t /\ most[3] = n
      /\ \A k \in 1 .. n : most[k + 4] = p[k]
  <2>1. /\ most \in Seq(Byte) /\ Len(most) = 4 + n
        /\ \A i \in 1 .. 4 + n : most[i] = IF i <= 4 THEN front[i] ELSE p[i - 4]
    <3>1. /\ most \in Seq(Byte) /\ Len(most) = Len(front) + Len(p)
          /\ \A i \in 1 .. Len(front) + Len(p) :
               most[i] = IF i <= Len(front) THEN front[i] ELSE p[i - Len(front)]
      BY <1>1, <1>4, <1>6, ConcatProperties
    <3>2. QED
      BY <1>1, <1>4, <3>1
  <2>2. \A k \in 1 .. n : k + 4 \in 1 .. 4 + n /\ ~(k + 4 <= 4) /\ (k + 4) - 4 = k
    BY <1>1
  <2>3. 1 \in 1 .. 4 + n /\ 2 \in 1 .. 4 + n /\ 3 \in 1 .. 4 + n
    BY <1>1
  <2>4. QED
    BY <1>4, <2>1, <2>2, <2>3
<1>8. Bytes(f) = most \o <<0>>
  BY <1>1, <1>2, <1>6 DEF Bytes
<1>9. PICK all : all = most \o <<0>>
  OBVIOUS
<1>10. /\ all \in Seq(Byte) /\ Len(all) = 5 + n
       /\ all[1] = Sof /\ all[2] = t /\ all[3] = n
       /\ \A k \in 1 .. n : all[k + 4] = p[k]
       /\ all[5 + n] = 0
  <2>1. /\ all \in Seq(Byte) /\ Len(all) = (4 + n) + 1
        /\ \A i \in 1 .. (4 + n) + 1 :
             all[i] = IF i <= 4 + n THEN most[i] ELSE <<0>>[i - (4 + n)]
    BY <1>5, <1>7, <1>9, ConcatProperties
  <2>2. \A k \in 1 .. n : k + 4 \in 1 .. (4 + n) + 1 /\ k + 4 <= 4 + n
    BY <1>1
  <2>3. /\ 1 \in 1 .. (4 + n) + 1 /\ 2 \in 1 .. (4 + n) + 1 /\ 3 \in 1 .. (4 + n) + 1
        /\ 1 <= 4 + n /\ 2 <= 4 + n /\ 3 <= 4 + n
    BY <1>1
  <2>4. /\ 5 + n \in 1 .. (4 + n) + 1 /\ ~(5 + n <= 4 + n) /\ (5 + n) - (4 + n) = 1
        /\ (4 + n) + 1 = 5 + n
    BY <1>1
  <2>5. QED
    BY <1>5, <1>7, <2>1, <2>2, <2>3, <2>4
<1>11. QED
  BY <1>1, <1>8, <1>9, <1>10 DEF Overhead

\* What Flat and Requested join.
ByteParts(frames) == [k \in 1 .. Len(frames) |-> Bytes(frames[k])]
RequestParts(frames) == [k \in 1 .. Len(frames) |-> Requests(frames[k])]
Request == [type : Byte, payload : Seq(Byte)]

LEMMA FlatTyped == ASSUME NEW f \in Frames PROVE Bytes(f) \in Seq(Byte)
BY FramesAre, BytesAre

LEMMA RequestsTyped == ASSUME NEW f \in Frames PROVE Requests(f) \in Seq(Request)
<1>1. f.type \in Byte /\ f.payload \in Seq(Byte) /\ <<>> \in Seq(Byte)
  BY FramesAre DEF FrameFacts
<1>2. AsRequest(f) \in Request
  BY <1>1 DEF AsRequest, Request
<1>3. QED
  BY <1>2 DEF Requests

LEMMA BytePartsAppend ==
  ASSUME NEW frames \in Seq(Frames), NEW f \in Frames
  PROVE  /\ ByteParts(frames) \in Seq(Seq(Byte))
         /\ ByteParts(Append(frames, f)) = Append(ByteParts(frames), Bytes(f))
<1>1. \A g \in Frames : Bytes(g) \in Seq(Byte)
  BY FlatTyped
<1>2. QED
  BY <1>1 DEF ByteParts

LEMMA RequestPartsAppend ==
  ASSUME NEW frames \in Seq(Frames), NEW f \in Frames
  PROVE  /\ RequestParts(frames) \in Seq(Seq(Request))
         /\ RequestParts(Append(frames, f)) = Append(RequestParts(frames), Requests(f))
<1>1. \A g \in Frames : Requests(g) \in Seq(Request)
  BY RequestsTyped
<1>2. QED
  BY <1>1 DEF RequestParts

LEMMA FlatAppend ==
  ASSUME NEW frames \in Seq(Frames), NEW f \in Frames
  PROVE  Flat(frames) \in Seq(Byte) /\ Flat(Append(frames, f)) = Flat(frames) \o Bytes(f)
<1>1. /\ Flat(frames) = Joined(ByteParts(frames))
      /\ Flat(Append(frames, f)) = Joined(ByteParts(Append(frames, f)))
  BY DEF Flat, ByteParts
<1>2. QED
  BY <1>1, BytePartsAppend, FlatTyped, JoinedAppend

LEMMA RequestedAppend ==
  ASSUME NEW frames \in Seq(Frames), NEW f \in Frames
  PROVE  Requested(Append(frames, f)) = Requested(frames) \o Requests(f)
<1>1. /\ Requested(frames) = Joined(RequestParts(frames))
      /\ Requested(Append(frames, f)) = Joined(RequestParts(Append(frames, f)))
  BY DEF Requested, RequestParts
<1>2. QED
  BY <1>1, RequestPartsAppend, RequestsTyped, JoinedAppend

LEMMA NothingFlat == Flat(<<>>) = <<>> /\ Requested(<<>>) = <<>>
<1>1. ByteParts(<<>>) = <<>> /\ RequestParts(<<>>) = <<>>
  BY DEF ByteParts, RequestParts
<1>2. Flat(<<>>) = Joined(ByteParts(<<>>)) /\ Requested(<<>>) = Joined(RequestParts(<<>>))
  BY DEF Flat, ByteParts, Requested, RequestParts
<1>3. QED
  BY <1>1, <1>2, JoinedEmpty

LEMMA FlatHead ==
  ASSUME NEW frames \in Seq(Frames), frames # <<>>
  PROVE  /\ Flat(frames) = Bytes(Head(frames)) \o Flat(Tail(frames))
         /\ Flat(Tail(frames)) \in Seq(Byte) /\ Flat(frames) \in Seq(Byte)
<1>1. Head(frames) \in Frames /\ Tail(frames) \in Seq(Frames)
  OBVIOUS
<1>2. \A g \in Frames : Bytes(g) \in Seq(Byte)
  BY FlatTyped
<1>3. /\ ByteParts(frames) # <<>> /\ ByteParts(frames) \in Seq(Seq(Byte))
      /\ Head(ByteParts(frames)) = Bytes(Head(frames))
      /\ Tail(ByteParts(frames)) = ByteParts(Tail(frames))
  <2>1. ByteParts(frames) \in Seq(Seq(Byte)) /\ Len(ByteParts(frames)) = Len(frames)
    BY <1>2 DEF ByteParts
  <2>2. \A k \in 1 .. Len(frames) : ByteParts(frames)[k] = Bytes(frames[k])
    BY DEF ByteParts
  <2>3. Len(frames) \in Nat \ {0} /\ 1 \in 1 .. Len(frames) /\ Head(frames) = frames[1]
    OBVIOUS
  <2>4. ByteParts(frames) # <<>> /\ Head(ByteParts(frames)) = Bytes(Head(frames))
    BY <2>1, <2>2, <2>3
  <2>5. /\ Len(Tail(frames)) = Len(frames) - 1
        /\ \A k \in 1 .. Len(frames) - 1 : Tail(frames)[k] = frames[k + 1]
    BY HeadTailProperties
  <2>6. /\ Tail(ByteParts(frames)) \in Seq(Seq(Byte))
        /\ Len(Tail(ByteParts(frames))) = Len(frames) - 1
        /\ \A k \in 1 .. Len(frames) - 1 : Tail(ByteParts(frames))[k] = ByteParts(frames)[k + 1]
    BY <2>1, <2>4, HeadTailProperties
  <2>7. /\ ByteParts(Tail(frames)) \in Seq(Seq(Byte))
        /\ Len(ByteParts(Tail(frames))) = Len(frames) - 1
        /\ \A k \in 1 .. Len(frames) - 1 : ByteParts(Tail(frames))[k] = Bytes(frames[k + 1])
    BY <1>1, <1>2, <2>3, <2>5 DEF ByteParts
  <2>8. \A k \in 1 .. Len(frames) - 1 : k + 1 \in 1 .. Len(frames)
    BY <2>3
  <2>9. \A k \in 1 .. Len(frames) - 1 :
          Tail(ByteParts(frames))[k] = ByteParts(Tail(frames))[k]
    BY <2>2, <2>6, <2>7, <2>8
  <2>10. Tail(ByteParts(frames)) = ByteParts(Tail(frames))
    BY <2>6, <2>7, <2>9, SeqEqual
  <2>11. QED
    BY <2>1, <2>4, <2>10
<1>4. /\ Flat(frames) = Joined(ByteParts(frames))
      /\ Flat(Tail(frames)) = Joined(ByteParts(Tail(frames)))
  BY DEF Flat, ByteParts
<1>5. Joined(ByteParts(frames)) = Head(ByteParts(frames)) \o Joined(Tail(ByteParts(frames)))
  BY <1>3, JoinedHead
<1>6. Flat(Tail(frames)) \in Seq(Byte) /\ Flat(frames) \in Seq(Byte)
  BY <1>1, FlatAppend
<1>7. QED
  BY <1>3, <1>4, <1>5, <1>6

-----------------------------------------------------------------------------
(* The frame at the front                                                  *)

\* Where the parts of a concatenation are.
LEMMA BothParts ==
  ASSUME NEW E, NEW a \in Seq(E), NEW b \in Seq(E), NEW c, c = a \o b,
         NEW m, NEW n, m = Len(a), n = Len(b)
  PROVE  /\ c \in Seq(E) /\ m \in Nat /\ n \in Nat
         /\ Len(c) = m + n
         /\ \A k \in 1 .. m + n : c[k] = IF k <= m THEN a[k] ELSE b[k - m]
<1>1. /\ c \in Seq(E) /\ Len(c) = Len(a) + Len(b)
      /\ \A k \in 1 .. Len(a) + Len(b) :
           c[k] = IF k <= Len(a) THEN a[k] ELSE b[k - Len(a)]
  BY ConcatProperties
<1>2. QED
  BY <1>1

\* A sequence is its two pieces.
LEMMA Pieces ==
  ASSUME NEW E, NEW w \in Seq(E), NEW n \in 0 .. Len(w)
  PROVE  /\ SubSeq(w, 1, n) \in Seq(E) /\ Len(SubSeq(w, 1, n)) = n
         /\ SubSeq(w, n + 1, Len(w)) \in Seq(E)
         /\ SubSeq(w, 1, n) \o SubSeq(w, n + 1, Len(w)) = w
<1>1. PICK m \in Nat : m = Len(w) /\ n \in Nat /\ n <= m
  OBVIOUS
<1>2. PICK a : a = SubSeq(w, 1, n)
  OBVIOUS
<1>3. PICK b : b = SubSeq(w, n + 1, m)
  OBVIOUS
<1>4. /\ a \in Seq(E) /\ Len(a) = n /\ \A k \in 1 .. n : a[k] = w[k]
  BY <1>1, <1>2
<1>5. /\ b \in Seq(E) /\ Len(b) = m - n /\ \A k \in 1 .. m - n : b[k] = w[n + k]
  BY <1>1, <1>3
<1>6. /\ a \o b \in Seq(E) /\ Len(a \o b) = n + (m - n)
      /\ \A k \in 1 .. n + (m - n) : (a \o b)[k] = IF k <= n THEN a[k] ELSE b[k - n]
  BY <1>1, <1>4, <1>5, BothParts
<1>7. n + (m - n) = m
  BY <1>1
<1>8. ASSUME NEW k \in 1 .. m PROVE (a \o b)[k] = w[k]
  <2>1. CASE k <= n
    BY <2>1, <1>1, <1>4, <1>6, <1>7
  <2>2. CASE ~(k <= n)
    <3>1. k - n \in 1 .. m - n /\ n + (k - n) = k
      BY <2>2, <1>1
    <3>2. QED
      BY <2>2, <3>1, <1>5, <1>6, <1>7
  <2>3. QED
    BY <2>1, <2>2
<1>9. a \o b = w
  BY <1>1, <1>6, <1>7, <1>8, SeqEqual
<1>10. QED
  BY <1>1, <1>2, <1>3, <1>4, <1>5, <1>9

\* What is left when the first part is taken out of the first piece.
LEMMA CutFront ==
  ASSUME NEW E, NEW h \in Seq(E), NEW rest \in Seq(E), NEW x \in Seq(E), NEW y \in Seq(E),
         h \o rest = x \o y, Len(x) <= Len(h)
  PROVE  SubSeq(h, Len(x) + 1, Len(h)) \o rest = y
<1>1. PICK H \in Nat, X \in Nat, R \in Nat, Y \in Nat :
        H = Len(h) /\ X = Len(x) /\ R = Len(rest) /\ Y = Len(y) /\ X <= H
  OBVIOUS
<1>2. PICK c : c = h \o rest
  OBVIOUS
<1>3. /\ c \in Seq(E) /\ Len(c) = H + R
      /\ \A k \in 1 .. H + R : c[k] = IF k <= H THEN h[k] ELSE rest[k - H]
  <2>1. H = Len(h) /\ R = Len(rest)
    BY <1>1
  <2>2. QED
    BY ONLY h \in Seq(E), rest \in Seq(E), <2>1, <1>2, BothParts
<1>4. /\ Len(c) = X + Y
      /\ \A k \in 1 .. X + Y : c[k] = IF k <= X THEN x[k] ELSE y[k - X]
  <2>1. c = x \o y
    BY <1>2
  <2>2. QED
    BY <2>1, <1>1, BothParts
<1>5. H + R = X + Y
  BY <1>3, <1>4
<1>6. PICK t : t = SubSeq(h, X + 1, H)
  OBVIOUS
<1>7. /\ t \in Seq(E) /\ Len(t) = H - X /\ \A k \in 1 .. H - X : t[k] = h[X + k]
  BY <1>1, <1>6
<1>8. PICK d : d = t \o rest
  OBVIOUS
<1>9. /\ d \in Seq(E) /\ Len(d) = (H - X) + R
      /\ \A k \in 1 .. (H - X) + R : d[k] = IF k <= H - X THEN t[k] ELSE rest[k - (H - X)]
  <2>1. PICK g : g = H - X
    OBVIOUS
  <2>2. g = Len(t) /\ R = Len(rest) /\ t \in Seq(E)
    BY <1>1, <1>7, <2>1
  <2>3. /\ d \in Seq(E) /\ Len(d) = g + R
        /\ \A k \in 1 .. g + R : d[k] = IF k <= g THEN t[k] ELSE rest[k - g]
    BY ONLY rest \in Seq(E), <2>2, <1>8, BothParts
  <2>4. QED
    BY <2>1, <2>3
<1>10. (H - X) + R = Y
  BY <1>1, <1>5
<1>11. ASSUME NEW k \in 1 .. Y PROVE d[k] = y[k]
  <2>1. /\ X + k \in 1 .. X + Y /\ ~(X + k <= X) /\ (X + k) - X = k
        /\ X + k \in 1 .. H + R
    BY <1>1, <1>5
  <2>2. c[X + k] = y[k]
    BY <2>1, <1>4
  <2>3. CASE k <= H - X
    <3>1. X + k <= H /\ k \in 1 .. H - X
      BY <2>3, <1>1
    <3>2. QED
      BY <2>1, <2>2, <2>3, <3>1, <1>3, <1>7, <1>9, <1>10
  <2>4. CASE ~(k <= H - X)
    <3>1. ~(X + k <= H) /\ (X + k) - H = k - (H - X)
      BY <2>4, <1>1
    <3>2. QED
      BY <2>1, <2>2, <2>4, <3>1, <1>3, <1>9, <1>10
  <2>5. QED
    BY <2>3, <2>4
<1>12. t \o rest = y
  BY <1>1, <1>8, <1>9, <1>10, <1>11, SeqEqual
<1>13. QED
  BY <1>1, <1>6, <1>12

Arrived(rb) == Len(Held(rb)) >= 3 /\ Len(Held(rb)) >= Overhead + At(rb, 2)

\* What the parser finds at the front of a buffer when frame f has arrived, and what
\* is then left to parse.
FoundAt(rb, rest, f, left) ==
  /\ At(rb, 0) = Sof
  /\ At(rb, 1) = f.type
  /\ At(rb, 2) = Len(f.payload)
  /\ Overhead + At(rb, 2) <= Last
  /\ At(rb, Overhead + At(rb, 2) - 1) = 0
  /\ Payload(At(rb, 1), rb, At(rb, 2)) = AsRequest(f).payload
  /\ Held(Consumed(rb, At(rb, 2))) \o rest = Flat(left)

\* Bytes that wait are those of a frame.
LEMMA SomethingWaits ==
  ASSUME NEW rb \in RingBuffers, rb.pos_read = 0, rb.pos_write > 0,
         NEW rest \in Seq(Byte), NEW frames \in Seq(Frames),
         Held(rb) \o rest = Flat(frames)
  PROVE  frames # <<>>
<1>1. PICK H \in Nat \ {0} : H = rb.pos_write
  BY RingBufferAssumption DEF RingBuffers
<1>2. Held(rb) \in Seq(Byte) /\ Len(Held(rb)) = H - 0
  BY <1>1, HeldIs
<1>3. PICK h : h = Held(rb)
  OBVIOUS
<1>4. h \in Seq(Byte) /\ Len(h) = H
  BY <1>1, <1>2, <1>3
<1>5. h \o rest # <<>>
  <2>1. h \o rest = <<>> => Len(h) = 0
    BY <1>4
  <2>2. QED
    BY <2>1, <1>1, <1>4
<1>6. QED
  BY <1>3, <1>5, NothingFlat

\* When the frame at the front has arrived, the parser reads its parts where they are,
\* and so_client_clear leaves what comes behind it.
LEMMA ArrivedIsFound ==
  ASSUME NEW rb \in RingBuffers, rb.pos_read = 0,
         NEW rest \in Seq(Byte), NEW frames \in Seq(Frames), frames # <<>>,
         Held(rb) \o rest = Flat(frames), Arrived(rb)
  PROVE  FoundAt(rb, rest, Head(frames), Tail(frames))
<1>1. PICK f \in Frames, left \in Seq(Frames) : f = Head(frames) /\ left = Tail(frames)
  <2>1. Head(frames) \in Frames /\ Tail(frames) \in Seq(Frames)
    OBVIOUS
  <2>2. QED
    BY <2>1
<1>2. PICK h, bytes, more : h = Held(rb) /\ bytes = Bytes(f) /\ more = Flat(left)
  OBVIOUS
<1>3. FrameFacts(f)
  BY FramesAre
<1>4. PICK H \in 0 .. Last, m \in Nat : H = rb.pos_write /\ m = Len(f.payload)
  BY <1>3 DEF RingBuffers, FrameFacts
<1>5. /\ h \in Seq(Byte) /\ Len(h) = H /\ H \in Nat
      /\ \A k \in 1 .. H : h[k] = rb.buffer[k - 1]
  <2>1. /\ h \in Seq(Byte) /\ Len(h) = H - 0
        /\ \A k \in 1 .. H - 0 : h[k] = rb.buffer[0 + k - 1]
    <3>1. 0 <= H /\ H = rb.pos_write /\ 0 = rb.pos_read
      BY <1>4
    <3>2. /\ Held(rb) \in Seq(Byte) /\ Len(Held(rb)) = H - 0
          /\ \A k \in 1 .. H - 0 : Held(rb)[k] = rb.buffer[0 + k - 1]
      BY ONLY rb \in RingBuffers, <3>1, HeldIs
    <3>3. QED
      BY <1>2, <3>2
  <2>2. H \in Nat /\ H - 0 = H
    BY RingBufferAssumption
  <2>3. \A k \in 1 .. H : 0 + k - 1 = k - 1
    BY <2>2
  <2>4. QED
    BY <2>1, <2>2, <2>3
<1>6. /\ bytes \in Seq(Byte) /\ Len(bytes) = 5 + m
      /\ bytes[1] = Sof /\ bytes[2] = f.type /\ bytes[3] = m
      /\ \A k \in 1 .. m : bytes[k + 4] = f.payload[k]
      /\ bytes[5 + m] = 0
  BY <1>2, <1>3, <1>4, BytesAre DEF Overhead
<1>7. more \in Seq(Byte) /\ h \o rest = bytes \o more
  BY <1>1, <1>2, FlatHead
<1>8. \A k \in 1 .. H : k <= 5 + m => h[k] = bytes[k]
  <2>1. PICK c : c = h \o rest
    OBVIOUS
  <2>2. c = bytes \o more
    BY <2>1, <1>7
  <2>3. PICK R, M, B : R = Len(rest) /\ M = Len(more) /\ B = Len(bytes)
    OBVIOUS
  <2>4. /\ H = Len(h) /\ H \in Nat /\ R \in Nat
        /\ \A k \in 1 .. H + R : c[k] = IF k <= H THEN h[k] ELSE rest[k - H]
    BY ONLY rest \in Seq(Byte), <1>5, <2>1, <2>3, BothParts
  <2>5. /\ B \in Nat /\ M \in Nat
        /\ \A k \in 1 .. B + M : c[k] = IF k <= B THEN bytes[k] ELSE more[k - B]
    BY ONLY <1>6, <1>7, <2>2, <2>3, BothParts
  <2>6. B = 5 + m
    BY <2>3, <1>6
  <2>7. ASSUME NEW k \in 1 .. H, k <= 5 + m PROVE h[k] = bytes[k]
    <3>1. k \in 1 .. H + R /\ k <= H /\ k \in 1 .. B + M /\ k <= B
      BY <2>4, <2>5, <2>6, <2>7
    <3>2. QED
      BY <2>4, <2>5, <3>1
  <2>8. QED
    BY <2>7
<1>9. \A k \in 0 .. 2 : At(rb, k) = rb.buffer[k]
  <2>1. \A k \in 0 .. 2 : 0 + k = k
    OBVIOUS
  <2>2. QED
    BY <2>1 DEF At
<1>10. /\ H >= 3 /\ At(rb, 2) = m /\ At(rb, 1) = f.type /\ At(rb, 0) = Sof
  <2>1. H >= 3
    BY <1>2, <1>5 DEF Arrived
  <2>2. /\ 1 \in 1 .. H /\ 2 \in 1 .. H /\ 3 \in 1 .. H
        /\ 1 <= 5 + m /\ 2 <= 5 + m /\ 3 <= 5 + m
        /\ 1 - 1 = 0 /\ 2 - 1 = 1 /\ 3 - 1 = 2
    BY <2>1, <1>4, <1>5
  <2>3. rb.buffer[0] = Sof /\ rb.buffer[1] = f.type /\ rb.buffer[2] = m
    BY <2>2, <1>5, <1>6, <1>8
  <2>4. QED
    BY <2>1, <2>3, <1>9
<1>11. H >= 5 + m
  BY <1>2, <1>5, <1>10 DEF Arrived, Overhead
<1>12. /\ Overhead + At(rb, 2) <= Last
       /\ At(rb, Overhead + At(rb, 2) - 1) = 0
  <2>1. 5 + m \in 1 .. H /\ 5 + m <= 5 + m
    BY <1>4, <1>5, <1>11
  <2>2. rb.buffer[(5 + m) - 1] = 0
    BY <2>1, <1>5, <1>6, <1>8
  <2>3. 0 + ((5 + m) - 1) = (5 + m) - 1
    BY <1>4
  <2>4. At(rb, (5 + m) - 1) = 0
    BY <2>2, <2>3 DEF At
  <2>5. 5 + m <= Last
    BY <1>3, <1>4 DEF FrameFacts, Overhead
  <2>6. QED
    BY <2>4, <2>5, <1>10 DEF Overhead
<1>13. Payload(At(rb, 1), rb, At(rb, 2)) = AsRequest(f).payload
  <2>1. CASE f.type = Send
    <3>1. PICK copy : copy = [k \in 1 .. m |-> rb.buffer[k + 3]]
      OBVIOUS
    <3>2. ASSUME NEW k \in 1 .. m PROVE rb.buffer[k + 3] = f.payload[k]
      <4>1. k + 4 \in 1 .. H /\ k + 4 <= 5 + m /\ (k + 4) - 1 = k + 3
        BY <1>4, <1>5, <1>11
      <4>2. h[k + 4] = bytes[k + 4] /\ h[k + 4] = rb.buffer[(k + 4) - 1]
        BY <4>1, <1>5, <1>8
      <4>3. bytes[k + 4] = f.payload[k]
        BY <1>6
      <4>4. QED
        BY <4>1, <4>2, <4>3
    <3>3. f.payload \in Seq(Byte) /\ Len(f.payload) = m
      BY <1>3, <1>4 DEF FrameFacts
    <3>4. f.payload = [k \in 1 .. m |-> f.payload[k]]
      BY <3>3
    <3>5. copy = f.payload
      BY <3>1, <3>2, <3>4
    <3>6. QED
      BY <2>1, <3>1, <3>5, <1>10 DEF Payload, AsRequest
  <2>2. CASE f.type # Send
    BY <2>2, <1>10 DEF Payload, AsRequest
  <2>3. QED
    BY <2>1, <2>2
<1>14. Held(Consumed(rb, At(rb, 2))) \o rest = more
  <2>1. 5 + m \in 0 .. H
    BY <1>4, <1>5, <1>11
  <2>2. PICK gone : gone = 5 + m /\ gone \in 0 .. rb.pos_write
    BY <2>1, <1>4
  <2>3. Held(Clear(rb, gone)) = SubSeq(h, gone + 1, Len(h))
    BY <2>2, <1>2, ClearDrops
  <2>4. SubSeq(h, Len(bytes) + 1, Len(h)) \o rest = more
    <3>1. Len(bytes) <= Len(h)
      BY <1>5, <1>6, <1>11
    <3>2. QED
      BY <3>1, <1>5, <1>6, <1>7, CutFront
  <2>5. Consumed(rb, At(rb, 2)) = Clear(rb, gone)
    BY <2>2, <1>10 DEF Consumed, Overhead
  <2>6. QED
    BY <2>2, <2>3, <2>4, <2>5, <1>6
<1>15. QED
  BY <1>1, <1>2, <1>4, <1>10, <1>12, <1>13, <1>14 DEF FoundAt

\* recv moves bytes from the wire to the buffer, and that is all.
LEMMA WriteMoves ==
  ASSUME NEW rb \in RingBuffers, rb.pos_read = 0,
         NEW wd \in Seq(Byte), NEW n \in 0 .. Len(wd), Fits(rb, n)
  PROVE  /\ Write(rb, SubSeq(wd, 1, n)) \in RingBuffers
         /\ Write(rb, SubSeq(wd, 1, n)).pos_read = 0
         /\ SubSeq(wd, n + 1, Len(wd)) \in Seq(Byte)
         /\ Held(Write(rb, SubSeq(wd, 1, n))) \o SubSeq(wd, n + 1, Len(wd)) = Held(rb) \o wd
<1>1. PICK a, b, c : a = SubSeq(wd, 1, n) /\ b = SubSeq(wd, n + 1, Len(wd)) /\ c = Held(rb)
  OBVIOUS
<1>2. a \in Seq(Byte) /\ Len(a) = n /\ b \in Seq(Byte) /\ a \o b = wd
  BY <1>1, Pieces
<1>3. c \in Seq(Byte) /\ rb.pos_read <= rb.pos_write
  <2>1. PICK w : w = rb.pos_write /\ 0 <= w
    BY RingBufferAssumption DEF RingBuffers
  <2>2. QED
    BY <2>1, <1>1, HeldIs
<1>4. Fits(rb, Len(a))
  BY <1>2
<1>5. /\ Write(rb, a) \in RingBuffers /\ Held(Write(rb, a)) = c \o a
      /\ Write(rb, a).pos_read = 0
  <2>1. Write(rb, a) \in RingBuffers /\ Held(Write(rb, a)) = c \o a
    BY ONLY rb \in RingBuffers, <1>1, <1>2, <1>3, <1>4, WriteAppends
  <2>2. Write(rb, a).pos_read = 0
    BY DEF Write, RingBuffers
  <2>3. QED
    BY <2>1, <2>2
<1>6. (c \o a) \o b = c \o (a \o b)
  <2>1. Regroup(c, a, b)
    BY ONLY <1>2, <1>3, Regrouped
  <2>2. QED
    BY <2>1 DEF Regroup
<1>7. QED
  BY <1>1, <1>2, <1>5, <1>6

-----------------------------------------------------------------------------
(* What is parsed and what is not                                          *)

\* The next frame to parse.
LEMMA NextUnparsed ==
  ASSUME NEW E, NEW s \in Seq(E), NEW p \in Nat, p <= Len(s)
  PROVE  /\ SubSeq(s, 1, p) \in Seq(E) /\ SubSeq(s, p + 1, Len(s)) \in Seq(E)
         /\ SubSeq(s, p + 1, Len(s)) # <<>> =>
              /\ p + 1 <= Len(s) /\ s[p + 1] \in E
              /\ Head(SubSeq(s, p + 1, Len(s))) = s[p + 1]
              /\ Tail(SubSeq(s, p + 1, Len(s))) = SubSeq(s, p + 1 + 1, Len(s))
              /\ SubSeq(s, 1, p + 1) = Append(SubSeq(s, 1, p), s[p + 1])
<1>0. PICK L \in Nat : L = Len(s) /\ p <= L
  OBVIOUS
<1>1. PICK a, b : /\ a = SubSeq(s, 1, p) /\ b = SubSeq(s, p + 1, L)
                  /\ L = Len(s) /\ p <= L
  BY <1>0
<1>2. a \in Seq(E) /\ Len(a) = p /\ \A k \in 1 .. p : a[k] = s[k]
  BY <1>1
<1>3. b \in Seq(E) /\ Len(b) = L - p /\ \A k \in 1 .. L - p : b[k] = s[p + k]
  BY <1>1
<1>4. ASSUME b # <<>>
      PROVE  /\ p + 1 <= L /\ s[p + 1] \in E
             /\ Head(b) = s[p + 1] /\ Tail(b) = SubSeq(s, p + 1 + 1, L)
             /\ SubSeq(s, 1, p + 1) = Append(a, s[p + 1])
  <2>1. p + 1 <= L
    <3>1. Len(b) # 0 /\ Len(b) \in Nat
      BY <1>3, <1>4
    <3>2. QED
      BY <3>1, <1>1, <1>3
  <2>2. p + 1 \in 1 .. L /\ s[p + 1] \in E
    BY <2>1, <1>1
  <2>3. Head(b) = s[p + 1]
    <3>1. 1 \in 1 .. L - p
      BY <2>1, <1>1
    <3>2. QED
      BY <3>1, <1>3, <1>4
  <2>4. Tail(b) = SubSeq(s, p + 1 + 1, L)
    <3>1. PICK t, u : t = Tail(b) /\ u = SubSeq(s, p + 1 + 1, L)
      OBVIOUS
    <3>2. t \in Seq(E) /\ Len(t) = L - p - 1 /\ \A k \in 1 .. L - p - 1 : t[k] = b[k + 1]
      <4>1. /\ Tail(b) \in Seq(E) /\ Len(Tail(b)) = Len(b) - 1
            /\ \A k \in 1 .. Len(b) - 1 : Tail(b)[k] = b[k + 1]
        BY <1>3, <1>4, HeadTailProperties
      <4>2. QED
        BY <3>1, <1>3, <4>1
    <3>3. /\ u \in Seq(E) /\ Len(u) = L - p - 1
          /\ \A k \in 1 .. L - p - 1 : u[k] = s[p + 1 + k]
      BY <3>1, <2>1, <1>1
    <3>4. ASSUME NEW k \in 1 .. L - p - 1 PROVE t[k] = u[k]
      <4>1. k + 1 \in 1 .. L - p /\ p + (k + 1) = p + 1 + k
        BY <1>1
      <4>2. QED
        BY <4>1, <3>2, <3>3, <1>3
    <3>5. t = u
      BY <3>2, <3>3, <3>4, SeqEqual
    <3>6. QED
      BY <3>1, <3>5
  <2>5. SubSeq(s, 1, p + 1) = Append(a, s[p + 1])
    <3>1. PICK t, u : t = SubSeq(s, 1, p + 1) /\ u = Append(a, s[p + 1])
      OBVIOUS
    <3>2. t \in Seq(E) /\ Len(t) = p + 1 /\ \A k \in 1 .. p + 1 : t[k] = s[k]
      BY <3>1, <2>1, <1>1
    <3>3. u \in Seq(E) /\ Len(u) = p + 1 /\ u[p + 1] = s[p + 1] /\ \A k \in 1 .. p : u[k] = a[k]
      BY <3>1, <2>2, <1>2
    <3>4. ASSUME NEW k \in 1 .. p + 1 PROVE t[k] = u[k]
      <4>1. k \in 1 .. p \/ k = p + 1
        OBVIOUS
      <4>2. QED
        BY <4>1, <3>2, <3>3, <1>2
    <3>5. t = u
      BY <3>2, <3>3, <3>4, SeqEqual
    <3>6. QED
      BY <3>1, <3>5
  <2>6. QED
    BY <2>1, <2>2, <2>3, <2>4, <2>5
<1>5. QED
  BY <1>1, <1>2, <1>3, <1>4

\* A frame that is sent is the last to parse.
LEMMA OneMoreUnparsed ==
  ASSUME NEW E, NEW s \in Seq(E), NEW f \in E, NEW p \in Nat, p <= Len(s)
  PROVE  /\ p <= Len(Append(s, f))
         /\ SubSeq(Append(s, f), 1, p) = SubSeq(s, 1, p)
         /\ SubSeq(Append(s, f), p + 1, Len(Append(s, f)))
              = Append(SubSeq(s, p + 1, Len(s)), f)
         /\ \A k \in 1 .. p : Append(s, f)[k] = s[k]
<1>0. PICK L \in Nat : L = Len(s) /\ p <= L
  OBVIOUS
<1>1. PICK t : t = Append(s, f) /\ L = Len(s) /\ p <= L
  BY <1>0
<1>2. /\ t \in Seq(E) /\ Len(t) = L + 1 /\ t[L + 1] = f /\ p <= L
      /\ \A k \in 1 .. L : t[k] = s[k]
  BY <1>1
<1>3. \A k \in 1 .. p : k \in 1 .. L
  BY <1>1
<1>4. SubSeq(t, 1, p) = SubSeq(s, 1, p)
  <2>1. PICK a, b : a = SubSeq(t, 1, p) /\ b = SubSeq(s, 1, p)
    OBVIOUS
  <2>2. a \in Seq(E) /\ Len(a) = p /\ \A k \in 1 .. p : a[k] = t[k]
    BY <2>1, <1>2
  <2>3. b \in Seq(E) /\ Len(b) = p /\ \A k \in 1 .. p : b[k] = s[k]
    BY <2>1
  <2>4. \A k \in 1 .. p : a[k] = b[k]
    BY <2>2, <2>3, <1>2, <1>3
  <2>5. a = b
    BY <2>2, <2>3, <2>4, SeqEqual
  <2>6. QED
    BY <2>1, <2>5
<1>5. SubSeq(t, p + 1, L + 1) = Append(SubSeq(s, p + 1, L), f)
  <2>1. PICK a, b, c : a = SubSeq(t, p + 1, L + 1) /\ b = SubSeq(s, p + 1, L) /\ c = Append(b, f)
    OBVIOUS
  <2>2. a \in Seq(E) /\ Len(a) = L - p + 1 /\ \A k \in 1 .. L - p + 1 : a[k] = t[p + k]
    BY <2>1, <1>2
  <2>3. b \in Seq(E) /\ Len(b) = L - p /\ \A k \in 1 .. L - p : b[k] = s[p + k]
    BY <2>1, <1>1
  <2>4. /\ c \in Seq(E) /\ Len(c) = L - p + 1 /\ c[L - p + 1] = f
        /\ \A k \in 1 .. L - p : c[k] = b[k]
    BY <2>1, <2>3
  <2>5. ASSUME NEW k \in 1 .. L - p + 1 PROVE a[k] = c[k]
    <3>1. CASE k = L - p + 1
      <4>1. p + k = L + 1
        BY <3>1, <1>2
      <4>2. QED
        BY <4>1, <3>1, <2>2, <2>4, <1>2
    <3>2. CASE k # L - p + 1
      <4>1. k \in 1 .. L - p /\ p + k \in 1 .. L
        BY <3>2, <1>2
      <4>2. QED
        BY <4>1, <2>2, <2>3, <2>4, <1>2
    <3>3. QED
      BY <3>1, <3>2
  <2>6. a = c
    <3>1. Len(a) = Len(c) /\ \A k \in 1 .. Len(a) : a[k] = c[k]
      BY <2>2, <2>4, <2>5
    <3>2. QED
      BY <2>2, <2>4, <3>1, SeqEqual
  <2>7. QED
    BY <2>1, <2>6
<1>6. /\ p <= Len(t) /\ Len(t) = L + 1
      /\ \A k \in 1 .. p : t[k] = s[k]
  BY <1>2, <1>3
<1>7. SubSeq(t, p + 1, Len(t)) = Append(SubSeq(s, p + 1, Len(s)), f)
  BY <1>1, <1>5, <1>6
<1>8. QED
  BY <1>1, <1>4, <1>6, <1>7

-----------------------------------------------------------------------------
(* The inductive invariant                                                 *)

Typed ==
  /\ open \in BOOLEAN /\ fin \in BOOLEAN
  /\ wire \in Seq(Byte)
  /\ recv_buffer \in RingBuffers /\ recv_buffer.pos_read = 0
  /\ sent \in Seq(Frames) /\ Len(sent) <= MaxFrames
  /\ parsed \in Nat
  /\ made \in Seq(Request)
  /\ stray \in BOOLEAN /\ cut \in BOOLEAN /\ guessed \in BOOLEAN
  /\ broken \in BOOLEAN
  /\ conns \in 0 .. MaxConns

\* Nothing of a client is left for the next one.
Between == ~open => ~broken /\ recv_buffer.pos_write = 0 /\ wire = <<>>

\* FramesServed, for a slot with a client.
Intact ==
  open /\ ~guessed =>
    /\ parsed <= Len(sent)
    /\ made = Requested(SubSeq(sent, 1, parsed))
    /\ IF broken
       THEN Len(Flat(Unparsed)) > Last
       ELSE Held(recv_buffer) \o wire = Flat(Unparsed)

Following == Typed /\ Between /\ Intact /\ StraysExplained

LEMMA FollowingImplies == Following => FramesServed /\ StraysExplained
<1> SUFFICES ASSUME Following PROVE FramesServed /\ StraysExplained
  OBVIOUS
<1>1. Typed /\ Between /\ Intact /\ StraysExplained
  BY DEF Following
<1>2. ASSUME NEW k \in DOMAIN made PROVE made[k].type \in Byte /\ made[k].payload \in Seq(Byte)
  <2>1. made[k] \in Request
    BY <1>1 DEF Typed
  <2>2. QED
    BY <2>1 DEF Request
<1>3. TypeOK
  BY <1>1, <1>2 DEF Typed, TypeOK
<1>4. broken => open
  BY <1>1, Zenon DEF Between
<1>5. QED
  BY <1>1, <1>3, <1>4, Zenon DEF Intact, FramesServed

\* The handlers see one of three things at the front of the buffer.
LEMMA ParseCases ==
  ASSUME NEW rb, Parse(rb)
  PROVE  /\ cut' = IF guessed THEN cut ELSE cut \/ ~Arrived(rb)
         /\ \/ /\ Refuse(rb)
               /\ \/ At(rb, 0) # Sof
                  \/ Overhead + At(rb, 2) > Last
                  \/ At(rb, Overhead + At(rb, 2) - 1) # 0
            \/ /\ ParseOutside(rb)
               /\ Overhead + At(rb, 2) > Last
            \/ /\ Accept(rb, At(rb, 2), Arrived(rb))
               /\ ~(Overhead + At(rb, 2) > Last)
BY DEF Parse, Arrived

LEMMA Wraps == ASSUME NEW a \in Int PROVE Wrapped(a) \in 0 .. Last
BY RingBufferAssumption DEF Wrapped

\* The bytes at the front, and the buffer without them.
LEMMA FrontTyped ==
  ASSUME NEW rb \in RingBuffers, rb.pos_read = 0
  PROVE  /\ At(rb, 1) \in Byte /\ At(rb, 2) \in Nat
         /\ ~(Overhead + At(rb, 2) > Last) =>
              /\ Payload(At(rb, 1), rb, At(rb, 2)) \in Seq(Byte)
              /\ Consumed(rb, At(rb, 2)) \in RingBuffers
              /\ Consumed(rb, At(rb, 2)).pos_read = 0
<1>1. Last \in Nat /\ 5 <= Last /\ Byte \subseteq Nat
  BY RingBufferAssumption, TcpFramesAssumption DEF Overhead
<1>2. PICK array \in [0 .. Last -> Byte], w \in 0 .. Last :
        array = rb.buffer /\ w = rb.pos_write
  BY DEF RingBuffers
<1>3. \A k \in 1 .. 2 : At(rb, k) = array[k] /\ array[k] \in Byte
  <2>1. \A k \in 1 .. 2 : 0 + k = k /\ k \in 0 .. Last
    BY <1>1
  <2>2. QED
    BY <2>1, <1>2 DEF At
<1>4. PICK n \in Nat : n = At(rb, 2)
  <2>1. 2 \in 1 .. 2
    OBVIOUS
  <2>2. At(rb, 2) \in Byte
    BY <2>1, <1>3
  <2>3. QED
    BY <2>2, <1>1
<1>5. ASSUME ~(5 + n > Last) PROVE Payload(At(rb, 1), rb, n) \in Seq(Byte)
  <2>1. PICK copy : copy = [k \in 1 .. n |-> array[k + 3]]
    OBVIOUS
  <2>2. \A k \in 1 .. n : k + 3 \in 0 .. Last
    BY <1>1, <1>5
  <2>3. \A k \in 1 .. n : array[k + 3] \in Byte
    BY <2>2
  <2>4. copy \in Seq(Byte)
    BY <2>1, <2>3
  <2>5. <<>> \in Seq(Byte)
    OBVIOUS
  <2>6. QED
    BY <2>1, <2>4, <2>5, <1>2 DEF Payload
<1>6. ASSUME ~(5 + n > Last)
      PROVE  Clear(rb, 5 + n) \in RingBuffers /\ Clear(rb, 5 + n).pos_read = 0
  <2>1. PICK g \in Nat : g = 5 + n
    OBVIOUS
  <2>2. PICK after : after = [i \in 0 .. Last |->
                       IF i < Last - g THEN array[i + g] ELSE array[i]]
    OBVIOUS
  <2>3. \A i \in 0 .. Last : i < Last - g => i + g \in 0 .. Last
    BY <1>1
  <2>4. after \in [0 .. Last -> Byte]
    BY <2>2, <2>3
  <2>5. Wrapped(w - g) \in 0 .. Last
    BY <1>1, Wraps
  <2>6. Clear(rb, g) = [rb EXCEPT !.pos_read = 0, !.pos_write = Wrapped(w - g), !.buffer = after]
    BY <2>2, <1>2 DEF Clear
  <2>7. QED
    BY <2>1, <2>4, <2>5, <2>6, <1>1 DEF RingBuffers
<1>7. QED
  BY <1>3, <1>4, <1>5, <1>6 DEF Consumed, Overhead

-----------------------------------------------------------------------------
(* The handlers                                                            *)

\* The rest of FrontTyped: what the second handler may make of a frame.
LEMMA RequestMade ==
  ASSUME NEW requests \in Seq(Request), NEW t \in Byte, NEW p \in Seq(Byte)
  PROVE  Append(requests, [type |-> t, payload |-> p]) \in Seq(Request)
<1>1. [type |-> t, payload |-> p] \in Request
  BY DEF Request
<1>2. QED
  BY <1>1

\* The handlers keep the types.
LEMMA ParseTyped ==
  ASSUME NEW rb \in RingBuffers, rb.pos_read = 0, Parse(rb), Typed
  PROVE  /\ recv_buffer' \in RingBuffers /\ recv_buffer'.pos_read = 0
         /\ parsed' \in Nat /\ made' \in Seq(Request)
         /\ stray' \in BOOLEAN /\ cut' \in BOOLEAN /\ guessed' \in BOOLEAN
         /\ broken' \in BOOLEAN
<1>1. /\ made \in Seq(Request) /\ parsed \in Nat
      /\ stray \in BOOLEAN /\ cut \in BOOLEAN /\ guessed \in BOOLEAN /\ broken \in BOOLEAN
  BY DEF Typed
<1>2. cut' \in BOOLEAN
  <2>1. cut' = IF guessed THEN cut ELSE cut \/ ~Arrived(rb)
    BY ParseCases
  <2>2. (cut \/ ~Arrived(rb)) \in BOOLEAN
    BY Zenon
  <2>3. QED
    BY <2>1, <2>2, <1>1, Zenon
<1>3. ASSUME NothingQueued PROVE stray' \in BOOLEAN /\ made' = made
  BY <1>1, <1>3, Zenon DEF NothingQueued
<1>4. ASSUME Refuse(rb)
      PROVE  /\ recv_buffer' = rb /\ parsed' = parsed /\ made' = made
             /\ stray' \in BOOLEAN /\ guessed' = guessed /\ broken' = broken
  BY <1>3, <1>4, Zenon DEF Refuse
<1>5. CASE Refuse(rb)
  BY <1>1, <1>2, <1>4, <1>5
<1>6. CASE ParseOutside(rb)
  <2>1. Refuse(rb) \/ (broken' = TRUE /\ guessed' = TRUE
          /\ UNCHANGED <<recv_buffer, parsed, made, stray>>)
    BY <1>6, Zenon DEF ParseOutside
  <2>2. CASE Refuse(rb)
    BY <2>2, <1>5
  <2>3. CASE broken' = TRUE /\ guessed' = TRUE
               /\ UNCHANGED <<recv_buffer, parsed, made, stray>>
    BY <2>3, <1>1, <1>2 DEF Typed
  <2>4. QED
    BY <2>1, <2>2, <2>3
<1>7. CASE Accept(rb, At(rb, 2), Arrived(rb)) /\ ~(Overhead + At(rb, 2) > Last)
  <2>1. PICK t, p, b : t = At(rb, 1) /\ p = Payload(t, rb, At(rb, 2)) /\ b = Consumed(rb, At(rb, 2))
    OBVIOUS
  <2>2. t \in Byte /\ p \in Seq(Byte) /\ b \in RingBuffers /\ b.pos_read = 0
    BY <1>7, <2>1, FrontTyped
  <2>3. /\ IF Queues(t) THEN Queued([type |-> t, payload |-> p]) ELSE NothingQueued
        /\ recv_buffer' = b
        /\ parsed' = IF guessed THEN parsed ELSE parsed + 1
        /\ guessed' = (guessed \/ ~Arrived(rb))
        /\ broken' = broken
    BY <1>7, <2>1 DEF Accept
  <2>4. parsed' \in Nat
    BY <2>3, <1>1
  <2>5. guessed' \in BOOLEAN
    <3>1. (guessed \/ ~Arrived(rb)) \in BOOLEAN
      BY Zenon
    <3>2. QED
      BY <2>3, <3>1, Zenon
  <2>6. stray' \in BOOLEAN /\ made' \in Seq(Request)
    <3>1. CASE Queues(t)
      <4>1. Queued([type |-> t, payload |-> p])
        BY <2>3, <3>1, Zenon
      <4>2. stray' = stray /\ made' = IF guessed THEN made ELSE Append(made, [type |-> t, payload |-> p])
        BY <4>1 DEF Queued
      <4>3. Append(made, [type |-> t, payload |-> p]) \in Seq(Request)
        BY <1>1, <2>2, RequestMade
      <4>4. made' \in Seq(Request)
        BY <4>2, <4>3, <1>1, Zenon
      <4>5. QED
        BY <4>2, <4>4, <1>1, Zenon
    <3>2. CASE ~Queues(t)
      <4>1. NothingQueued
        BY <2>3, <3>2, Zenon
      <4>2. QED
        BY <4>1, <1>1, <1>3, Zenon
    <3>3. QED
      BY <3>1, <3>2, Zenon
  <2>7. QED
    BY <1>1, <1>2, <2>2, <2>3, <2>4, <2>5, <2>6, Zenon
<1>8. QED
  BY <1>5, <1>6, <1>7, ParseCases, Zenon

\* What recv and the handlers make of a slot whose bytes are in order.
Waiting(rb, rest) == Held(rb) \o rest = Flat(Unparsed)

\* From a guess on, only the buffer is followed.
LEMMA ParseGuessed ==
  ASSUME NEW rb, Parse(rb), Typed, guessed
  PROVE  guessed' /\ stray' = stray /\ cut' = cut /\ parsed' = parsed
<1>1. guessed = TRUE
  BY Zenon DEF Typed
<1>2. cut' = cut
  BY <1>1, ParseCases
<1>3. NothingQueued => stray' = stray
  BY <1>1 DEF NothingQueued
<1>4. Refuse(rb) => guessed' = guessed /\ stray' = stray /\ parsed' = parsed
  BY <1>3 DEF Refuse
<1>5. ParseOutside(rb) => guessed' /\ stray' = stray /\ parsed' = parsed
  BY <1>1, <1>4 DEF ParseOutside
<1>6. Accept(rb, At(rb, 2), Arrived(rb)) => guessed' /\ stray' = stray /\ parsed' = parsed
  <2>1. SUFFICES ASSUME Accept(rb, At(rb, 2), Arrived(rb))
                 PROVE  guessed' /\ stray' = stray /\ parsed' = parsed
    OBVIOUS
  <2>2. \A r : Queued(r) => stray' = stray
    BY DEF Queued
  <2>3. /\ NothingQueued \/ \E r : Queued(r)
        /\ parsed' = IF guessed THEN parsed ELSE parsed + 1
        /\ guessed' = (guessed \/ ~Arrived(rb))
    BY <2>1, Zenon DEF Accept
  <2>4. stray' = stray
    BY <2>2, <2>3, <1>3, Zenon
  <2>5. QED
    BY <2>3, <2>4, <1>1, Zenon
<1>7. QED
  BY <1>1, <1>2, <1>4, <1>5, <1>6, ParseCases, Zenon

\* A whole frame at the front is accepted, and queued when its type is one of the two.
LEMMA ParseArrived ==
  ASSUME NEW rb \in RingBuffers, rb.pos_read = 0, NEW rest \in Seq(Byte),
         NEW f, NEW left, FoundAt(rb, rest, f, left),
         Parse(rb), Typed, ~guessed, Arrived(rb)
  PROVE  /\ ~guessed' /\ parsed' = parsed + 1 /\ broken' = broken /\ cut' = cut
         /\ Held(recv_buffer') \o rest = Flat(left)
         /\ IF IsKnown(f.type)
            THEN made' = Append(made, AsRequest(f)) /\ stray' = stray
            ELSE made' = made
<1>1. guessed = FALSE /\ cut \in BOOLEAN
  BY Zenon DEF Typed
<1>2. /\ At(rb, 0) = Sof /\ At(rb, 1) = f.type /\ Overhead + At(rb, 2) <= Last
      /\ At(rb, Overhead + At(rb, 2) - 1) = 0
      /\ Payload(At(rb, 1), rb, At(rb, 2)) = AsRequest(f).payload
      /\ Held(Consumed(rb, At(rb, 2))) \o rest = Flat(left)
  BY DEF FoundAt
<1>3. ~(Overhead + At(rb, 2) > Last)
  <2>1. At(rb, 2) \in Nat /\ Last \in Nat
    BY FrontTyped, RingBufferAssumption
  <2>2. QED
    BY <1>2, <2>1 DEF Overhead
<1>4. Accept(rb, At(rb, 2), Arrived(rb))
  BY <1>2, <1>3, ParseCases, Zenon
<1>5. cut' = cut
  <2>1. cut' = IF guessed THEN cut ELSE cut \/ ~Arrived(rb)
    BY ParseCases
  <2>2. QED
    BY <2>1, <1>1, Zenon
<1>6. [type |-> f.type, payload |-> AsRequest(f).payload] = AsRequest(f)
  BY DEF AsRequest
<1>7. /\ IF Queues(f.type) THEN Queued(AsRequest(f)) ELSE NothingQueued
      /\ recv_buffer' = Consumed(rb, At(rb, 2))
      /\ parsed' = IF guessed THEN parsed ELSE parsed + 1
      /\ guessed' = (guessed \/ ~Arrived(rb))
      /\ broken' = broken
  BY <1>2, <1>4, <1>6 DEF Accept
<1>8. ~guessed' /\ parsed' = parsed + 1
  BY <1>1, <1>7, Zenon
<1>9. IF IsKnown(f.type)
      THEN made' = Append(made, AsRequest(f)) /\ stray' = stray
      ELSE made' = made
  <2>1. Queued(AsRequest(f)) => made' = Append(made, AsRequest(f)) /\ stray' = stray
    BY <1>1 DEF Queued
  <2>2. NothingQueued => made' = made
    BY DEF NothingQueued
  <2>3. QED
    BY <2>1, <2>2, <1>7, Zenon DEF Queues
<1>10. QED
  BY <1>2, <1>5, <1>7, <1>8, <1>9, Zenon

\* A frame looked at too early leaves everything as it was, or the slot is no longer
\* followed.
LEMMA ParseCut ==
  ASSUME NEW rb \in RingBuffers, Parse(rb), Typed, ~guessed, ~Arrived(rb)
  PROVE  /\ cut'
         /\ ~guessed' => /\ recv_buffer' = rb /\ parsed' = parsed /\ made' = made
                         /\ broken' = broken
<1>1. guessed = FALSE
  BY Zenon DEF Typed
<1>2. cut'
  <2>1. cut' = IF guessed THEN cut ELSE cut \/ ~Arrived(rb)
    BY ParseCases
  <2>2. QED
    BY <2>1, <1>1, Zenon
<1>3. Refuse(rb) => recv_buffer' = rb /\ parsed' = parsed /\ made' = made /\ broken' = broken
  BY DEF Refuse, NothingQueued
<1>4. ParseOutside(rb) => Refuse(rb) \/ guessed' = TRUE
  BY DEF ParseOutside
<1>5. Accept(rb, At(rb, 2), Arrived(rb)) => guessed' = (guessed \/ ~Arrived(rb))
  BY DEF Accept
<1>6. QED
  BY <1>2, <1>3, <1>4, <1>5, ParseCases, Zenon

-----------------------------------------------------------------------------
(* The steps                                                               *)

\* Every step keeps the types, and the position of reading at the front.
LEMMA TypeStep == Typed /\ [Next]_vars => Typed'
<1> SUFFICES ASSUME Typed, [Next]_vars PROVE Typed'
  OBVIOUS
<1>1. /\ open \in BOOLEAN /\ fin \in BOOLEAN
      /\ stray \in BOOLEAN /\ cut \in BOOLEAN /\ guessed \in BOOLEAN /\ broken \in BOOLEAN
  BY Zenon DEF Typed
<1>2. /\ wire \in Seq(Byte) /\ recv_buffer \in RingBuffers /\ recv_buffer.pos_read = 0
      /\ sent \in Seq(Frames) /\ Len(sent) <= MaxFrames /\ parsed \in Nat
      /\ made \in Seq(Request) /\ conns \in 0 .. MaxConns
  BY DEF Typed
<1>3. UNCHANGED vars => Typed'
  BY <1>1, <1>2 DEF vars, history, Typed
<1>4. ASSUME Connect PROVE Typed'
  <2>1. /\ conns' \in 0 .. MaxConns
        /\ sent' \in Seq(Frames) /\ Len(sent') <= MaxFrames /\ parsed' \in Nat
        /\ made' \in Seq(Request)
    BY <1>2, <1>4, TcpFramesAssumption DEF Connect
  <2>2. /\ open' \in BOOLEAN /\ fin' \in BOOLEAN
        /\ stray' \in BOOLEAN /\ cut' \in BOOLEAN /\ guessed' \in BOOLEAN
        /\ broken' = broken /\ wire' = wire /\ recv_buffer' = recv_buffer
    BY <1>4 DEF Connect
  <2>3. QED
    BY <1>1, <1>2, <2>1, <2>2, Zenon DEF Typed
<1>5. ASSUME NEW f \in Frames, PeerSends(f) PROVE Typed'
  <2>1. sent' \in Seq(Frames) /\ Len(sent') <= MaxFrames
    BY <1>2, <1>5, TcpFramesAssumption DEF PeerSends
  <2>2. wire' \in Seq(Byte)
    <3>1. Bytes(f) \in Seq(Byte)
      BY FlatTyped
    <3>2. wire' = wire \o Bytes(f)
      BY <1>5 DEF PeerSends
    <3>3. QED
      BY <1>2, <3>1, <3>2
  <2>3. UNCHANGED <<open, fin, recv_buffer, history, broken, conns>>
    BY <1>5 DEF PeerSends
  <2>4. QED
    BY <1>1, <1>2, <2>1, <2>2, <2>3, Zenon DEF Typed, history
<1>6. ASSUME PeerCloses PROVE Typed'
  <2>1. fin' = TRUE /\ UNCHANGED <<open, wire, recv_buffer, sent, history, broken, conns>>
    BY <1>6 DEF PeerCloses
  <2>2. QED
    BY <1>1, <1>2, <2>1, Zenon DEF Typed, history
<1>7. ASSUME NEW n \in 0 .. Len(wire), Visit(n) PROVE Typed'
  <2>1. /\ wire' = SubSeq(wire, n + 1, Len(wire)) /\ UNCHANGED <<open, fin, sent, conns>>
    BY <1>7 DEF Visit
  <2>2. wire' \in Seq(Byte)
    BY <1>2, <2>1, Pieces
  <2>3. CASE ~Fits(recv_buffer, n)
    <3>1. broken' = TRUE /\ UNCHANGED <<recv_buffer, history>>
      BY <1>7, <2>3 DEF Visit
    <3>2. QED
      BY <1>1, <1>2, <2>1, <2>2, <3>1, Zenon DEF Typed, history
  <2>4. CASE Fits(recv_buffer, n)
    <3>1. PICK rb : rb = Write(recv_buffer, SubSeq(wire, 1, n))
      OBVIOUS
    <3>2. rb \in RingBuffers /\ rb.pos_read = 0
      BY <1>2, <2>4, <3>1, WriteMoves
    <3>3. \/ Parse(rb)
          \/ recv_buffer' = rb /\ UNCHANGED <<history, broken>>
      BY <1>7, <2>4, <3>1 DEF Visit
    <3>4. CASE Parse(rb)
      BY <1>1, <1>2, <2>1, <2>2, <3>2, <3>4, ParseTyped, Zenon DEF Typed
    <3>5. CASE recv_buffer' = rb /\ UNCHANGED <<history, broken>>
      BY <1>1, <1>2, <2>1, <2>2, <3>2, <3>5, Zenon DEF Typed, history
    <3>6. QED
      BY <3>3, <3>4, <3>5
  <2>5. QED
    BY <2>3, <2>4
<1>8. ASSUME VisitClosed PROVE Typed'
  <2>1. /\ open' = FALSE /\ recv_buffer' = Emptied(recv_buffer)
        /\ UNCHANGED <<fin, wire, sent, history, broken, conns>>
    BY <1>8 DEF VisitClosed, AtClose
  <2>2. recv_buffer' \in RingBuffers /\ recv_buffer'.pos_read = 0
    <3>1. 0 \in 0 .. Last
      BY RingBufferAssumption
    <3>2. QED
      BY <1>2, <2>1, <3>1 DEF Emptied, RingBuffers
  <2>3. QED
    BY <1>1, <1>2, <2>1, <2>2, Zenon DEF Typed, history
<1>9. QED
  <2>1. \A n \in 1 .. Len(wire) : n \in 0 .. Len(wire)
    BY <1>2
  <2>2. 0 \in 0 .. Len(wire)
    BY <1>2
  <2>3. ASSUME Next PROVE Typed'
    <3>1. CASE Server
      BY <3>1, <2>1, <2>2, <1>7, <1>8, Zenon DEF Server
    <3>2. CASE Peer
      BY <3>2, <1>4, <1>5, <1>6, Zenon DEF Peer
    <3>3. CASE Done
      BY <3>3, <1>3, Zenon DEF Done
    <3>4. QED
      BY <2>3, <3>1, <3>2, <3>3 DEF Next
  <2>4. QED
    BY <1>3, <2>3

\* Nothing arrived and nothing is held when nothing was sent.
LEMMA NothingYet ==
  /\ SubSeq(<<>>, 1, 0) = <<>> /\ SubSeq(<<>>, 1, Len(<<>>)) = <<>>
  /\ \A rb : rb.pos_read = 0 /\ rb.pos_write = 0 => Held(rb) = <<>>
<1>1. SubSeq(<<>>, 1, 0) = <<>> /\ SubSeq(<<>>, 1, Len(<<>>)) = <<>>
  OBVIOUS
<1>2. ASSUME NEW rb, rb.pos_read = 0, rb.pos_write = 0 PROVE Held(rb) = <<>>
  BY <1>2 DEF Held
<1>3. QED
  BY <1>1, <1>2

\* A new slot.
LEMMA InitFollowing == Init => Following
<1> SUFFICES ASSUME Init PROVE Following
  OBVIOUS
<1>1. /\ open = FALSE /\ fin = FALSE /\ wire = <<>> /\ sent = <<>> /\ parsed = 0 /\ made = <<>>
      /\ stray = FALSE /\ cut = FALSE /\ guessed = FALSE /\ broken = FALSE /\ conns = 0
  BY DEF Init
<1>2. /\ recv_buffer \in RingBuffers
      /\ recv_buffer.pos_read = 0 /\ recv_buffer.pos_write = 0
  <2>1. PICK b \in Stale :
          recv_buffer = [buffer |-> [i \in 0 .. Last |-> b], pos_read |-> 0, pos_write |-> 0]
    BY DEF Init
  <2>2. [i \in 0 .. Last |-> b] \in [0 .. Last -> Byte] /\ 0 \in 0 .. Last
    BY TcpFramesAssumption, RingBufferAssumption
  <2>3. QED
    BY <2>1, <2>2 DEF RingBuffers
<1>3. /\ wire \in Seq(Byte) /\ sent \in Seq(Frames) /\ Len(sent) <= MaxFrames
      /\ parsed \in Nat /\ made \in Seq(Request) /\ conns \in 0 .. MaxConns
  BY <1>1, TcpFramesAssumption
<1>4. Typed
  BY <1>1, <1>2, <1>3, Zenon DEF Typed
<1>5. Between /\ Intact /\ StraysExplained
  BY <1>1, <1>2, Zenon DEF Between, Intact, StraysExplained
<1>6. QED
  BY <1>4, <1>5 DEF Following

\* A new client finds the slot as a new one has it.
LEMMA ConnectFollowing == Following /\ Connect => Between' /\ Intact' /\ StraysExplained'
<1> SUFFICES ASSUME Following, Connect PROVE Between' /\ Intact' /\ StraysExplained'
  OBVIOUS
<1>1. /\ ~open /\ ~broken /\ open' = TRUE /\ sent' = <<>> /\ parsed' = 0 /\ made' = <<>>
      /\ stray' = FALSE /\ UNCHANGED <<wire, recv_buffer, broken>>
  BY DEF Connect
<1>2. wire' = <<>> /\ recv_buffer'.pos_write = 0 /\ recv_buffer'.pos_read = 0 /\ ~broken'
  BY <1>1 DEF Following, Between, Typed
<1>3. Unparsed' = <<>> /\ SubSeq(sent', 1, parsed') = <<>>
  <2>1. Unparsed' = SubSeq(<<>>, 1, Len(<<>>)) /\ SubSeq(sent', 1, parsed') = SubSeq(<<>>, 1, 0)
    BY <1>1 DEF Unparsed
  <2>2. QED
    BY <2>1, NothingYet
<1>4. Held(recv_buffer') = <<>>
  BY <1>2, NothingYet
<1>5. parsed' <= Len(sent')
  BY <1>1
<1>6. Held(recv_buffer') \o wire' = Flat(Unparsed')
  <2>1. Held(recv_buffer') \o wire' = <<>> \o <<>> /\ <<>> \o <<>> = <<>>
    BY <1>2, <1>4
  <2>2. QED
    BY <2>1, <1>3, NothingFlat
<1>7. made' = Requested(SubSeq(sent', 1, parsed'))
  BY <1>1, <1>3, NothingFlat
<1>8. Intact'
  BY <1>2, <1>5, <1>6, <1>7 DEF Intact, Unparsed
<1>9. Between' /\ StraysExplained'
  BY <1>1, Zenon DEF Between, StraysExplained
<1>10. QED
  BY <1>8, <1>9

\* A frame goes behind what is unparsed, on the wire and in the history alike.
LEMMA PeerSendsFollowing ==
  ASSUME Following, NEW f \in Frames, PeerSends(f)
  PROVE  Between' /\ Intact' /\ StraysExplained'
<1>1. Typed /\ Between /\ Intact /\ StraysExplained
  BY DEF Following
<1>2. /\ open /\ ~guessed
      /\ sent' = Append(sent, f) /\ wire' = wire \o Bytes(f)
      /\ UNCHANGED <<open, recv_buffer, parsed, made, stray, cut, guessed, broken>>
  BY DEF PeerSends, history
<1>3. /\ parsed <= Len(sent) /\ made = Requested(SubSeq(sent, 1, parsed))
      /\ IF broken THEN Len(Flat(Unparsed)) > Last
         ELSE Held(recv_buffer) \o wire = Flat(Unparsed)
  BY <1>1, <1>2, Zenon DEF Intact
<1>4. /\ sent \in Seq(Frames) /\ parsed \in Nat /\ wire \in Seq(Byte)
      /\ recv_buffer \in RingBuffers /\ recv_buffer.pos_read = 0
  BY <1>1 DEF Typed
<1>5. /\ parsed <= Len(sent') /\ SubSeq(sent', 1, parsed) = SubSeq(sent, 1, parsed)
      /\ SubSeq(sent', parsed + 1, Len(sent')) = Append(SubSeq(sent, parsed + 1, Len(sent)), f)
      /\ \A k \in 1 .. parsed : sent'[k] = sent[k]
  BY <1>2, <1>3, <1>4, OneMoreUnparsed
<1>6. Unparsed' = Append(Unparsed, f) /\ Unparsed \in Seq(Frames)
  <2>1. SubSeq(sent, parsed + 1, Len(sent)) \in Seq(Frames)
    BY <1>3, <1>4, NextUnparsed
  <2>2. QED
    BY <2>1, <1>2, <1>5 DEF Unparsed
<1>7. PICK old, new, bytes : old = Flat(Unparsed) /\ new = Flat(Unparsed)' /\ bytes = Bytes(f)
  OBVIOUS
<1>8. old \in Seq(Byte) /\ new = old \o bytes
  <2>1. Flat(Unparsed') = Flat(Unparsed) \o Bytes(f) /\ Flat(Unparsed) \in Seq(Byte)
    BY <1>6, FlatAppend
  <2>2. Flat(Unparsed)' = Flat(Unparsed')
    BY DEF Flat
  <2>3. QED
    BY <1>7, <2>1, <2>2
<1>9. bytes \in Seq(Byte)
  BY <1>7, FlatTyped
<1>10. IF broken' THEN Len(Flat(Unparsed)') > Last
       ELSE (Held(recv_buffer) \o wire)' = Flat(Unparsed)'
  <2>1. CASE broken
    <3>1. PICK o, m, b : o = Len(old) /\ m = Len(new) /\ b = Len(bytes)
      OBVIOUS
    <3>2. o \in Nat /\ b \in Nat /\ m = o + b
      <4>1. /\ new \in Seq(Byte) /\ o \in Nat /\ b \in Nat /\ Len(new) = o + b
            /\ \A k \in 1 .. o + b : new[k] = IF k <= o THEN old[k] ELSE bytes[k - o]
        BY ONLY <3>1, <1>8, <1>9, BothParts
      <4>2. QED
        BY <3>1, <4>1
    <3>3. o > Last
      BY <2>1, <1>3, <1>7, <3>1
    <3>4. m > Last
      BY <3>2, <3>3, RingBufferAssumption
    <3>5. QED
      BY <2>1, <1>2, <1>7, <3>1, <3>4
  <2>2. CASE ~broken
    <3>1. PICK h : h = Held(recv_buffer)
      OBVIOUS
    <3>2. h \in Seq(Byte)
      <4>1. PICK w : w = recv_buffer.pos_write /\ 0 <= w
        BY <1>4, RingBufferAssumption DEF RingBuffers
      <4>2. QED
        BY <4>1, <1>4, <3>1, HeldIs
    <3>3. (h \o wire) \o bytes = h \o (wire \o bytes)
      <4>1. Regroup(h, wire, bytes)
        BY ONLY <1>4, <1>9, <3>2, Regrouped
      <4>2. QED
        BY <4>1 DEF Regroup
    <3>4. h \o wire = old
      BY <2>2, <1>3, <1>7, <3>1
    <3>5. h \o wire' = new
      BY <3>3, <3>4, <1>2, <1>7, <1>8
    <3>6. Held(recv_buffer)' = h
      BY <1>2, <3>1 DEF Held, At
    <3>7. QED
      BY <2>2, <1>2, <1>7, <3>5, <3>6
  <2>3. QED
    BY <2>1, <2>2
<1>11. Requested(SubSeq(sent, 1, parsed))' = Requested(SubSeq(sent, 1, parsed))
  BY <1>2, <1>5
<1>12. Intact'
  BY <1>2, <1>3, <1>5, <1>10, <1>11 DEF Intact
<1>13. Between'
  BY <1>2 DEF Between
<1>14. StraysExplained'
  BY <1>1, <1>2, <1>5 DEF StraysExplained
<1>15. QED
  BY <1>12, <1>13, <1>14

\* What is read goes from the wire to the buffer; what is parsed is the first frame
\* that was not, or a piece of it.
LEMMA VisitFollowing ==
  ASSUME Following, NEW n \in 0 .. Len(wire), Visit(n)
  PROVE  Between' /\ Intact' /\ StraysExplained'
<1>1. Typed /\ Between /\ Intact /\ StraysExplained
  BY DEF Following
<1>2. /\ sent \in Seq(Frames) /\ parsed \in Nat /\ wire \in Seq(Byte)
      /\ recv_buffer \in RingBuffers /\ recv_buffer.pos_read = 0
  BY <1>1 DEF Typed
<1>3. /\ open /\ ~broken /\ wire' = SubSeq(wire, n + 1, Len(wire))
      /\ UNCHANGED <<open, fin, sent, conns>>
  BY DEF Visit
<1>4. Between'
  BY <1>3, Zenon DEF Between
<1>5. ASSUME ~guessed
      PROVE  /\ parsed <= Len(sent) /\ made = Requested(SubSeq(sent, 1, parsed))
             /\ Held(recv_buffer) \o wire = Flat(Unparsed)
             /\ Unparsed \in Seq(Frames)
  <2>1. /\ parsed <= Len(sent) /\ made = Requested(SubSeq(sent, 1, parsed))
        /\ Held(recv_buffer) \o wire = Flat(Unparsed)
    BY <1>1, <1>3, <1>5, Zenon DEF Intact
  <2>2. SubSeq(sent, parsed + 1, Len(sent)) \in Seq(Frames)
    BY <1>2, <2>1, NextUnparsed
  <2>3. QED
    BY <2>1, <2>2 DEF Unparsed
<1>6. ASSUME UNCHANGED <<parsed, stray, cut>>
      PROVE  StraysExplained'
  BY <1>1, <1>3, <1>6 DEF StraysExplained
<1>7. ASSUME UNCHANGED <<sent, parsed>>
      PROVE  /\ Unparsed' = Unparsed /\ Flat(Unparsed)' = Flat(Unparsed)
             /\ Requested(SubSeq(sent, 1, parsed))' = Requested(SubSeq(sent, 1, parsed))
  BY <1>7 DEF Unparsed
<1>8. CASE ~Fits(recv_buffer, n)
  <2>1. broken' = TRUE /\ UNCHANGED <<recv_buffer, parsed, made, stray, cut, guessed>>
    BY <1>8 DEF Visit, history
  <2>2. ASSUME ~guessed PROVE Len(Flat(Unparsed)) > Last
    <3>1. PICK w \in Nat : w = recv_buffer.pos_write
      BY <1>2, RingBufferAssumption DEF RingBuffers
    <3>2. PICK h, c : h = Held(recv_buffer) /\ c = h \o wire
      OBVIOUS
    <3>3. h \in Seq(Byte) /\ Len(h) = w
      <4>1. Held(recv_buffer) \in Seq(Byte) /\ Len(Held(recv_buffer)) = w - 0
        BY <1>2, <3>1, HeldIs
      <4>2. QED
        BY <3>1, <3>2, <4>1
    <3>4. PICK l \in Nat : l = Len(wire)
      BY <1>2
    <3>5. Len(c) = w + l
      <4>1. h \in Seq(Byte) /\ c = h \o wire
        BY <3>2, <3>3
      <4>2. PICK o, q : o = Len(h) /\ q = Len(wire)
        OBVIOUS
      <4>3. /\ c \in Seq(Byte) /\ o \in Nat /\ q \in Nat /\ Len(c) = o + q
            /\ \A k \in 1 .. o + q : c[k] = IF k <= o THEN h[k] ELSE wire[k - o]
        BY ONLY <1>2, <4>1, <4>2, BothParts
      <4>4. QED
        BY <3>3, <3>4, <4>2, <4>3
    <3>6. ~(n <= Last - w) /\ n <= l /\ n \in Nat
      BY <1>8, <3>1, <3>4 DEF Fits
    <3>7. w + l > Last
      BY <3>6, RingBufferAssumption
    <3>8. c = Flat(Unparsed)
      BY <1>5, <2>2, <3>2
    <3>9. QED
      BY <3>5, <3>7, <3>8
  <2>3. Intact'
    BY <1>5, <1>7, <1>3, <2>1, <2>2 DEF Intact
  <2>4. QED
    BY <1>4, <1>6, <2>1, <2>3
<1>9. CASE Fits(recv_buffer, n)
  <2>1. PICK rb, rest : rb = Write(recv_buffer, SubSeq(wire, 1, n)) /\ rest = wire'
    OBVIOUS
  <2>2. /\ rb \in RingBuffers /\ rb.pos_read = 0 /\ rest \in Seq(Byte)
        /\ Held(rb) \o rest = Held(recv_buffer) \o wire
    BY <1>2, <1>3, <1>9, <2>1, WriteMoves
  <2>3. IF HasBytes(rb, n) THEN Parse(rb) ELSE recv_buffer' = rb /\ UNCHANGED <<history, broken>>
    BY <1>9, <2>1 DEF Visit
  <2>4. CASE ~HasBytes(rb, n)
    <3>1. recv_buffer' = rb /\ UNCHANGED <<parsed, made, stray, cut, guessed, broken>>
      BY <2>3, <2>4 DEF history
    <3>2. Held(recv_buffer)' = Held(rb)
      BY <3>1 DEF Held, At
    <3>3. ASSUME ~guessed PROVE (Held(recv_buffer) \o wire)' = Flat(Unparsed)'
      BY <1>3, <1>5, <1>7, <2>1, <2>2, <3>1, <3>2, <3>3
    <3>4. Intact'
      BY <1>5, <1>7, <1>3, <3>1, <3>3 DEF Intact
    <3>5. QED
      BY <1>4, <1>6, <3>1, <3>4
  <2>5. CASE HasBytes(rb, n) /\ guessed
    <3>1. guessed' /\ stray' = stray /\ cut' = cut /\ parsed' = parsed
      BY <1>1, <2>3, <2>5, ParseGuessed
    <3>2. QED
      BY <1>4, <1>6, <3>1 DEF Intact
  <2>6. CASE HasBytes(rb, n) /\ ~guessed
    <3>1. Parse(rb) /\ rb.pos_write > 0 /\ Held(rb) \o rest = Flat(Unparsed)
      BY <1>5, <2>2, <2>3, <2>6 DEF HasBytes
    <3>2. Unparsed \in Seq(Frames) /\ Unparsed # <<>>
      BY <1>5, <2>2, <2>6, <3>1, SomethingWaits
    <3>3. CASE Arrived(rb)
      <4>1. PICK f, left : f = Head(Unparsed) /\ left = Tail(Unparsed)
        OBVIOUS
      <4>2. /\ parsed + 1 <= Len(sent) /\ f = sent[parsed + 1] /\ f \in Frames
            /\ left = SubSeq(sent, parsed + 1 + 1, Len(sent))
            /\ SubSeq(sent, 1, parsed + 1) = Append(SubSeq(sent, 1, parsed), f)
            /\ SubSeq(sent, 1, parsed) \in Seq(Frames)
        BY <1>2, <1>5, <2>6, <3>2, <4>1, NextUnparsed DEF Unparsed
      <4>3. FoundAt(rb, rest, f, left)
        BY <2>2, <3>1, <3>2, <3>3, <4>1, ArrivedIsFound
      <4>4. /\ ~guessed' /\ parsed' = parsed + 1 /\ broken' = broken /\ cut' = cut
            /\ Held(recv_buffer') \o rest = Flat(left)
            /\ IF IsKnown(f.type)
               THEN made' = Append(made, AsRequest(f)) /\ stray' = stray
               ELSE made' = made
        BY <1>1, <2>2, <2>6, <3>1, <3>3, <4>3, ParseArrived
      <4>5. made' = Requested(SubSeq(sent, 1, parsed))'
        <5>1. PICK reqs : reqs = Requested(SubSeq(sent, 1, parsed))
          OBVIOUS
        <5>2. Requested(Append(SubSeq(sent, 1, parsed), f)) = reqs \o Requests(f)
          BY <4>2, <5>1, RequestedAppend
        <5>3. made = reqs /\ made \in Seq(Request)
          BY <1>1, <1>5, <2>6, <5>1 DEF Typed
        <5>4. made' = made \o Requests(f)
          <6>1. CASE IsKnown(f.type)
            <7>1. made' = Append(made, AsRequest(f)) /\ Requests(f) = <<AsRequest(f)>>
              BY <4>4, <6>1 DEF Requests
            <7>2. PICK r : r = AsRequest(f)
              OBVIOUS
            <7>3. Append(made, r) = made \o <<r>>
              BY <5>3
            <7>4. QED
              BY <7>1, <7>2, <7>3
          <6>2. CASE ~IsKnown(f.type)
            <7>1. made' = made /\ Requests(f) = <<>>
              BY <4>4, <6>2 DEF Requests
            <7>2. made \o <<>> = made
              BY <5>3
            <7>3. QED
              BY <7>1, <7>2
          <6>3. QED
            BY <6>1, <6>2
        <5>5. Requested(SubSeq(sent, 1, parsed))' = Requested(SubSeq(sent, 1, parsed + 1))
          BY <1>3, <4>4
        <5>6. QED
          BY <4>2, <5>2, <5>3, <5>4, <5>5
      <4>6. Unparsed' = left
        BY <1>3, <4>2, <4>4 DEF Unparsed
      <4>7. Flat(Unparsed)' = Flat(left)
        BY <4>6
      <4>8. (Held(recv_buffer) \o wire)' = Flat(Unparsed)'
        <5>1. Held(recv_buffer)' = Held(recv_buffer')
          BY DEF Held, At
        <5>2. QED
          BY <2>1, <4>4, <4>7, <5>1
      <4>9. Intact'
        BY <1>3, <4>2, <4>4, <4>5, <4>8 DEF Intact
      <4>10. StraysExplained'
        <5>1. CASE IsKnown(f.type)
          <6>1. stray' = stray /\ 1 .. parsed \subseteq 1 .. parsed'
            BY <1>2, <4>4, <5>1
          <6>2. QED
            BY <1>1, <1>3, <4>4, <6>1 DEF StraysExplained
        <5>2. CASE ~IsKnown(f.type)
          <6>1. parsed + 1 \in 1 .. parsed' /\ ~IsKnown(sent'[parsed + 1].type)
            BY <1>2, <1>3, <4>2, <4>4, <5>2
          <6>2. QED
            BY <6>1 DEF StraysExplained
        <5>3. QED
          BY <5>1, <5>2
      <4>11. QED
        BY <1>4, <4>9, <4>10
    <3>4. CASE ~Arrived(rb)
      <4>1. /\ cut'
            /\ ~guessed' => /\ recv_buffer' = rb /\ parsed' = parsed /\ made' = made
                            /\ broken' = broken
        BY <1>1, <2>2, <2>6, <3>1, <3>4, ParseCut
      <4>2. ASSUME ~guessed' PROVE (Held(recv_buffer) \o wire)' = Flat(Unparsed)'
        <5>1. Held(recv_buffer)' = Held(rb) /\ Flat(Unparsed)' = Flat(Unparsed)
          BY <1>3, <1>7, <4>1, <4>2 DEF Held, At
        <5>2. QED
          BY <2>1, <3>1, <5>1
      <4>3. ASSUME ~guessed'
            PROVE  /\ parsed' <= Len(sent')
                   /\ made' = Requested(SubSeq(sent, 1, parsed))'
                   /\ ~broken'
        BY <1>3, <1>5, <1>7, <2>6, <4>1, <4>3
      <4>5. Intact'
        BY <4>2, <4>3, Zenon DEF Intact
      <4>4. QED
        BY <1>4, <4>1, <4>5 DEF StraysExplained
    <3>5. QED
      BY <3>3, <3>4
  <2>7. QED
    BY <2>4, <2>5, <2>6
<1>10. QED
  BY <1>8, <1>9

\* The positions go back to the front: nothing is held any more.
LEMMA VisitClosedFollowing ==
  Following /\ VisitClosed => Between' /\ Intact' /\ StraysExplained'
<1> SUFFICES ASSUME Following, VisitClosed PROVE Between' /\ Intact' /\ StraysExplained'
  OBVIOUS
<1>1. /\ ~broken /\ wire = <<>> /\ open' = FALSE /\ recv_buffer' = Emptied(recv_buffer)
      /\ UNCHANGED <<wire, sent, parsed, made, stray, cut, guessed, broken>>
  BY DEF VisitClosed, AtClose, history
<1>2. recv_buffer'.pos_write = 0
  BY <1>1 DEF Following, Typed, Emptied, RingBuffers
<1>3. Between'
  BY <1>1, <1>2 DEF Between
<1>4. Intact'
  BY <1>1 DEF Intact
<1>5. StraysExplained'
  BY <1>1 DEF Following, StraysExplained
<1>6. QED
  BY <1>3, <1>4, <1>5

LEMMA NextFollowing == Following /\ [Next]_vars => Following'
<1> SUFFICES ASSUME Following, [Next]_vars PROVE Following'
  OBVIOUS
<1>1. Typed'
  BY TypeStep DEF Following
<1>2. ASSUME UNCHANGED <<open, wire, recv_buffer, sent, history, broken>>
      PROVE  Between' /\ Intact' /\ StraysExplained'
  <2>1. UNCHANGED <<open, wire, recv_buffer, sent, parsed, made, stray, cut, guessed, broken>>
    BY <1>2 DEF history
  <2>2. Between'
    BY <2>1 DEF Following, Between
  <2>3. Intact'
    <3>1. Unparsed' = Unparsed /\ Held(recv_buffer)' = Held(recv_buffer)
      BY <2>1 DEF Unparsed, Held, At
    <3>2. Flat(Unparsed)' = Flat(Unparsed)
      BY <3>1
    <3>3. QED
      BY <2>1, <3>1, <3>2 DEF Following, Intact
  <2>4. StraysExplained'
    BY <2>1 DEF Following, StraysExplained
  <2>5. QED
    BY <2>2, <2>3, <2>4
<1>3. CASE UNCHANGED vars
  <2>1. UNCHANGED <<open, wire, recv_buffer, sent, history, broken>>
    BY <1>3 DEF vars
  <2>2. QED
    BY <2>1, <1>1, <1>2, Zenon DEF Following
<1>4. CASE Next
  <2>1. Typed
    BY DEF Following
  <2>2. (\A n \in 1 .. Len(wire) : n \in 0 .. Len(wire)) /\ 0 \in 0 .. Len(wire)
    BY <2>1 DEF Typed
  <2>3. ASSUME NEW n \in 0 .. Len(wire), Visit(n) PROVE Between' /\ Intact' /\ StraysExplained'
    BY <2>3, VisitFollowing
  <2>4. ASSUME VisitClosed PROVE Between' /\ Intact' /\ StraysExplained'
    BY <2>4, VisitClosedFollowing, Zenon
  <2>5. ASSUME Connect PROVE Between' /\ Intact' /\ StraysExplained'
    BY <2>5, ConnectFollowing, Zenon
  <2>6. ASSUME PeerCloses PROVE Between' /\ Intact' /\ StraysExplained'
    <3>1. UNCHANGED <<open, wire, recv_buffer, sent, history, broken>>
      BY <2>6 DEF PeerCloses
    <3>2. QED
      BY <3>1, <1>2, Zenon
  <2>7. ASSUME NEW f \in Frames, PeerSends(f) PROVE Between' /\ Intact' /\ StraysExplained'
    BY <2>7, PeerSendsFollowing
  <2>8. ASSUME Done PROVE Between' /\ Intact' /\ StraysExplained'
    <3>1. UNCHANGED <<open, wire, recv_buffer, sent, history, broken>>
      BY <2>8 DEF Done, vars
    <3>2. QED
      BY <3>1, <1>2, Zenon
  <2>9. Server => Between' /\ Intact' /\ StraysExplained'
    BY <2>2, <2>3, <2>4, Zenon DEF Server
  <2>10. Peer => Between' /\ Intact' /\ StraysExplained'
    BY <2>5, <2>6, <2>7, Zenon DEF Peer
  <2>11. QED
    BY <1>1, <1>4, <2>8, <2>9, <2>10, Zenon DEF Next, Following
<1>5. QED
  BY <1>3, <1>4

-----------------------------------------------------------------------------
(* Results                                                                 *)

LEMMA AlwaysFollowing == Spec => []Following
BY InitFollowing, NextFollowing, PTL DEF Spec

\* The positions of a slot's buffer stay inside its array, read and write included, and
\* what the handlers make are requests.
THEOREM TypeCorrect == Spec => []TypeOK
<1>1. Following => TypeOK
  BY FollowingImplies DEF FramesServed
<1>2. QED
  BY <1>1, AlwaysFollowing, PTL

\* server_recv_accept_send_process and server_client_msg_process make of the bytes of a
\* client the requests it sent, in their order, each once: what was made, what waits in
\* the buffer and what is on the wire is together what was sent, until a piece of a
\* frame is taken for one or more arrives than the buffer holds.
THEOREM FramesAreServed == Spec => []FramesServed
BY FollowingImplies, AlwaysFollowing, PTL

\* A task nobody asked for needs a frame that was looked at too early or one of a type
\* the parser does not queue, although the second handler ignores what xQueueReceive
\* returns.
THEOREM StraysAreExplained == Spec => []StraysExplained
BY FollowingImplies, AlwaysFollowing, PTL
=============================================================================
