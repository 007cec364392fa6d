----------------------------- MODULE RingBuffer -----------------------------
(***************************************************************************)
(* The buffer of a TCP client (wifi.c): an array and two positions.  It is *)
(* a ring by name only: writing and reading run from the front, and clear  *)
(* moves what is left back to the front.                                   *)
(***************************************************************************)
EXTENDS Integers, Sequences

CONSTANTS
  Last,     \* UINT8_MAX (255): the array has the cells 0 .. Last
  Byte      \* what a cell holds

ASSUME RingBufferAssumption == Last \in Nat \ {0}

RingBuffers ==
  [buffer : [0 .. Last -> Byte], pos_read : 0 .. Last, pos_write : 0 .. Last]

\* uint8_t arithmetic.
Wrapped(n) == n % (Last + 1)

\* so_client_write takes its first branch only.
Fits(rb, n) == n <= Last - rb.pos_write

\* so_client_write of bytes that fit.  Of those that do not, the first goes to cell
\* Last and is not counted, the others go over the positions behind the array.
Write(rb, bytes) ==
  [rb EXCEPT
     !.buffer = [i \in 0 .. Last |->
                   IF i \in rb.pos_write .. rb.pos_write + Len(bytes) - 1
                   THEN bytes[i - rb.pos_write + 1] ELSE rb.buffer[i]],
     !.pos_write = @ + Len(bytes)]

\* so_client_read, byte k of what is not read: it does not look at pos_write.
At(rb, k) == rb.buffer[rb.pos_read + k]

\* so_client_clear: n bytes are dropped from the front, whatever was read.  Its
\* memcpy copies overlapping cells upwards, one after the other.
Clear(rb, n) ==
  [rb EXCEPT
     !.pos_read = 0,
     !.pos_write = Wrapped(@ - n),
     !.buffer = [i \in 0 .. Last |->
                   IF i < Last - n THEN rb.buffer[i + n] ELSE rb.buffer[i]]]

\* A closed client's positions go back to the front; the array is left alone.
Emptied(rb) == [rb EXCEPT !.pos_read = 0, !.pos_write = 0]

\* What was written and not read.
Held(rb) == [k \in 1 .. rb.pos_write - rb.pos_read |-> At(rb, k - 1)]
=============================================================================
