------------------------------- MODULE TwoWire -------------------------------
(***************************************************************************)
(* A transfer on the two wires to the HXD019, pin by pin (hxd019_drv.c).   *)
(*                                                                         *)
(* The driver is a list of calls, each of them a list of pin operations.   *)
(* SCL is always driven by the driver; SDA by whoever has it, low wins     *)
(* over the pull-up.  The chip is external: it sees every edge, but its    *)
(* own hold on SDA follows late, up to the driver's next delay.  It knows  *)
(* as much of the protocol as the driver relies on: start and stop,        *)
(* acknowledging what it is written, or not, and sending when the first    *)
(* byte ends in 1.                                                         *)
(*                                                                         *)
(* That a transfer is not disturbed by another one is in IrEngine.         *)
(***************************************************************************)
EXTENDS Integers, Sequences, Lists

CONSTANTS
  Sendable,     \* what writeI2C2 is given: a learned code begins with WriteAddress,
                \* one from a client may be anything
  Answers,      \* bytes the chip may send
  ReadLen,      \* bytes readI2C2 reads behind the first (230)
  MaxTransfers  \* bound: transfers, one after the other

\* What the driver writes: the chip's address for writing and for reading, and where
\* the learned code is.
WriteAddress == 48
ReadAddress == 49
LearnedAt == 98

Bytes == 0 .. 255
Width == 8
Weights == <<128, 64, 32, 16, 8, 4, 2, 1>>
Bits(b) == [k \in 1 .. Width |-> (b \div Weights[k]) % 2]
Value(word) ==
  128 * word[1] + 64 * word[2] + 32 * word[3] + 16 * word[4]
    + 8 * word[5] + 4 * word[6] + 2 * word[7] + word[8]

ASSUME TwoWireAssumption ==
  /\ \A code \in Sendable : code \in Seq(Bytes)
  /\ Answers \subseteq Bytes
  /\ ReadLen \in Nat /\ MaxTransfers \in Nat

VARIABLES
  calls,        \* the driver's calls from the one under way on
  step,         \* pin operations of that call already done
  scl,          \* level of SCL
  out, latch,   \* SDA is an output of the driver, and the level it was set to
  sda,          \* level of SDA
  hxd,          \* what the chip is at, and the bits of the byte under way
  pull,         \* the chip holds SDA low
  got,          \* the bits read by the driver, in bytes (readtempbuf and bValue)
  transfer,     \* history: the transfer under way, or the last one
  frames,       \* history: the bytes the chip took, by start
  gave,         \* history: the bytes the chip sent
  nacked,       \* history: the chip left a byte without acknowledgement
  refused,      \* history: the driver stopped behind the first byte
  fought,       \* history: both drove SDA, against each other, over a delay
  transfers     \* history: transfers so far

driver == <<calls, step, got, refused>>
lines == <<scl, out, latch, sda>>
slave == <<hxd, frames, gave, nacked>>
wireVars == <<driver, lines, pull, slave, transfer, fought, transfers>>

LearnCommand == <<WriteAddress, 32, 80>>
Modes == {"idle", "take", "ack", "give", "acked", "ignore"}
Transfers == {[kind |-> "write", bytes |-> code] : code \in Sendable}
               \cup {[kind |-> "write", bytes |-> LearnCommand],
                     [kind |-> "read", bytes |-> <<>>]}
NoTransfer == [kind |-> "none", bytes |-> <<>>]

WireTypeOK ==
  /\ {scl, latch, sda} \subseteq {0, 1}
  /\ {out, pull, nacked, refused, fought} \subseteq BOOLEAN
  /\ hxd.mode \in Modes /\ hxd.bits \in Seq({0, 1}) /\ Len(hxd.bits) <= Width
  /\ hxd.reads \in BOOLEAN
  /\ \A k \in DOMAIN got : Len(got[k]) <= Width
  /\ \A k \in DOMAIN frames : frames[k] \in Seq(Bytes)
  /\ gave \in Seq(Bytes)
  /\ step \in Nat
  /\ transfer \in Transfers \cup {NoTransfer}
  /\ transfers \in 0 .. MaxTransfers

\* IRDA_INIT.
WireInit ==
  /\ calls = <<>> /\ step = 0
  /\ scl = 1 /\ out = TRUE /\ latch = 1 /\ sda = 1
  /\ hxd = [mode |-> "idle", bits |-> <<>>, reads |-> FALSE] /\ pull = FALSE
  /\ got = <<>>
  /\ transfer = NoTransfer
  /\ frames = <<>> /\ gave = <<>>
  /\ nacked = FALSE /\ refused = FALSE /\ fought = FALSE
  /\ transfers = 0

-----------------------------------------------------------------------------
(* The calls, as pin operations; "wait" is any delay                       *)

OpenPins == <<"out", "scl1", "sda1">>
WakePins == <<"wait", "scl0", "wait", "scl1", "wait">>
\* SCL rises before SDA does.
StartPins == <<"out", "scl1", "sda1", "wait", "sda0", "wait", "scl0", "wait">>
StopPins == <<"out", "scl0", "sda0", "wait", "scl1", "wait", "sda1", "wait">>

GetACKsign == <<"in", "wait", "scl1", "wait", "getack", "wait", "scl0", "wait">>
\* Seeded bug: SDA is set high again before it is handed over.
SendACKhigh == <<"out", "wait", "sda0", "wait", "scl1", "wait", "scl0", "sda1">>

SendACKsign == <<"out", "wait", "sda0", "wait", "scl1", "wait", "scl0">>

WriteBit(bit) ==
  <<"wait", IF bit = 1 THEN "sda1" ELSE "sda0", "wait", "scl1", "wait", "scl0">>

WriteData(b) ==
  <<"out", "scl0", "wait">> \o Joined([k \in 1 .. Width |-> WriteBit(Bits(b)[k])])
    \o GetACKsign \o <<"wait">>

\* Seeded bug: a bit is read when SCL is low again.
ReadLate == <<"scl1", "wait", "scl0", "get", "wait">>

ReadBit == <<"scl1", "wait", "get", "scl0", "wait">>

ReadData ==
  <<"in", "begin">> \o Joined([k \in 1 .. Width |-> ReadBit])
    \o <<"scl0", "wait">> \o SendACKsign \o <<"wait">>

Call(name) == <<name>>
Write(b) == <<"write", b>>
WriteCalls(bytes) == [k \in DOMAIN bytes |-> Write(bytes[k])]

Opening == <<Call("open"), Call("wake"), Call("start")>>
Closing == <<Call("stop"), Call("open")>>

\* writeI2C2 and Learn_start2; readI2C2, up to where it looks at the first byte.
Calls(t) ==
  Opening \o
  (IF t.kind = "write"
   THEN WriteCalls(t.bytes) \o Closing
   ELSE WriteCalls(<<WriteAddress, LearnedAt>>) \o <<Call("start"), Write(ReadAddress)>>
          \o <<Call("read"), Call("fcs")>>)

Pins(call) ==
  CASE call[1] = "open" -> OpenPins
    [] call[1] = "wake" -> WakePins
    [] call[1] = "start" -> StartPins
    [] call[1] = "stop" -> StopPins
    [] call[1] = "write" -> WriteData(call[2])
    [] call[1] = "read" -> ReadData
    [] call[1] = "fcs" -> <<>>

Names == {"open", "wake", "start", "stop", "read", "fcs"}
AllCalls == {Call(name) : name \in Names} \cup {Write(b) : b \in Bytes}
Script == [call \in AllCalls |-> Pins(call)]

-----------------------------------------------------------------------------
(* The chip                                                                *)

Gives(b) == [hxd EXCEPT !.mode = "give", !.bits = Bits(b)]

ChipStarts ==
  /\ hxd' = [mode |-> "take", bits |-> <<>>, reads |-> FALSE]
  /\ frames' = Append(frames, <<>>)
  /\ UNCHANGED <<gave, nacked>>

ChipStops ==
  /\ hxd' = [mode |-> "idle", bits |-> <<>>, reads |-> FALSE]
  /\ UNCHANGED <<frames, gave, nacked>>

\* SCL rises: a bit is taken.
ChipClocks(bit) ==
  /\ hxd' = CASE hxd.mode = "take" -> [hxd EXCEPT !.bits = Append(@, bit)]
               [] hxd.mode = "acked" /\ bit = 1 -> [hxd EXCEPT !.mode = "ignore"]
               [] OTHER -> hxd
  /\ UNCHANGED <<frames, gave, nacked>>

\* SCL falls: a byte is complete, or the next bit is put on SDA.
ChipTakes ==
  LET byte == Value(hxd.bits)
      address == frames[Len(frames)] = <<>>
  IN  /\ frames' = [frames EXCEPT ![Len(frames)] = Append(@, byte)]
      /\ \/ /\ address => byte \in {WriteAddress, ReadAddress}
            /\ hxd' = [mode |-> "ack", bits |-> <<>>,
                       reads |-> hxd.reads \/ (address /\ byte = ReadAddress)]
            /\ UNCHANGED nacked
         \/ /\ hxd' = [hxd EXCEPT !.mode = "ignore"]
            /\ nacked' = TRUE
      /\ UNCHANGED gave

\* Behind its last byte the chip leaves SDA alone.
ChipGivesNext ==
  /\ IF Len(gave) <= ReadLen
     THEN \E b \in Answers : hxd' = Gives(b) /\ gave' = Append(gave, b)
     ELSE hxd' = [hxd EXCEPT !.mode = "ignore"] /\ UNCHANGED gave
  /\ UNCHANGED <<frames, nacked>>

ChipShifts ==
  /\ hxd' = IF Len(hxd.bits) = 1
             THEN [hxd EXCEPT !.mode = "acked", !.bits = <<>>]
             ELSE [hxd EXCEPT !.bits = Tail(@)]
  /\ UNCHANGED <<frames, gave, nacked>>

ChipFalls ==
  CASE hxd.mode = "take" /\ Len(hxd.bits) = Width -> ChipTakes
    [] hxd.mode = "ack" /\ ~hxd.reads ->
         hxd' = [hxd EXCEPT !.mode = "take"] /\ UNCHANGED <<frames, gave, nacked>>
    [] (hxd.mode = "ack" /\ hxd.reads) \/ hxd.mode = "acked" -> ChipGivesNext
    [] hxd.mode = "give" -> ChipShifts
    [] OTHER -> UNCHANGED slave

ChipSees(newScl, newSda) ==
  CASE scl = 1 /\ newScl = 1 /\ sda = 1 /\ newSda = 0 -> ChipStarts
    [] scl = 1 /\ newScl = 1 /\ sda = 0 /\ newSda = 1 -> ChipStops
    [] scl = 0 /\ newScl = 1 -> ChipClocks(newSda)
    [] scl = 1 /\ newScl = 0 -> ChipFalls
    [] OTHER -> UNCHANGED slave

Wants == hxd.mode = "ack" \/ (hxd.mode = "give" /\ hxd.bits[1] = 0)

-----------------------------------------------------------------------------
(* The wires                                                               *)

\* SDA when both drive it against each other is anybody's guess.
Levels(o, l, p) ==
  IF o THEN (IF l = 1 /\ p THEN {0, 1} ELSE {l}) ELSE {IF p THEN 0 ELSE 1}

Fight == out /\ latch = 1 /\ pull

\* The chip's hold on SDA follows.
ChipDrives ==
  /\ pull # Wants
  /\ pull' = Wants
  /\ sda' \in Levels(out, latch, Wants)
  /\ UNCHANGED <<driver, scl, out, latch, slave, transfer, fought, transfers>>

Drive(newScl, newOut, newLatch) ==
  /\ scl' = newScl /\ out' = newOut /\ latch' = newLatch
  /\ sda' \in Levels(newOut, newLatch, pull)
  /\ ChipSees(newScl, sda')
  /\ UNCHANGED <<got, refused, fought>>

Pin(act) ==
  \/ act = "out" /\ Drive(scl, TRUE, latch)
  \/ act = "in" /\ Drive(scl, FALSE, latch)
  \/ act = "scl1" /\ Drive(1, out, latch)
  \/ act = "scl0" /\ Drive(0, out, latch)
  \/ act = "sda1" /\ Drive(scl, out, 1)
  \/ act = "sda0" /\ Drive(scl, out, 0)
  \/ /\ act = "wait" /\ pull = Wants
     /\ fought' = (fought \/ Fight)
     /\ UNCHANGED <<lines, slave, got, refused>>
  \/ /\ act = "begin" /\ got' = Append(got, <<>>)
     /\ UNCHANGED <<lines, slave, refused, fought>>
  \/ /\ act = "get" /\ got' = [got EXCEPT ![Len(got)] = Append(@, sda)]
     /\ UNCHANGED <<lines, slave, refused, fought>>
  \/ act = "getack" /\ UNCHANGED <<lines, slave, got, refused, fought>>

InCall == calls # <<>> /\ step < Len(Script[calls[1]])

PinOperation ==
  /\ InCall
  /\ Pin(Script[calls[1]][step + 1])
  /\ step' = step + 1
  /\ UNCHANGED <<calls, pull, transfer, transfers>>

-----------------------------------------------------------------------------
(* The driver                                                              *)

NextCall ==
  /\ calls # <<>> /\ ~InCall
  /\ calls[1] # Call("fcs")
  /\ calls' = Tail(calls)
  /\ step' = 0
  /\ UNCHANGED <<got, refused, lines, pull, slave, transfer, fought, transfers>>

FirstByteGood == Value(got[1]) = 0

\* readI2C2 looks at the first byte, and reads the rest or leaves it.
CheckFcs ==
  /\ calls # <<>> /\ calls[1] = Call("fcs")
  /\ calls' = (IF FirstByteGood THEN [k \in 1 .. ReadLen |-> Call("read")] ELSE <<>>) \o Closing
  /\ refused' = ~FirstByteGood
  /\ UNCHANGED <<step, got, lines, pull, slave, transfer, fought, transfers>>

Idle == calls = <<>>

\* What a chip that still sends makes of the next start is not known.
Begin(t) ==
  /\ Idle /\ ~fought
  /\ transfers < MaxTransfers
  /\ transfers' = transfers + 1
  /\ transfer' = t
  /\ calls' = Calls(t)
  /\ got' = <<>> /\ refused' = FALSE
  /\ frames' = <<>> /\ gave' = <<>> /\ nacked' = FALSE
  /\ UNCHANGED <<step, lines, hxd, pull, fought>>

Done == Idle /\ (fought \/ transfers = MaxTransfers) /\ UNCHANGED wireVars

WireNext ==
  \/ PinOperation \/ NextCall \/ CheckFcs \/ ChipDrives
  \/ \E t \in Transfers : Begin(t)
  \/ Done

WireSpec == WireInit /\ [][WireNext]_wireVars

-----------------------------------------------------------------------------
(* Properties                                                              *)

\* A code from a client that begins with ReadAddress: the chip, asked, sends against
\* the rest of it.
AsksToRead(bytes) == bytes # <<>> /\ bytes[1] = ReadAddress

\* Driver and chip drive SDA against each other for longer than the driver needs to
\* turn its pin round only behind such a code's first byte, or in the stop behind a
\* first byte read that the driver did not like: that byte was acknowledged, and the
\* chip has begun the next.
NoFight == WireTypeOK /\ (fought => refused \/ AsksToRead(transfer.bytes))

Taken(bytes) == IF AsksToRead(bytes) THEN <<ReadAddress>> ELSE bytes
Expected ==
  IF transfer.kind = "write" THEN <<Taken(transfer.bytes)>>
  ELSE <<<<WriteAddress, LearnedAt>>, <<ReadAddress>>>>

\* A transfer that met no fight leaves the chip waiting for a start and, if every
\* byte was acknowledged (the driver does not look), brought across each byte as it
\* was, or the first that asked, in frames that begin and end where the driver means
\* them to.  A read that succeeds read what the chip sent, acknowledged or not: a chip
\* that does not answer leaves SDA high, which is no first byte.
TransferExact ==
  Idle /\ ~fought /\ transfers > 0 =>
    /\ hxd.mode = "idle" /\ ~pull
    /\ ~nacked => frames = Expected
    /\ transfer.kind = "read" /\ ~refused =>
         /\ Len(gave) = ReadLen + 1
         /\ [k \in DOMAIN got |-> Value(got[k])] = gave
=============================================================================
