------------------------------ MODULE IrEngine ------------------------------
(***************************************************************************)
(* Arbitration of the infrared engine (main.c, hxd019_drv.c).              *)
(*                                                                         *)
(* Six request handlers share one HXD019 chip, one I2C bus and one global  *)
(* buffer, ir_learned_data.  They keep out of each other's way with two    *)
(* bits of the FreeRTOS event group: LEARN_IRDA_BIT and SEND_IRDA_BIT.     *)
(* Every handler samples the bits with xEventGroupWaitBits, gives up when  *)
(* one of them is set, and otherwise sets its own bit in a second call.    *)
(* The sample and the set are separate steps here, as they are there.      *)
(*                                                                         *)
(* A task slot stands for one FreeRTOS task (key and TCP requests) or for  *)
(* the callback frame of vTaskMQTT (MQTT requests).  Slots are reused: a   *)
(* slot at "none" is a task that does not exist.                           *)
(***************************************************************************)
EXTENDS Naturals

CONSTANTS
  KeyTasks,      \* tasks vTaskKEY creates: they learn into / send the buffer
  TcpTasks,      \* tasks the TCP handlers create: they carry a client_msg
  MqttTasks,     \* callback frames of vTaskMQTT (one: the task is sequential)
  Codes,         \* the remote-control codes a user may aim at the receiver
  MaxFails,      \* tries of _learn_ir_data (5 in the code)
  NoTask         \* "nobody"

Tasks == KeyTasks \cup TcpTasks \cup MqttTasks

ASSUME IrAssumption ==
  /\ MaxFails \in Nat \ {0}
  /\ NoTask \notin Tasks
  /\ KeyTasks \cap TcpTasks = {}
  /\ KeyTasks \cap MqttTasks = {}
  /\ TcpTasks \cap MqttTasks = {}
  /\ Codes \cap {"idle", "learning", "short", "noise", "boot", "filling",
                       "junk", "torn"} = {}

VARIABLES
  pc,            \* where each task is in its handler
  op,            \* "learn" or "send": which handler the task runs
  bits,          \* wifi_event_group, restricted to the two IR bits
  fail_times,    \* local of _learn_ir_data
  ff_seen,       \* its ff_count has reached 4, which the scan never takes back
  heard,         \* what the last readI2C2 of a learner returned
  onBus,         \* tasks inside an I2C transfer: "off", "clean" or "garbled"
  chip,          \* the HXD019: idle, learning, or what it captured
  buffer,        \* the contents of ir_learned_data
  filler,        \* the task that has had ir_learned_data to itself since its memset
  slips          \* history: the gaps a request was let in through so far

vars == <<pc, op, bits, fail_times, ff_seen, heard, onBus, chip, buffer, filler, slips>>

Labels == {"none", "wait", "check", "set", "relearn", "arm", "arming", "busy",
           "read", "reading", "judge", "report", "fail", "send", "sending",
           "clear", "clear2"}

\* What the receiver can capture: a code; a signal too short to contain the end
\* mark (four 0xff in a row); noise, whose FCS byte is not zero.
Captures == Codes \cup {"short", "noise"}
FcsGood(h) == h # "noise"

\* What the scan for the end mark finds in a buffer nobody else wrote to: noise
\* is never stored, so behind the two header bytes it meets the memset's zeros.
HasMark(h) == h \in Codes
Contents == Codes \cup {"boot", "filling", "junk", "short", "torn"}

TypeOK ==
  /\ pc \in [Tasks -> Labels]
  /\ op \in [Tasks -> {"learn", "send"}]
  /\ bits \in SUBSET {"LEARN", "SEND"}
  /\ fail_times \in [Tasks -> 0 .. MaxFails]
  /\ ff_seen \in [Tasks -> BOOLEAN]
  /\ heard \in [Tasks -> Captures]
  /\ onBus \in [Tasks -> {"off", "clean", "garbled"}]
  /\ chip \in Captures \cup {"idle", "learning"}
  /\ buffer \in Contents
  /\ filler \in Tasks \cup {NoTask}
  /\ slips \subseteq {"take", "release"}

Init ==
  /\ pc = [t \in Tasks |-> "none"]
  /\ op = [t \in Tasks |-> "send"]
  /\ bits = {}
  /\ fail_times = [t \in Tasks |-> 0]
  /\ ff_seen = [t \in Tasks |-> FALSE]
  /\ heard = [t \in Tasks |-> "noise"]
  /\ onBus = [t \in Tasks |-> "off"]
  /\ chip = "idle"
  /\ buffer = "boot"
  /\ filler = NoTask
  /\ slips = {}

\* Seeded bug: a sender marks the engine with the learners' bit.
LearnBitAlways(t) == "LEARN"

\* The bit a task sets while it holds the engine.
BitOf(t) == IF op[t] = "learn" THEN "LEARN" ELSE "SEND"

Goto(t, l) == pc' = [pc EXCEPT ![t] = l]

\* A task drops its per-request locals when it ends (vTaskDelete, return).
End(t) ==
  /\ Goto(t, "none")
  /\ op' = [op EXCEPT ![t] = "send"]
  /\ fail_times' = [fail_times EXCEPT ![t] = 0]
  /\ ff_seen' = [ff_seen EXCEPT ![t] = FALSE]
  /\ heard' = [heard EXCEPT ![t] = "noise"]

-----------------------------------------------------------------------------
(* Entry: the arbitration every handler starts with.                       *)

Start(t, o) ==
  /\ pc[t] = "none"
  /\ Goto(t, "wait")
  /\ op' = [op EXCEPT ![t] = o]
  /\ UNCHANGED <<bits, fail_times, ff_seen, heard, onBus, chip, buffer, filler, slips>>

\* One press learns, two send; each press makes a task of its own.
StartKey(t, o) == t \in KeyTasks /\ Start(t, o)

\* A frame of a TCP client makes a task; its type says learn or send.
StartTcp(t, o) == t \in TcpTasks /\ Start(t, o)

\* A command from the broker, learn or send by its topic, runs in vTaskMQTT.
StartMqtt(t, o) == t \in MqttTasks /\ Start(t, o)

\* LEARN is cleared already and will be cleared again.
Reclears(t) ==
  /\ op[t] = "learn"
  /\ pc[t] = "clear2" \/ (pc[t] = "clear" /\ ~(FcsGood(heard[t]) /\ ff_seen[t]))

\* The two gaps a sample can fall into: another task has sampled and not set yet
\* ("take"); another learner has cleared LEARN and is going to clear it again
\* ("release").
Gaps(t) ==
  {g \in {"take", "release"} : \E u \in Tasks \ {t} :
     (g = "take" /\ pc[u] \in {"check", "set"}) \/ (g = "release" /\ Reclears(u))}

\* Seeded bugs: a handler looks at one of the two bits only.
FreeOfLearners == "LEARN" \notin bits
FreeOfSenders == "SEND" \notin bits

\* xEventGroupWaitBits(SEND | LEARN, .., waitForAll, 100 ticks) returns at once
\* when both bits are set and with the current bits when the second has gone
\* by; the handler proceeds only when it saw neither.
Free == bits = {}

Refused(t) ==
  /\ pc[t] = "wait"
  /\ ~Free
  /\ End(t)
  /\ UNCHANGED <<bits, onBus, chip, buffer, filler, slips>>

Granted(t) ==
  /\ pc[t] = "wait"
  /\ Free
  /\ slips' = slips \cup Gaps(t)
  /\ Goto(t, IF t \in TcpTasks THEN "check" ELSE "set")
  /\ UNCHANGED <<op, bits, fail_times, ff_seen, heard, onBus, chip, buffer, filler>>

\* Only the TCP handlers look at the message type, after they were let in.
CheckType(t) ==
  /\ pc[t] = "check"
  /\ \/ /\ Goto(t, "set")
        /\ UNCHANGED <<op, fail_times, ff_seen, heard>>
     \/ End(t)
  /\ UNCHANGED <<bits, onBus, chip, buffer, filler, slips>>

SetBit(t) ==
  /\ pc[t] = "set"
  /\ bits' = bits \cup {BitOf(t)}
  /\ Goto(t, IF op[t] = "learn" THEN "relearn" ELSE "send")
  /\ UNCHANGED <<op, fail_times, ff_seen, heard, onBus, chip, buffer, filler, slips>>

-----------------------------------------------------------------------------
(* The bit-banged bus.  Nothing below the event bits serialises transfers: *)
(* when two overlap both are garbled and either may end in any way.        *)

BeginTransfer(t) ==
  onBus' = IF \E u \in Tasks : onBus[u] # "off"
           THEN [u \in Tasks |-> IF u = t \/ onBus[u] # "off" THEN "garbled" ELSE "off"]
           ELSE [onBus EXCEPT ![t] = "clean"]

EndTransfer(t) == onBus' = [onBus EXCEPT ![t] = "off"]

-----------------------------------------------------------------------------
(* _learn_ir_data and _read_ir_data                                        *)

SetLearnAgain(t) ==
  /\ pc[t] = "relearn"
  /\ bits' = bits \cup {"LEARN"}
  /\ Goto(t, "arm")
  /\ UNCHANGED <<op, fail_times, ff_seen, heard, onBus, chip, buffer, filler, slips>>

\* memset of the buffer, then Learn_start2 puts the chip in learning mode.
ArmBegin(t) ==
  /\ pc[t] = "arm"
  /\ buffer' = "filling"
  /\ filler' = IF \E u \in Tasks \ {t} : pc[u] = "reading" THEN NoTask ELSE t
  /\ BeginTransfer(t)
  /\ Goto(t, "arming")
  /\ UNCHANGED <<op, bits, fail_times, ff_seen, heard, chip, slips>>

ArmEnd(t) ==
  /\ pc[t] = "arming"
  /\ chip' \in (IF onBus[t] = "clean" THEN {"learning"} ELSE {"learning", chip})
  /\ EndTransfer(t)
  /\ Goto(t, "busy")
  /\ UNCHANGED <<op, bits, fail_times, ff_seen, heard, buffer, filler, slips>>

\* while (!IRDA_BUSY_S()) ;   -- no timeout, no delay
BusyReleased(t) ==
  /\ pc[t] = "busy"
  /\ chip # "learning"
  /\ Goto(t, "read")
  /\ UNCHANGED <<op, bits, fail_times, ff_seen, heard, onBus, chip, buffer, filler, slips>>

ReadBegin(t) ==
  /\ pc[t] = "read"
  /\ buffer' = "filling"
  /\ filler' = IF filler = t THEN t ELSE NoTask
  /\ BeginTransfer(t)
  /\ Goto(t, "reading")
  /\ UNCHANGED <<op, bits, fail_times, ff_seen, heard, chip, slips>>

\* readI2C2: flag = 1 when the FCS byte is zero; a chip that captured nothing
\* answers anything, and so does one read over a garbled bus.
ReadEnd(t) ==
  /\ pc[t] = "reading"
  /\ \E h \in Captures :
       /\ (onBus[t] = "clean" /\ chip \in Captures) => h = chip
       /\ heard' = [heard EXCEPT ![t] = h]
  /\ chip' = IF onBus[t] = "clean" \/ chip # "learning" THEN "idle" ELSE chip
  /\ EndTransfer(t)
  /\ Goto(t, "judge")
  /\ UNCHANGED <<op, bits, fail_times, ff_seen, buffer, filler, slips>>

\* What the buffer holds once the header and the checksum are written over a
\* read that returned h.
Written(h) == IF FcsGood(h) THEN h ELSE "junk"

\* Seeded bugs: a failed try is not counted; a capture needs no end mark.
FailsForgotten(t) == fail_times[t]
SeenAlways(t) == {TRUE}

FailsAfter(t) == fail_times[t] + (IF FcsGood(heard[t]) THEN 0 ELSE 1)

\* What ff_count >= 4 may be after the scan: in a buffer another task wrote to,
\* there may be a mark or none.
SeenAfter(t) ==
  {seen \in BOOLEAN : /\ ff_seen[t] => seen
                      /\ filler = t => (seen <=> ff_seen[t] \/ HasMark(heard[t]))}

\* Header bytes, run of 0xff, checksum; then the retry loop's decision: a bad
\* FCS is tried again, a capture without the end mark is given up at once.
Judge(t) ==
  /\ pc[t] = "judge"
  /\ buffer' \in {Written(heard[t])} \cup (IF filler = t THEN {} ELSE {"torn"})
  /\ fail_times' = [fail_times EXCEPT ![t] = FailsAfter(t)]
  /\ \E seen \in SeenAfter(t) :
       /\ ff_seen' = [ff_seen EXCEPT ![t] = seen]
       /\ \/ FcsGood(heard[t]) /\ seen /\ Goto(t, IF t \in KeyTasks THEN "clear" ELSE "report")
          \/ ~FcsGood(heard[t]) /\ FailsAfter(t) < MaxFails /\ Goto(t, "arm")
          \/ ~FcsGood(heard[t]) /\ FailsAfter(t) >= MaxFails /\ Goto(t, "fail")
          \/ FcsGood(heard[t]) /\ ~seen /\ Goto(t, "fail")
  /\ UNCHANGED <<op, bits, heard, onBus, chip, filler, slips>>

\* The failure exit of _learn_ir_data clears the bit before the caller does.
FailClear(t) ==
  /\ pc[t] = "fail"
  /\ bits' = bits \ {"LEARN"}
  /\ Goto(t, "clear")
  /\ UNCHANGED <<op, fail_times, ff_seen, heard, onBus, chip, buffer, filler, slips>>

\* msg->success (TCP) or the publish callback (MQTT): reads the global buffer.
Report(t) ==
  /\ pc[t] = "report"
  /\ Goto(t, "clear")
  /\ UNCHANGED <<op, bits, fail_times, ff_seen, heard, onBus, chip, buffer, filler, slips>>

-----------------------------------------------------------------------------
(* writeI2C2: a key request sends ir_learned_data, the others their own    *)
(* payload.  A chip that was learning may or may not survive it.           *)

SendBegin(t) ==
  /\ pc[t] = "send"
  /\ BeginTransfer(t)
  /\ Goto(t, "sending")
  /\ UNCHANGED <<op, bits, fail_times, ff_seen, heard, chip, buffer, filler, slips>>

SendEnd(t) ==
  /\ pc[t] = "sending"
  /\ chip' \in {"idle", chip}
  /\ EndTransfer(t)
  /\ Goto(t, "clear")
  /\ UNCHANGED <<op, bits, fail_times, ff_seen, heard, buffer, filler, slips>>

-----------------------------------------------------------------------------
(* Exit: the caller's clear, and the second one of task_tcpservice_ir_learning *)

\* Seeded bug: a sender clears the learners' bit instead of its own.
OnlyLearnCleared(t) == bits \ {"LEARN"}

OwnBitCleared(t) == bits \ {BitOf(t)}

Clear(t) ==
  /\ pc[t] = "clear"
  /\ bits' = OwnBitCleared(t)
  /\ IF t \in TcpTasks /\ op[t] = "learn"
     THEN Goto(t, "clear2") /\ UNCHANGED <<op, fail_times, ff_seen, heard>>
     ELSE End(t)
  /\ UNCHANGED <<onBus, chip, buffer, filler, slips>>

ClearAgain(t) ==
  /\ pc[t] = "clear2"
  /\ bits' = bits \ {"LEARN"}
  /\ End(t)
  /\ UNCHANGED <<onBus, chip, buffer, filler, slips>>

\* The user points a remote at the receiver, or noise ends the capture.
IrSignal ==
  /\ chip = "learning"
  /\ chip' \in Captures
  /\ UNCHANGED <<pc, op, bits, fail_times, ff_seen, heard, onBus, buffer, filler, slips>>

-----------------------------------------------------------------------------
Step(t) ==
  \/ Refused(t) \/ Granted(t) \/ CheckType(t) \/ SetBit(t)
  \/ SetLearnAgain(t) \/ ArmBegin(t) \/ ArmEnd(t)
  \/ ReadBegin(t) \/ ReadEnd(t) \/ Judge(t) \/ FailClear(t) \/ Report(t)
  \/ SendBegin(t) \/ SendEnd(t) \/ Clear(t) \/ ClearAgain(t)

Next ==
  \/ \E t \in Tasks, o \in {"learn", "send"} : StartKey(t, o) \/ StartTcp(t, o) \/ StartMqtt(t, o)
  \/ \E t \in Tasks : Step(t) \/ BusyReleased(t)
  \/ IrSignal

Spec == Init /\ [][Next]_vars

\* FreeRTOS runs every ready task; the polling loop reads the pin far faster
\* than the chip can be armed again, so it sees a release that comes back; and
\* the user does press a key of the remote.
Fairness ==
  /\ \A t \in Tasks : WF_vars(Step(t)) /\ SF_vars(BusyReleased(t))
  /\ WF_vars(IrSignal)

FairSpec == Spec /\ Fairness

-----------------------------------------------------------------------------
(* Properties                                                              *)

\* Where a task still has its own bit's clear ahead of it.
WillClear(t, b) ==
  /\ BitOf(t) = b
  /\ pc[t] \in {"relearn", "arm", "arming", "busy", "read", "reading", "judge",
                "report", "fail", "send", "sending", "clear", "clear2"}

\* A busy bit never outlives the tasks that could clear it: however the six
\* handlers race, a set bit has a task still on its way to clear it, so the
\* engine cannot be left refusing everybody with nobody in it (main.c clears on
\* every exit path that comes after a set).
NoOrphanBit == \A b \in bits : \E t \in Tasks : WillClear(t, b)

\* Where a task drives the chip or relies on the buffer.
Using(t) ==
  pc[t] \in {"arm", "arming", "busy", "read", "reading", "judge", "report", "send", "sending"}

\* At most one task drives the chip, the bus and the buffer, until a request was
\* let in through one of two gaps: the bits are tested and set in two calls, and
\* a learner that failed, or that serves TCP, clears LEARN twice, the second time
\* possibly after another learner set it.  There is no third gap.
MutualExclusion ==
  /\ TypeOK
  /\ slips = {} => \A t, u \in Tasks : Using(t) /\ Using(u) => t = u

\* A learner that reports success reports what it heard: nobody wiped or
\* rewrote ir_learned_data between its read and the report, the gaps excepted.
ReportIsHeard ==
  slips = {} => \A t \in Tasks : pc[t] = "report" => buffer = heard[t]

\* The report is a whole code, however many tries failed before: ff_count, which
\* no try resets, cannot have been left at 4 by a failed one, and the buffer the
\* scan judged is the one reported, the gaps excepted.
ReportIsWhole ==
  slips = {} => \A t \in Tasks : pc[t] = "report" => buffer \in Codes

\* While a transmission is under way no other request gets past the
\* arbitration, whatever the learners and their double clears do:
\* SEND_IRDA_BIT is cleared only by the sender that set it, as long as no two
\* requests took the engine at once.
SendShutsOut ==
  [][\A t, u \in Tasks :
       (/\ t # u /\ "take" \notin slips
        /\ pc[t] \in {"send", "sending"} /\ op[t] = "send" /\ pc[u] = "wait")
          => pc'[u] \in {"wait", "none"}]_vars

\* The 232 bytes a key press sends do not change under writeI2C2's loop.
SentBufferStable ==
  [][\A t \in KeyTasks :
       (slips = {} /\ pc[t] = "sending" /\ pc'[t] # "none") => buffer' = buffer]_vars

\* Every request that was made ends, by refusal or by completion.
RequestsEnd == \A t \in Tasks : pc[t] = "wait" ~> pc[t] = "none"
=============================================================================
