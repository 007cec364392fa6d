------------------------------ MODULE IrProofs ------------------------------
(***************************************************************************)
(* Theorems about the IR path: who may use the HXD019 (IrEngine), and what *)
(* a transfer to it does (TwoWire).                                        *)
(*                                                                         *)
(* IrEngine, for any number of tasks, codes and tries.  Unconditionally:   *)
(* types, and no orphan busy bit.  Until a request slips in between        *)
(* another one's sample and set: a sender shuts everybody out.  Until one  *)
(* slips in there or between a learner's two clears: mutual exclusion and  *)
(* what follows from it.                                                   *)
(*                                                                         *)
(* TwoWire, for any codes, answers and lengths: every pin operation of     *)
(* every call is tracked against what the chip has made of the wires.      *)
(***************************************************************************)
EXTENDS IrEngine, TwoWire, ListsProofs, SequenceTheorems, TLAPS

LearnLabels == {"relearn", "arm", "arming", "busy", "read", "reading", "judge",
                "report", "fail", "clear2"}

\* Which handler may be where, and what makes a learner fail.
ControlOK ==
  \A t \in Tasks :
    /\ pc[t] \in LearnLabels => op[t] = "learn"
    /\ pc[t] \in {"send", "sending"} => op[t] = "send"
    /\ pc[t] = "fail" => ~(FcsGood(heard[t]) /\ ff_seen[t])

\* A learner that may try again has a try left.
TriesLeft ==
  \A t \in Tasks : pc[t] \notin {"fail", "clear", "clear2"} => fail_times[t] < MaxFails

Base == TypeOK /\ ControlOK /\ TriesLeft

-----------------------------------------------------------------------------
LEMMA BaseInit == Init => Base
BY IrAssumption DEF Init, Base, TypeOK, ControlOK, TriesLeft, Labels, Captures, Contents,
   LearnLabels

\* Ending a request resets its locals within their types.
LEMMA EndBase ==
  ASSUME Base, NEW t \in Tasks, End(t), UNCHANGED <<onBus, chip, buffer, filler, slips>>,
         bits' \in SUBSET {"LEARN", "SEND"}
  PROVE  Base'
<1>1. TypeOK'
  BY IrAssumption DEF Base, TypeOK, End, Goto, Labels, Captures
<1>2. ControlOK' /\ TriesLeft'
  BY IrAssumption DEF Base, TypeOK, ControlOK, TriesLeft, End, Goto, LearnLabels
<1>3. QED
  BY <1>1, <1>2 DEF Base

LEMMA BeginTransferType ==
  ASSUME TypeOK, NEW t \in Tasks, BeginTransfer(t)
  PROVE  onBus' \in [Tasks -> {"off", "clean", "garbled"}]
BY DEF TypeOK, BeginTransfer

LEMMA EndTransferType ==
  ASSUME TypeOK, NEW t \in Tasks, EndTransfer(t)
  PROVE  onBus' \in [Tasks -> {"off", "clean", "garbled"}]
BY DEF TypeOK, EndTransfer

LEMMA BaseStep == Base /\ [Next]_vars => Base'
<1> SUFFICES ASSUME Base, [Next]_vars PROVE Base'
  OBVIOUS
<1> USE IrAssumption DEF Base
<1>1. ASSUME NEW t \in Tasks, NEW o \in {"learn", "send"}, Start(t, o) PROVE Base'
  BY <1>1 DEF Start, Goto, TypeOK, ControlOK, TriesLeft, Labels, LearnLabels
<1>2. ASSUME NEW t \in Tasks, Refused(t) PROVE Base'
  BY <1>2, EndBase DEF Refused, TypeOK
<1>3. ASSUME NEW t \in Tasks, Granted(t) PROVE Base'
  BY <1>3 DEF Granted, Gaps, Goto, TypeOK, ControlOK, TriesLeft, Labels, LearnLabels
<1>4. ASSUME NEW t \in Tasks, CheckType(t) PROVE Base'
  <2>1. CASE End(t)
    BY <1>4, <2>1, EndBase DEF CheckType, TypeOK
  <2>2. CASE Goto(t, "set") /\ UNCHANGED <<op, fail_times, ff_seen, heard>>
    BY <1>4, <2>2 DEF CheckType, Goto, TypeOK, ControlOK, TriesLeft, Labels, LearnLabels
  <2>3. QED
    BY <1>4, <2>1, <2>2 DEF CheckType
<1>5. ASSUME NEW t \in Tasks, SetBit(t) PROVE Base'
  BY <1>5 DEF SetBit, Goto, BitOf, TypeOK, ControlOK, TriesLeft, Labels, LearnLabels
<1>6. ASSUME NEW t \in Tasks, SetLearnAgain(t) PROVE Base'
  BY <1>6 DEF SetLearnAgain, Goto, TypeOK, ControlOK, TriesLeft, Labels, LearnLabels
<1>7. ASSUME NEW t \in Tasks, ArmBegin(t) PROVE Base'
  BY <1>7, BeginTransferType
     DEF ArmBegin, Goto, TypeOK, ControlOK, TriesLeft, Labels, LearnLabels, Contents
<1>8. ASSUME NEW t \in Tasks, ArmEnd(t) PROVE Base'
  BY <1>8, EndTransferType
     DEF ArmEnd, Goto, TypeOK, ControlOK, TriesLeft, Labels, LearnLabels, Captures
<1>9. ASSUME NEW t \in Tasks, BusyReleased(t) PROVE Base'
  BY <1>9 DEF BusyReleased, Goto, TypeOK, ControlOK, TriesLeft, Labels, LearnLabels
<1>10. ASSUME NEW t \in Tasks, ReadBegin(t) PROVE Base'
  BY <1>10, BeginTransferType
     DEF ReadBegin, Goto, TypeOK, ControlOK, TriesLeft, Labels, LearnLabels, Contents
<1>11. ASSUME NEW t \in Tasks, ReadEnd(t) PROVE Base'
  BY <1>11, EndTransferType
     DEF ReadEnd, Goto, TypeOK, ControlOK, TriesLeft, Labels, LearnLabels
<1>12. ASSUME NEW t \in Tasks, Judge(t) PROVE Base'
  <2>1. fail_times[t] < MaxFails /\ heard[t] \in Captures /\ op[t] = "learn"
    BY <1>12 DEF Judge, TypeOK, ControlOK, TriesLeft, LearnLabels
  <2>2. FailsAfter(t) \in 0 .. MaxFails
    BY <2>1 DEF FailsAfter, TypeOK
  <2>3. FcsGood(heard[t]) => FailsAfter(t) < MaxFails
    BY <2>1 DEF FailsAfter, TypeOK
  <2>4. buffer' \in Contents
    BY <1>12, <2>1 DEF Judge, Written, Captures, Contents, FcsGood
  <2>5. PICK seen \in BOOLEAN :
          /\ ff_seen' = [ff_seen EXCEPT ![t] = seen]
          /\ \/ FcsGood(heard[t]) /\ seen
                /\ Goto(t, IF t \in KeyTasks THEN "clear" ELSE "report")
             \/ ~FcsGood(heard[t]) /\ FailsAfter(t) < MaxFails /\ Goto(t, "arm")
             \/ ~FcsGood(heard[t]) /\ FailsAfter(t) >= MaxFails /\ Goto(t, "fail")
             \/ FcsGood(heard[t]) /\ ~seen /\ Goto(t, "fail")
    BY <1>12 DEF Judge, SeenAfter, HasMark, TypeOK
  <2>6. \E l \in {"clear", "report", "arm", "fail"} :
          /\ pc' = [pc EXCEPT ![t] = l]
          /\ l \notin {"clear", "fail"} => FailsAfter(t) < MaxFails
          /\ l = "fail" => ~(FcsGood(heard[t]) /\ seen)
    BY <2>3, <2>5 DEF Goto
  <2>7. QED
    BY <1>12, <2>1, <2>2, <2>4, <2>5, <2>6
       DEF Judge, TypeOK, ControlOK, TriesLeft, Labels, LearnLabels
<1>13. ASSUME NEW t \in Tasks, FailClear(t) PROVE Base'
  BY <1>13 DEF FailClear, Goto, TypeOK, ControlOK, TriesLeft, Labels, LearnLabels
<1>14. ASSUME NEW t \in Tasks, Report(t) PROVE Base'
  BY <1>14 DEF Report, Goto, TypeOK, ControlOK, TriesLeft, Labels, LearnLabels
<1>15. ASSUME NEW t \in Tasks, SendBegin(t) PROVE Base'
  BY <1>15, BeginTransferType
     DEF SendBegin, Goto, TypeOK, ControlOK, TriesLeft, Labels, LearnLabels
<1>16. ASSUME NEW t \in Tasks, SendEnd(t) PROVE Base'
  BY <1>16, EndTransferType
     DEF SendEnd, Goto, TypeOK, ControlOK, TriesLeft, Labels, LearnLabels
<1>17. ASSUME NEW t \in Tasks, Clear(t) PROVE Base'
  <2>1. bits' \in SUBSET {"LEARN", "SEND"}
    BY <1>17 DEF Clear, OwnBitCleared, TypeOK
  <2>2. CASE t \in TcpTasks /\ op[t] = "learn"
    BY <1>17, <2>1, <2>2
       DEF Clear, Goto, TypeOK, ControlOK, TriesLeft, Labels, LearnLabels
  <2>3. CASE ~(t \in TcpTasks /\ op[t] = "learn")
    BY <1>17, <2>1, <2>3, EndBase DEF Clear
  <2>4. QED
    BY <2>2, <2>3
<1>18. ASSUME NEW t \in Tasks, ClearAgain(t) PROVE Base'
  BY <1>18, EndBase DEF ClearAgain, TypeOK
<1>19. CASE IrSignal
  BY <1>19 DEF IrSignal, TypeOK, ControlOK, TriesLeft, Captures
<1>20. CASE UNCHANGED vars
  BY <1>20 DEF vars, TypeOK, ControlOK, TriesLeft
<1>21. QED
  BY <1>1, <1>2, <1>3, <1>4, <1>5, <1>6, <1>7, <1>8, <1>9, <1>10, <1>11, <1>12, <1>13,
     <1>14, <1>15, <1>16, <1>17, <1>18, <1>19, <1>20 DEF Next, StartKey, StartTcp, StartMqtt, Step

\* Types, the control points a handler can reach, and the number of tries
\* (_learn_ir_data's fail_times never passes MaxFails) hold for any number of
\* tasks racing in any way.
THEOREM TypeCorrect == Spec => []TypeOK
<1>1. Base => TypeOK
  BY DEF Base
<1>2. QED
  BY <1>1, BaseInit, BaseStep, PTL DEF Spec

-----------------------------------------------------------------------------
(* What a move of one task leaves alone.                                   *)

Move(t) == (\E o \in {"learn", "send"} : Start(t, o)) \/ Step(t) \/ BusyReleased(t)

LEMMA OthersKeep ==
  ASSUME Base, NEW t \in Tasks, Move(t), NEW u \in Tasks, u # t
  PROVE  /\ pc'[u] = pc[u] /\ op'[u] = op[u] /\ heard'[u] = heard[u]
         /\ fail_times'[u] = fail_times[u] /\ ff_seen'[u] = ff_seen[u]
BY DEF Base, TypeOK, Move, Step, Start, Refused, Granted, CheckType, SetBit, SetLearnAgain,
   ArmBegin, ArmEnd, BusyReleased, ReadBegin, ReadEnd, Judge, FailClear, Report, SendBegin,
   SendEnd, Clear, ClearAgain, End, Goto

\* Only five actions touch the bits.
BitActions(t) == SetBit(t) \/ SetLearnAgain(t) \/ FailClear(t) \/ Clear(t) \/ ClearAgain(t)

LEMMA BitsKept ==
  ASSUME NEW t \in Tasks, Move(t), ~BitActions(t)
  PROVE  bits' = bits
BY DEF Move, Step, Start, Refused, Granted, CheckType, ArmBegin, ArmEnd, BusyReleased,
   ReadBegin, ReadEnd, Judge, Report, SendBegin, SendEnd, BitActions

\* A task on its way to its clear stays on it until it gets there.
LEMMA StaysOnItsWay ==
  ASSUME Base, NEW t \in Tasks, Move(t), ~Clear(t), ~ClearAgain(t), NEW b, WillClear(t, b)
  PROVE  WillClear(t, b)'
BY DEF Base, TypeOK, Move, Step, Start, Refused, Granted, CheckType, SetBit, SetLearnAgain,
   ArmBegin, ArmEnd, BusyReleased, ReadBegin, ReadEnd, Judge, FailClear, Report, SendBegin,
   SendEnd, Goto, WillClear, BitOf, Labels

LEMMA NoOrphanStep == Base /\ NoOrphanBit /\ [Next]_vars => NoOrphanBit'
<1> SUFFICES ASSUME Base, NoOrphanBit, [Next]_vars, NEW b \in bits'
             PROVE  \E u \in Tasks : WillClear(u, b)'
  BY DEF NoOrphanBit
<1>1. ASSUME NEW t \in Tasks, Move(t) PROVE \E u \in Tasks : WillClear(u, b)'
  <2>1. ASSUME NEW u \in Tasks, WillClear(u, b), u # t PROVE WillClear(u, b)'
    BY <1>1, <2>1, OthersKeep DEF WillClear, BitOf
  <2>2. CASE b \notin bits
    <3>1. SetBit(t) \/ SetLearnAgain(t)
      BY <1>1, <2>2, BitsKept DEF BitActions, FailClear, Clear, OwnBitCleared, ClearAgain
    <3>2. WillClear(t, b)'
      BY <2>2, <3>1 DEF Base, TypeOK, ControlOK, LearnLabels, SetBit, SetLearnAgain, Goto,
                        WillClear, BitOf
    <3>3. QED
      BY <3>2
  <2>3. CASE b \in bits
    <3>1. PICK u \in Tasks : WillClear(u, b)
      BY <2>3 DEF NoOrphanBit
    <3>2. CASE u # t
      BY <2>1, <3>1, <3>2
    <3>3. CASE u = t
      <4>1. ~Clear(t) /\ ~ClearAgain(t)
        BY <3>1, <3>3 DEF Clear, OwnBitCleared, ClearAgain, WillClear, BitOf, Base,
                          ControlOK, LearnLabels
      <4>2. QED
        BY <1>1, <3>1, <3>3, <4>1, StaysOnItsWay
    <3>4. QED
      BY <3>2, <3>3
  <2>4. QED
    BY <2>2, <2>3
<1>2. CASE IrSignal \/ UNCHANGED vars
  BY <1>2 DEF IrSignal, vars, NoOrphanBit, WillClear, BitOf
<1>3. QED
  BY <1>1, <1>2 DEF Next, StartKey, StartTcp, StartMqtt, Move

\* However many handlers race, a busy bit that is set has somebody to clear it
\* (the clears on every exit path of main.c's request handlers).
THEOREM NoOrphan == Spec => []NoOrphanBit
<1>1. Init => NoOrphanBit
  BY DEF Init, NoOrphanBit
<1>2. QED
  BY <1>1, BaseInit, BaseStep, NoOrphanStep, PTL DEF Spec

-----------------------------------------------------------------------------
(* Slips only add up; and a request that is let in while none happens saw  *)
(* nobody in a gap.                                                        *)

LEMMA SlipsGrow ==
  ASSUME [Next]_vars
  PROVE  slips \subseteq slips'
<1>1. ASSUME NEW t \in Tasks, Move(t) PROVE slips \subseteq slips'
  BY <1>1 DEF Move, Step, Start, Refused, Granted, CheckType, SetBit, SetLearnAgain,
     ArmBegin, ArmEnd, BusyReleased, ReadBegin, ReadEnd, Judge, FailClear, Report, SendBegin,
     SendEnd, Clear, ClearAgain
<1>2. CASE IrSignal \/ UNCHANGED vars
  BY <1>2 DEF IrSignal, vars
<1>3. QED
  BY <1>1, <1>2 DEF Next, StartKey, StartTcp, StartMqtt, Move

LEMMA NobodyInGap ==
  ASSUME NEW t \in Tasks, Granted(t), NEW u \in Tasks, u # t
  PROVE  /\ "take" \notin slips' => pc[u] \notin {"check", "set"}
         /\ "release" \notin slips' => ~Reclears(u)
BY DEF Granted, Gaps

-----------------------------------------------------------------------------
(* Senders, until a request slips in between a sample and a set.           *)

Inside(t) == pc[t] \notin {"none", "wait"}

\* A sender that has set SEND keeps it set, because there is no second sender.
SendHeld ==
  /\ \A t \in Tasks : op[t] = "send" /\ pc[t] \in {"send", "sending", "clear"} => "SEND" \in bits
  /\ \A t, u \in Tasks : Inside(t) /\ Inside(u) /\ op[t] = "send" /\ op[u] = "send" => t = u

\* How a task gets inside: it found no bit set and nobody about to set one.
LEMMA EntersAlone ==
  ASSUME Base, NEW t \in Tasks, Move(t), ~Inside(t), Inside(t)'
  PROVE  Granted(t) /\ op'[t] = op[t] /\ bits' = bits
BY DEF Base, TypeOK, Move, Step, Start, Refused, Granted, CheckType, SetBit, SetLearnAgain,
   ArmBegin, ArmEnd, BusyReleased, ReadBegin, ReadEnd, Judge, FailClear, Report, SendBegin,
   SendEnd, Clear, ClearAgain, End, Goto, Inside

\* While it is inside, a task does not change its mind about what it does.
LEMMA KeepsOp ==
  ASSUME Base, NEW t \in Tasks, Move(t), Inside(t), Inside(t)'
  PROVE  op'[t] = op[t]
BY DEF Base, TypeOK, Move, Step, Start, Refused, Granted, CheckType, SetBit, SetLearnAgain,
   ArmBegin, ArmEnd, BusyReleased, ReadBegin, ReadEnd, Judge, FailClear, Report, SendBegin,
   SendEnd, Clear, ClearAgain, End, Goto, Inside

SendInv == "take" \notin slips => SendHeld

LEMMA SendHeldStep == Base /\ SendInv /\ [Next]_vars => SendInv'
<1> SUFFICES ASSUME Base, SendHeld, [Next]_vars, "take" \notin slips' PROVE SendHeld'
  BY SlipsGrow DEF SendInv
<1>1. ASSUME NEW t \in Tasks, Move(t) PROVE SendHeld'
  <2>1. ASSUME NEW u \in Tasks, op'[u] = "send", pc'[u] \in {"send", "sending", "clear"}
        PROVE  "SEND" \in bits'
    <3>1. CASE u = t
      <4>1. SetBit(t) \/ (op[t] = "send" /\ pc[t] \in {"send", "sending"} /\ ~BitActions(t))
        BY <1>1, <2>1, <3>1
           DEF Base, TypeOK, ControlOK, LearnLabels, Move, Step, Start, Refused, Granted,
               CheckType, SetBit, SetLearnAgain, ArmBegin, ArmEnd, BusyReleased, ReadBegin,
               ReadEnd, Judge, FailClear, Report, SendBegin, SendEnd, Clear, ClearAgain, End,
               Goto, BitActions
      <4>2. CASE SetBit(t)
        BY <2>1, <3>1, <4>2 DEF SetBit, BitOf
      <4>3. CASE op[t] = "send" /\ pc[t] \in {"send", "sending"} /\ ~BitActions(t)
        BY <1>1, <4>3, BitsKept DEF SendHeld
      <4>4. QED
        BY <4>1, <4>2, <4>3
    <3>2. CASE u # t
      <4>1. op[u] = "send" /\ pc[u] \in {"send", "sending", "clear"} /\ "SEND" \in bits
        BY <1>1, <2>1, <3>2, OthersKeep DEF SendHeld
      <4>2. ~(op[t] = "send" /\ Inside(t))
        BY <3>2, <4>1 DEF SendHeld, Inside
      <4>3. QED
        BY <1>1, <4>1, <4>2, BitsKept
           DEF Base, TypeOK, ControlOK, LearnLabels, BitActions, SetBit, SetLearnAgain, FailClear,
               Clear, OwnBitCleared, ClearAgain, BitOf, Inside
    <3>3. QED
      BY <3>1, <3>2
  <2>2. ASSUME NEW u \in Tasks, u # t, Inside(t)', Inside(u)', op'[t] = "send", op'[u] = "send"
        PROVE  FALSE
    <3>1. Inside(u) /\ op[u] = "send"
      BY <1>1, <2>2, OthersKeep DEF Inside
    <3>2. CASE Inside(t)
      BY <1>1, <2>2, <3>1, <3>2, KeepsOp DEF SendHeld
    <3>3. CASE ~Inside(t)
      <4>1. Granted(t)
        BY <1>1, <2>2, <3>3, EntersAlone
      <4>2. pc[u] \notin {"check", "set"} /\ bits = {}
        BY <2>2, <4>1, NobodyInGap DEF Granted, Free
      <4>3. pc[u] \in {"send", "sending", "clear"}
        BY <3>1, <4>2 DEF Base, TypeOK, Labels, ControlOK, LearnLabels, Inside
      <4>4. QED
        BY <3>1, <4>2, <4>3 DEF SendHeld
    <3>4. QED
      BY <3>2, <3>3
  <2>3. ASSUME NEW u \in Tasks, NEW v \in Tasks, u # t, v # t, Inside(u)', Inside(v)',
               op'[u] = "send", op'[v] = "send"
        PROVE  u = v
    BY <1>1, <2>3, OthersKeep DEF SendHeld, Inside
  <2>4. QED
    BY <2>1, <2>2, <2>3 DEF SendHeld
<1>2. CASE IrSignal \/ UNCHANGED vars
  BY <1>2 DEF IrSignal, vars, SendHeld, Inside
<1>3. QED
  BY <1>1, <1>2 DEF Next, StartKey, StartTcp, StartMqtt, Move

\* From SetBit to its clear a sender keeps every other request out, whatever the
\* learners and their double clears do, until a request slips in between another
\* one's sample and its set.
THEOREM SenderShutsOut == Spec => SendShutsOut
<1> DEFINE Out == \A t, u \in Tasks :
                    (/\ t # u /\ "take" \notin slips
                     /\ pc[t] \in {"send", "sending"} /\ op[t] = "send" /\ pc[u] = "wait")
                      => pc'[u] \in {"wait", "none"}
<1>1. Init => SendInv
  BY DEF Init, SendInv, SendHeld, Inside
<1>2. Base /\ SendInv /\ [Next]_vars => [Out]_vars
  <2> SUFFICES ASSUME Base, SendInv, [Next]_vars, NEW t \in Tasks, NEW u \in Tasks,
                      "take" \notin slips,
                      pc[t] \in {"send", "sending"}, op[t] = "send", pc[u] = "wait",
                      pc'[u] \notin {"wait", "none"}
               PROVE  FALSE
    OBVIOUS
  <2>1. PICK v \in Tasks : Move(v)
    BY DEF Next, StartKey, StartTcp, StartMqtt, Move, IrSignal, vars
  <2>2. v = u
    BY <2>1, OthersKeep
  <2>3. Granted(u)
    BY <2>1, <2>2, EntersAlone DEF Inside
  <2>4. QED
    BY <2>3 DEF Granted, Free, SendInv, SendHeld
<1>3. QED
  BY <1>1, <1>2, BaseInit, BaseStep, SendHeldStep, PTL DEF Spec, SendShutsOut

-----------------------------------------------------------------------------
(* Mutual exclusion, until a request slips in there or between the two     *)
(* clears of a learner.                                                    *)

\* Between its set and its last clear but one, a task's bit is set.
Owns(t) == Inside(t) /\ pc[t] \notin {"check", "set"} /\ ~Reclears(t)

Exclusive ==
  /\ \A t, u \in Tasks : Inside(t) /\ Inside(u) => t = u
  /\ \A t \in Tasks : Owns(t) => BitOf(t) \in bits

\* What a learner knows of the buffer and of its own capture.
BufferOK ==
  \A t \in Tasks :
    /\ pc[t] \in {"arming", "busy", "read", "reading", "judge"} => filler = t
    /\ ff_seen[t] => pc[t] \in {"report", "clear", "clear2"}
    /\ pc[t] = "report" => buffer = heard[t] /\ HasMark(heard[t])

LEMMA AloneInside ==
  ASSUME Base, Exclusive, NEW t \in Tasks, Granted(t), slips' = {}, NEW u \in Tasks, u # t
  PROVE  ~Inside(u)
<1>1. bits = {} /\ pc[u] \notin {"check", "set"} /\ ~Reclears(u)
  BY NobodyInGap DEF Granted, Free
<1>2. ~Owns(u)
  BY <1>1 DEF Exclusive
<1>3. QED
  BY <1>1, <1>2 DEF Owns

\* A move of a task that is inside leaves it owning its bit or past it.
LEMMA OwnsAfter ==
  ASSUME Base, NEW t \in Tasks, Move(t), Owns(t) => BitOf(t) \in bits, Owns(t)'
  PROVE  (BitOf(t) \in bits)'
<1>1. ASSUME SetBit(t) \/ SetLearnAgain(t) PROVE (BitOf(t) \in bits)'
  BY <1>1 DEF SetBit, SetLearnAgain, BitOf, Base, TypeOK, ControlOK, LearnLabels
<1>2. ASSUME FailClear(t) \/ Clear(t) \/ ClearAgain(t) PROVE FALSE
  <2>1. CASE FailClear(t)
    BY <2>1 DEF FailClear, Goto, Base, TypeOK, ControlOK, LearnLabels, Owns, Inside, Reclears
  <2>2. CASE Clear(t)
    BY <2>2 DEF Clear, End, Goto, Base, TypeOK, Owns, Inside, Reclears
  <2>3. CASE ClearAgain(t)
    BY <2>3 DEF ClearAgain, End, Goto, Base, TypeOK, Owns, Inside, Reclears
  <2>4. QED
    BY <1>2, <2>1, <2>2, <2>3
<1>3. ASSUME ~BitActions(t) PROVE (BitOf(t) \in bits)'
  <2>1. pc'[t] \notin {"none", "wait", "check", "set"}
    BY <1>3 DEF Owns, Inside
  <2>2. /\ op'[t] = op[t]
        /\ pc[t] \in {"arm", "arming", "busy", "read", "reading", "judge", "report", "send", "sending"}
    BY <1>3, <2>1
       DEF Base, TypeOK, BitActions, Move, Step, Start, Refused, Granted, CheckType, ArmBegin,
           ArmEnd, BusyReleased, ReadBegin, ReadEnd, Judge, Report, SendBegin, SendEnd, End, Goto
  <2>3. Owns(t)
    BY <2>2 DEF Owns, Inside, Reclears
  <2>4. QED
    BY <1>3, <2>2, <2>3, BitsKept DEF BitOf
<1>4. QED
  BY <1>1, <1>2, <1>3 DEF BitActions

LEMMA ExclusiveStep ==
  ASSUME Base, Exclusive, [Next]_vars, slips' = {}
  PROVE  Exclusive'
<1>1. ASSUME NEW t \in Tasks, Move(t) PROVE Exclusive'
  <2>1. ASSUME NEW u \in Tasks, u # t, Inside(t)', Inside(u)' PROVE FALSE
    <3>1. Inside(u)
      BY <1>1, <2>1, OthersKeep DEF Inside
    <3>2. CASE Inside(t)
      BY <2>1, <3>1, <3>2 DEF Exclusive
    <3>3. CASE ~Inside(t)
      BY <1>1, <2>1, <3>1, <3>3, EntersAlone, AloneInside
    <3>4. QED
      BY <3>2, <3>3
  <2>2. ASSUME NEW u \in Tasks, NEW v \in Tasks, u # t, v # t, Inside(u)', Inside(v)'
        PROVE  u = v
    BY <1>1, <2>2, OthersKeep DEF Exclusive, Inside
  <2>3. (Owns(t) => BitOf(t) \in bits)'
    BY <1>1, OwnsAfter DEF Exclusive
  <2>4. ASSUME NEW u \in Tasks, u # t, Owns(u)' PROVE (BitOf(u) \in bits)'
    <3>1. Owns(u) /\ BitOf(u)' = BitOf(u)
      BY <1>1, <2>4, OthersKeep DEF Owns, Inside, Reclears, BitOf
    <3>2. BitOf(u) \in bits /\ ~Inside(t)
      BY <2>4, <3>1 DEF Exclusive, Owns
    <3>3. bits' = bits
      BY <1>1, <3>2, BitsKept
         DEF BitActions, SetBit, SetLearnAgain, FailClear, Clear, ClearAgain, Inside
    <3>4. QED
      BY <3>1, <3>2, <3>3
  <2>5. QED
    BY <2>1, <2>2, <2>3, <2>4 DEF Exclusive
<1>2. CASE IrSignal \/ UNCHANGED vars
  BY <1>2 DEF IrSignal, vars, Exclusive, Inside, Owns, Reclears, BitOf
<1>3. QED
  BY <1>1, <1>2 DEF Next, StartKey, StartTcp, StartMqtt, Move

-----------------------------------------------------------------------------
(* The buffer, under mutual exclusion.                                     *)

\* Only a learner inside the engine writes the buffer.
LEMMA OnlyLearnersWrite ==
  ASSUME NEW t \in Tasks, Move(t), buffer' # buffer \/ filler' # filler
  PROVE  ArmBegin(t) \/ ReadBegin(t) \/ Judge(t)
BY DEF Move, Step, Start, Refused, Granted, CheckType, SetBit, SetLearnAgain, ArmEnd,
   BusyReleased, ReadEnd, FailClear, Report, SendBegin, SendEnd, Clear, ClearAgain

LEMMA BufferStep ==
  ASSUME Base, Exclusive, BufferOK, [Next]_vars
  PROVE  BufferOK'
<1> DEFINE Knows(t) ==
      /\ pc[t] \in {"arming", "busy", "read", "reading", "judge"} => filler = t
      /\ ff_seen[t] => pc[t] \in {"report", "clear", "clear2"}
      /\ pc[t] = "report" => buffer = heard[t] /\ HasMark(heard[t])
<1>1. ASSUME NEW t \in Tasks, Move(t) PROVE BufferOK'
  <2>1. ASSUME NEW u \in Tasks, u # t PROVE Knows(u)'
    <3>1. Knows(u) /\ UNCHANGED <<pc[u], heard[u], fail_times[u], ff_seen[u]>>
      BY <1>1, <2>1, OthersKeep DEF BufferOK
    <3>2. Inside(u) => UNCHANGED <<buffer, filler>>
      BY <1>1, <2>1, OnlyLearnersWrite
         DEF Exclusive, Inside, ArmBegin, ReadBegin, Judge
    <3>3. QED
      BY <3>1, <3>2 DEF Inside
  <2>2. Knows(t)'
    <3>1. CASE Judge(t)
      <4>1. filler = t /\ pc[t] = "judge" /\ ~ff_seen[t] /\ ff_seen[t] \in BOOLEAN
        BY <3>1 DEF BufferOK, Judge, Base, TypeOK
      <4>2. buffer' = Written(heard[t]) /\ UNCHANGED <<heard, filler>>
        BY <3>1, <4>1 DEF Judge
      <4>3. PICK seen \in BOOLEAN :
              /\ seen <=> HasMark(heard[t])
              /\ ff_seen' = [ff_seen EXCEPT ![t] = seen]
              /\ \/ FcsGood(heard[t]) /\ seen
                    /\ Goto(t, IF t \in KeyTasks THEN "clear" ELSE "report")
                 \/ ~FcsGood(heard[t]) /\ FailsAfter(t) < MaxFails /\ Goto(t, "arm")
                 \/ ~FcsGood(heard[t]) /\ FailsAfter(t) >= MaxFails /\ Goto(t, "fail")
                 \/ FcsGood(heard[t]) /\ ~seen /\ Goto(t, "fail")
        BY <3>1, <4>1, Zenon DEF Judge, SeenAfter
      <4>4. HasMark(heard[t]) => FcsGood(heard[t])
        BY IrAssumption DEF HasMark, FcsGood
      <4>5. /\ pc'[t] \in {"clear", "report", "arm", "fail"}
            /\ pc'[t] = "report" => FcsGood(heard[t]) /\ HasMark(heard[t])
            /\ pc'[t] \in {"arm", "fail"} => ~seen
            /\ ff_seen'[t] = seen
        BY <4>3, <4>4 DEF Goto, Base, TypeOK
      <4>6. pc'[t] = "report" => buffer' = heard'[t] /\ HasMark(heard'[t])
        BY <4>2, <4>5 DEF Written
      <4>7. QED
        BY <4>5, <4>6
    <3>2. CASE ~Judge(t)
      <4>1. pc[t] = "arm" => \A u \in Tasks \ {t} : pc[u] # "reading"
        BY DEF Exclusive, Inside
      <4>2. /\ pc'[t] \in {"arming", "busy", "read", "reading", "judge"} => filler' = t
            /\ pc'[t] # "report"
        BY <1>1, <3>2, <4>1
           DEF Base, TypeOK, BufferOK, Move, Step, Start, Refused, Granted, CheckType, SetBit,
               SetLearnAgain, ArmBegin, ArmEnd, BusyReleased, ReadBegin, ReadEnd, FailClear,
               Report, SendBegin, SendEnd, Clear, ClearAgain, End, Goto
      <4>3. \/ ff_seen'[t] = FALSE
            \/ /\ ff_seen'[t] = ff_seen[t]
               /\ pc[t] \in {"report", "clear", "clear2"}
                    => pc'[t] \in {"clear", "clear2"}
        BY <1>1, <3>2
           DEF Base, TypeOK, Move, Step, Start, Refused, Granted, CheckType, SetBit,
               SetLearnAgain, ArmBegin, ArmEnd, BusyReleased, ReadBegin, ReadEnd, FailClear,
               Report, SendBegin, SendEnd, Clear, ClearAgain, End, Goto
      <4>4. QED
        BY <4>2, <4>3 DEF BufferOK
    <3>3. QED
      BY <3>1, <3>2
  <2>3. QED
    BY <2>1, <2>2 DEF BufferOK
<1>2. CASE IrSignal \/ UNCHANGED vars
  BY <1>2 DEF IrSignal, vars, BufferOK
<1>3. QED
  BY <1>1, <1>2 DEF Next, StartKey, StartTcp, StartMqtt, Move

\* The invariant of the requests that nothing slipped between.
Alone == slips = {} => Exclusive /\ BufferOK

LEMMA AloneInvariant == Spec => [](Base /\ Alone)
<1>1. Init => Alone
  BY DEF Init, Alone, Exclusive, Inside, Owns, BufferOK, LearnLabels
<1>2. Base /\ Alone /\ [Next]_vars => Alone'
  <2> SUFFICES ASSUME Base, Alone, [Next]_vars, slips' = {}
               PROVE  Exclusive' /\ BufferOK'
    BY DEF Alone
  <2>1. slips = {}
    BY SlipsGrow
  <2>2. QED
    BY <2>1, ExclusiveStep, BufferStep DEF Alone
<1>3. QED
  BY <1>1, <1>2, BaseInit, BaseStep, PTL DEF Spec

\* One task at a time drives the chip, the bus and ir_learned_data, for any
\* number of tasks, until a request slips through one of the two gaps the code
\* leaves open: between sample and set, and between the first and the last clear
\* of LEARN.
THEOREM EngineExclusive == Spec => []MutualExclusion
<1>1. Base /\ Alone => MutualExclusion
  BY DEF Base, Alone, Exclusive, MutualExclusion, Using, Inside
<1>2. QED
  BY <1>1, AloneInvariant, PTL

\* What a learner reports is what it heard, not what another learner wiped or
\* overwrote (msg_success_0xaf and tcp_mqtt_report read the global buffer).
THEOREM HeardIsReported == Spec => []ReportIsHeard
<1>1. Alone => ReportIsHeard
  BY DEF Alone, BufferOK, ReportIsHeard
<1>2. QED
  BY <1>1, AloneInvariant, PTL

\* What a request reports as learned is a whole code, with its end mark, whatever
\* tries failed before it (_read_ir_data wipes the buffer for every try and
\* readI2C2 stores nothing of a capture with a bad FCS).
THEOREM WholeReported == Spec => []ReportIsWhole
<1>1. Alone => ReportIsWhole
  BY DEF Alone, BufferOK, ReportIsWhole, HasMark
<1>2. QED
  BY <1>1, AloneInvariant, PTL

\* The bytes a key press sends do not change under writeI2C2.
THEOREM SentBytesStable == Spec => SentBufferStable
<1> DEFINE Stable == \A t \in KeyTasks :
                       (slips = {} /\ pc[t] = "sending" /\ pc'[t] # "none") => buffer' = buffer
<1>1. Base /\ Alone /\ [Next]_vars => [Stable]_vars
  <2> SUFFICES ASSUME Alone, slips = {}, Next, NEW t \in KeyTasks, pc[t] = "sending"
               PROVE  buffer' = buffer
    OBVIOUS
  <2>1. t \in Tasks
    BY DEF Tasks
  <2>2. ASSUME NEW u \in Tasks, Move(u) PROVE buffer' = buffer
    <3>1. ~(ArmBegin(t) \/ ReadBegin(t) \/ Judge(t))
      BY DEF ArmBegin, ReadBegin, Judge
    <3>2. ArmBegin(u) \/ ReadBegin(u) \/ Judge(u) => u = t
      BY <2>1, <2>2 DEF Alone, Exclusive, Inside, ArmBegin, ReadBegin, Judge
    <3>3. QED
      BY <2>2, <3>1, <3>2, OnlyLearnersWrite
  <2>3. QED
    BY <2>2 DEF Next, StartKey, StartTcp, StartMqtt, Move, IrSignal
<1>2. QED
  BY <1>1, AloneInvariant, PTL DEF Spec, SentBufferStable

-----------------------------------------------------------------------------
(* TwoWire: where a transfer is                                            *)

\* What every state has, whatever the call.
Levelled == sda \in Levels(out, latch, pull)
ChipTyped == hxd \in [mode : Modes, bits : Seq({0, 1}), reads : BOOLEAN]
SlaveTypes ==
  /\ ChipTyped /\ (hxd.mode = "give" => hxd.bits # <<>>)
  /\ hxd.mode \in {"take", "ack"} => frames # <<>>
  /\ frames \in Seq(Seq(Bytes)) /\ gave \in Seq(Bytes) /\ nacked \in BOOLEAN
WireTypes ==
  /\ scl \in {0, 1} /\ out \in BOOLEAN /\ latch \in {0, 1} /\ pull \in BOOLEAN /\ Levelled
  /\ refused \in BOOLEAN /\ fought \in BOOLEAN
  /\ ChipTyped
  /\ hxd.mode = "give" => hxd.bits # <<>>
  /\ hxd.mode \in {"take", "ack"} => frames # <<>>
  /\ frames \in Seq(Seq(Bytes)) /\ gave \in Seq(Bytes) /\ nacked \in BOOLEAN
  /\ got \in Seq(Seq({0, 1}))
  /\ step \in Nat
  /\ transfer \in Transfers \cup {NoTransfer}
  /\ transfers \in 0 .. MaxTransfers

Short == Len(hxd.bits) <= Width /\ \A k \in DOMAIN got : Len(got[k]) <= Width

Drives(level) == out /\ latch = level
Still == pull = Wants
\* Neither start nor stop is under way, and the wires are up.
Quiet == scl = 1 /\ Drives(1) /\ hxd.mode = "idle" /\ ~pull

\* The chip listens, or does not since it left a byte without acknowledgement.
Hears(word) ==
  \/ hxd.mode = "take" /\ hxd.bits = word /\ ~hxd.reads
  \/ hxd.mode = "ignore" /\ nacked
Took(before, cur) ==
  /\ ~nacked => frames = Append(before, cur)
  /\ frames # <<>>
  /\ hxd.mode \in {"take", "ack"} => frames[Len(frames)] = cur
Knows(all) == ~nacked => frames = all

InWake ==
  /\ step \in 0 .. 5
  /\ scl = (IF step \in {2, 3} THEN 0 ELSE 1)
  /\ Drives(1) /\ hxd.mode = "idle" /\ ~pull

InStart(before) ==
  \/ /\ step \in 0 .. 4 /\ ~Wants /\ ~pull /\ Knows(before)
     /\ step = 0 => scl = 0 \/ Drives(1)
     /\ step \in 1 .. 4 => out
     /\ step = 1 => scl = 0 \/ Drives(1)
     /\ step \in 2 .. 4 => scl = 1
     /\ step \in {3, 4} => latch = 1
     /\ hxd.mode \in {"take", "ignore", "idle"}
     /\ hxd.mode = "take" => Len(hxd.bits) <= (IF scl = 1 THEN 1 ELSE 0)
  \/ /\ step \in 5 .. 8 /\ ~pull
     /\ scl = (IF step \in {5, 6} THEN 1 ELSE 0) /\ Drives(0)
     /\ hxd = [mode |-> "take", bits |-> <<>>, reads |-> FALSE]
     /\ Took(before, <<>>)

\* The parts of a byte written: up to its first bit, a bit, the acknowledgement, and
\* what the chip makes of it.
Leads(before, cur) ==
  /\ step \in 0 .. 2 /\ scl = 0 /\ (step >= 1 => out) /\ ~pull
  /\ Hears(<<>>) /\ Took(before, cur)
SendsBit(before, cur, b, k, j) ==
  /\ step = 6 * k - 3 + j
  /\ out /\ scl = (IF j >= 4 THEN 1 ELSE 0) /\ (j >= 2 => latch = Bits(b)[k]) /\ ~pull
  /\ Hears(SubSeq(Bits(b), 1, IF j >= 4 THEN k ELSE k - 1)) /\ Took(before, cur)
Asks(cur, b) ==
  \/ hxd = [mode |-> "ack", bits |-> <<>>, reads |-> cur = <<>> /\ b = ReadAddress]
  \/ hxd.mode = "ignore" /\ nacked
AwaitsAck(before, cur, b) ==
  /\ step \in 51 .. 57 /\ scl = (IF step >= 54 THEN 1 ELSE 0)
  /\ (out <=> step = 51) /\ (step >= 53 => Still)
  /\ Asks(cur, b) /\ Took(before, Append(cur, b))
\* The chip has sent n bytes and sends the next, or has sent all.
Giving(n) ==
  \/ /\ hxd.mode = "give" /\ Len(gave) = n + 1 /\ n <= ReadLen
     /\ hxd.bits = Bits(gave[n + 1])
  \/ hxd.mode = "ignore" /\ IF gave = <<>> THEN n <= 1 /\ nacked ELSE Len(gave) = n /\ n = ReadLen + 1
Acked(before, cur, b) ==
  /\ step \in 58 .. 60 /\ scl = 0 /\ ~out /\ (step >= 59 => Still)
  /\ Took(before, Append(cur, b))
  /\ IF cur = <<>> /\ b = ReadAddress THEN Giving(0) ELSE Hears(<<>>) /\ gave = <<>>
InWrite(before, cur, b) ==
  /\ \/ Leads(before, cur)
     \/ \E k \in 1 .. Width, j \in 0 .. 5 : SendsBit(before, cur, b, k, j)
     \/ AwaitsAck(before, cur, b)
     \/ Acked(before, cur, b)
  /\ gave = <<>> \/ (step \in 58 .. 60 /\ Len(gave) = 1)
  /\ got = <<>>

\* What was read of the nth byte: the first bits of what the chip sends, or ones.
\* The first n bytes were read as they were sent; a chip that does not answer reads
\* as ones.
Ones == [k \in 1 .. Width |-> 1]
ReadSoFar(n) ==
  /\ Len(got) = n
  /\ IF gave = <<>> THEN n <= 1 /\ (n = 1 => got[1] = Ones)
     ELSE n <= Len(gave) /\ \A k \in 1 .. n : got[k] = Bits(gave[k])
Part(n) == IF gave = <<>> THEN Ones ELSE Bits(gave[n])
ReadPart(n, k) ==
  /\ Len(got) = n /\ got[n] = SubSeq(Part(n), 1, k)
  /\ IF gave = <<>> THEN n = 1 ELSE Len(gave) = n /\ \A m \in 1 .. n - 1 : got[m] = Bits(gave[m])
\* The chip holds the bits of its byte from the kth on.
Holds(n, k) ==
  \/ hxd.mode = "give" /\ Len(gave) = n /\ n <= ReadLen + 1 /\ k <= Width
     /\ hxd.bits = SubSeq(Bits(gave[n]), k, Width)
  \/ hxd.mode = "acked" /\ Len(gave) = n /\ n <= ReadLen + 1 /\ k = Width + 1
  \/ hxd.mode = "ignore" /\ nacked /\ gave = <<>>
ReadsOn(n) ==
  /\ step \in {0, 1} /\ scl = 0 /\ (step = 1 => ~out) /\ Still
  /\ Giving(n - 1) /\ ReadSoFar(n - 1)
ReadsBit(n, k, j) ==
  /\ step = 5 * k - 3 + j
  /\ ~out /\ scl = (IF j \in 1 .. 3 THEN 1 ELSE 0) /\ (j # 4 => Still)
  /\ Holds(n, IF j = 4 THEN k + 1 ELSE k)
  /\ ReadPart(n, IF j >= 3 THEN k ELSE k - 1)
Acks(n) ==
  /\ step \in 42 .. 50 /\ scl = (IF step >= 49 THEN 1 ELSE 0)
  /\ (out <=> step >= 45) /\ (step >= 47 => latch = 0) /\ ~pull
  /\ Holds(n, Width + 1) /\ ReadSoFar(n)
HasAcked(n) ==
  /\ step \in {51, 52} /\ scl = 0 /\ Drives(0) /\ (step = 52 => Still)
  /\ Giving(n) /\ ReadSoFar(n)
InRead(n) ==
  \/ ReadsOn(n)
  \/ \E k \in 1 .. Width, j \in 0 .. 4 : ReadsBit(n, k, j)
  \/ Acks(n)
  \/ HasAcked(n)

\* A stop; only one behind a refused byte can meet a chip that sends.
Sends == refused /\ hxd.mode = "give"
InStop ==
  /\ step \in 0 .. 8
  /\ scl = (IF step >= 5 THEN 1 ELSE 0) /\ (step >= 1 => out)
  /\ step \in 3 .. 6 => latch = 0
  /\ step \in {7, 8} => latch = 1
  /\ step <= 6 => Still /\ (Sends \/ hxd.mode \in {"take", "ignore"})
  /\ step = 7 => hxd.mode = "idle" \/ (Sends /\ Wants)
  /\ step = 8 => hxd.mode = "idle" /\ ~pull
  /\ hxd.mode = "take" => Len(hxd.bits) <= scl

Rest(all, at) == SubSeq(all, at, Len(all))

InOpen == step \in 0 .. 3 /\ Quiet
Ended(full) == step = 0 /\ Quiet /\ Knows(full)

Commands == <<WriteAddress, LearnedAt>>
\* The two frames of a read.
Asked == <<Commands>>
Both == <<Commands, <<ReadAddress>>>>

AtOpening(at) ==
  /\ at = 1 => InOpen /\ Knows(<<>>)
  /\ at = 2 => InWake /\ Knows(<<>>)
  /\ at = 3 => InStart(<<>>)
  /\ gave = <<>> /\ got = <<>>

Writes(bytes, at) ==
  LET n == Len(bytes)
  IN  /\ at \in 4 .. n + 3 =>
           /\ at = 4 \/ ~AsksToRead(bytes)
           /\ InWrite(<<>>, SubSeq(bytes, 1, at - 4), bytes[at - 3])
      /\ at = n + 4 => InStop /\ Knows(<<Taken(bytes)>>)
      /\ at = n + 5 => InOpen /\ Knows(<<Taken(bytes)>>)
      /\ at = n + 6 => Ended(<<Taken(bytes)>>)

Addresses(at) ==
  /\ at = 4 => InWrite(<<>>, <<>>, WriteAddress)
  /\ at = 5 => InWrite(<<>>, <<WriteAddress>>, LearnedAt)
  /\ at = 6 => InStart(Asked) /\ gave = <<>> /\ got = <<>>
  /\ at = 7 => InWrite(Asked, <<>>, ReadAddress)
  /\ at = 8 => InRead(1) /\ Knows(Both)
  /\ at = 9 => step = 0 /\ scl = 0 /\ Drives(0) /\ Still /\ Giving(1) /\ ReadSoFar(1) /\ Knows(Both)

ReadCalls == [k \in 1 .. ReadLen |-> Call("read")]
Whole == gave # <<>> /\ Len(gave) = ReadLen + 1 /\ ReadSoFar(ReadLen + 1) 
Reads(at) ==
  /\ Knows(Both)
  /\ at \in 1 .. ReadLen => gave # <<>> /\ InRead(at + 1)
  /\ at = ReadLen + 1 => InStop /\ Whole
  /\ at = ReadLen + 2 => InOpen /\ Whole
  /\ at = ReadLen + 3 => step = 0 /\ Quiet /\ Whole
Leaves(at) ==
  /\ Knows(Both)
  /\ at = 1 => InStop
  /\ at = 2 => InOpen
  /\ at = 3 => step = 0 /\ Quiet

OnWrite ==
  /\ transfer.kind = "write" /\ ~refused
  /\ \E at \in 1 .. Len(transfer.bytes) + 6 :
       /\ calls = Rest(Calls(transfer), at)
       /\ at \in 1 .. 3 => AtOpening(at)
       /\ Writes(transfer.bytes, at)
\* A read asks, and reads the rest or leaves it.
Remaining == ReadCalls \o Closing
Asking(at) ==
  /\ ~refused /\ calls = Rest(Calls(transfer), at)
  /\ at \in 1 .. 3 => AtOpening(at)
  /\ Addresses(at)
Reading(at) == ~refused /\ calls = Rest(Remaining, at) /\ Reads(at)
Leaving(at) == refused /\ calls = Rest(Closing, at) /\ Leaves(at)
OnRead ==
  /\ transfer.kind = "read"
  /\ \/ \E at \in 1 .. 9 : Asking(at)
     \/ \E at \in 1 .. ReadLen + 3 : Reading(at)
     \/ \E at \in 1 .. 3 : Leaving(at)
OnNone ==
  transfer = NoTransfer /\ transfers = 0 /\ calls = <<>> /\ step = 0 /\ Quiet
OnTrack == OnNone \/ (transfers > 0 /\ (OnWrite \/ OnRead))

\* Behind the first byte of a code that asks the chip sends, or ignores the rest; SDA
\* only changes while SCL is low, up to the stop.
Adrift == hxd.mode \in {"give", "acked", "ignore"}
High(at) == at \in {7, 8, 13, 14, 19, 20, 25, 26, 31, 32, 37, 38, 43, 44, 49, 50, 54, 55, 56, 57}
Strays == step \in 0 .. 60 /\ scl = (IF High(step) THEN 1 ELSE 0) /\ Adrift
StraysOff ==
  /\ step \in 0 .. 7
  /\ scl = (IF step >= 5 THEN 1 ELSE 0) /\ (step >= 1 => out)
  /\ step \in 3 .. 6 => latch = 0
  /\ step = 7 => latch = 1
  /\ step <= 6 => Adrift
  /\ step = 6 => Still
  /\ step = 7 => hxd.mode = "idle" \/ Wants
Straying ==
  /\ transfer.kind = "write" /\ ~refused /\ AsksToRead(transfer.bytes)
  /\ got = <<>> /\ Knows(<<Taken(transfer.bytes)>>)
  /\ \E at \in 5 .. Len(transfer.bytes) + 4 :
       /\ calls = Rest(Calls(transfer), at)
       /\ IF at = Len(transfer.bytes) + 4 THEN StraysOff ELSE Strays

Excused == refused \/ (transfer.kind = "write" /\ AsksToRead(transfer.bytes))
Lost ==
  /\ Excused /\ scl = 1 /\ Drives(1)
  /\ \/ calls = Closing /\ step = 8
     \/ calls = <<Call("open")>> /\ step \in 0 .. 3
     \/ calls = <<>> /\ step = 0
Found == IF fought THEN Lost ELSE OnTrack
WireInv == WireTypes /\ Short /\ (Found \/ (transfers > 0 /\ Straying))

-----------------------------------------------------------------------------
(* Bytes and their bits                                                    *)

LEMMA ElementsAre ==
  ASSUME NEW E, NEW s \in Seq(E)
  PROVE  Len(s) \in Nat /\ DOMAIN s = 1 .. Len(s) /\ \A k \in 1 .. Len(s) : s[k] \in E
OBVIOUS

LEMMA EightIsSeq ==
  ASSUME NEW E, NEW f, f = [k \in 1 .. 8 |-> f[k]], \A k \in 1 .. 8 : f[k] \in E
  PROVE  f \in Seq(E) /\ Len(f) = 8
<1>1. [k \in 1 .. 8 |-> f[k]] \in Seq(E)
  BY IsASeq
<1>2. QED
  BY <1>1

LEMMA BitsAre ==
  ASSUME NEW b \in Bytes
  PROVE  /\ Bits(b) \in Seq({0, 1}) /\ Len(Bits(b)) = 8 /\ DOMAIN Bits(b) = 1 .. 8
         /\ \A k \in 1 .. 8 : Bits(b)[k] \in {0, 1}
         /\ Bits(b)[1] = (b \div 128) % 2 /\ Bits(b)[2] = (b \div 64) % 2
         /\ Bits(b)[3] = (b \div 32) % 2 /\ Bits(b)[4] = (b \div 16) % 2
         /\ Bits(b)[5] = (b \div 8) % 2 /\ Bits(b)[6] = (b \div 4) % 2
         /\ Bits(b)[7] = (b \div 2) % 2 /\ Bits(b)[8] = (b \div 1) % 2
<1>1. /\ Weights[1] = 128 /\ Weights[2] = 64 /\ Weights[3] = 32 /\ Weights[4] = 16
      /\ Weights[5] = 8 /\ Weights[6] = 4 /\ Weights[7] = 2 /\ Weights[8] = 1
  BY DEF Weights
<1>2. \A k \in 1 .. 8 : Weights[k] \in Nat \ {0}
  BY <1>1
<1>3. \A k \in 1 .. 8 : (b \div Weights[k]) % 2 \in {0, 1}
  <2>1. ASSUME NEW w \in Nat \ {0} PROVE (b \div w) % 2 \in {0, 1}
    <3>1. b \div w \in Int
      BY DEF Bytes
    <3>2. QED
      BY <3>1
  <2>2. QED
    BY <1>2, <2>1
<1>4. Bits(b) = [k \in 1 .. 8 |-> (b \div Weights[k]) % 2]
  BY DEF Bits, Width
<1>5. Bits(b) \in [1 .. 8 -> {0, 1}]
  BY <1>3, <1>4
<1>6. Bits(b) \in Seq({0, 1}) /\ Len(Bits(b)) = 8
  <2>1. Bits(b) = [k \in 1 .. 8 |-> Bits(b)[k]] /\ \A k \in 1 .. 8 : Bits(b)[k] \in {0, 1}
    BY <1>3, <1>4
  <2>2. QED
    BY <2>1, EightIsSeq
<1>7. QED
  BY <1>1, <1>3, <1>4, <1>5, <1>6

LEMMA ValueOfBits ==
  ASSUME NEW b \in Bytes
  PROVE  Value(Bits(b)) = b
<1>1. b \in 0 .. 255
  BY DEF Bytes
<1>2. PICK h1, h2, h3, h4, h5, h6, h7 \in Nat :
        /\ h1 = b \div 2 /\ h2 = b \div 4 /\ h3 = b \div 8 /\ h4 = b \div 16
        /\ h5 = b \div 32 /\ h6 = b \div 64 /\ h7 = b \div 128
  BY <1>1
<1>3. /\ b = 2 * h1 + (b % 2) /\ h1 = 2 * h2 + (h1 % 2) /\ h2 = 2 * h3 + (h2 % 2)
      /\ h3 = 2 * h4 + (h3 % 2) /\ h4 = 2 * h5 + (h4 % 2) /\ h5 = 2 * h6 + (h5 % 2)
      /\ h6 = 2 * h7 + (h6 % 2) /\ h7 = h7 % 2
  <2>1. h2 = h1 \div 2 /\ h3 = h2 \div 2
    BY <1>1, <1>2
  <2>2. h4 = h3 \div 2 /\ h5 = h4 \div 2
    BY <1>1, <1>2
  <2>3. h6 = h5 \div 2 /\ h7 = h6 \div 2
    BY <1>1, <1>2
  <2>4. h7 \in {0, 1}
    BY <1>1, <1>2
  <2>5. ASSUME NEW x \in Nat PROVE x = 2 * (x \div 2) + (x % 2)
    OBVIOUS
  <2>6. h7 = h7 % 2
    BY <2>4
  <2>7. QED
    BY <1>1, <1>2, <2>1, <2>2, <2>3, <2>5, <2>6
<1>4. /\ Bits(b)[1] = h7 % 2 /\ Bits(b)[2] = h6 % 2 /\ Bits(b)[3] = h5 % 2
      /\ Bits(b)[4] = h4 % 2 /\ Bits(b)[5] = h3 % 2 /\ Bits(b)[6] = h2 % 2
      /\ Bits(b)[7] = h1 % 2 /\ Bits(b)[8] = b % 2
  <2>1. b \div 1 = b
    BY <1>1
  <2>2. QED
    BY <1>2, <2>1, BitsAre
<1>5. PICK c1, c2, c3, c4, c5, c6, c7, c8 \in {0, 1} :
        /\ Bits(b)[1] = c1 /\ Bits(b)[2] = c2 /\ Bits(b)[3] = c3 /\ Bits(b)[4] = c4
        /\ Bits(b)[5] = c5 /\ Bits(b)[6] = c6 /\ Bits(b)[7] = c7 /\ Bits(b)[8] = c8
  BY BitsAre
<1>6. b = 128 * c1 + 64 * c2 + 32 * c3 + 16 * c4 + 8 * c5 + 4 * c6 + 2 * c7 + c8
  <2>0. /\ c1 = h7 % 2 /\ c2 = h6 % 2 /\ c3 = h5 % 2 /\ c4 = h4 % 2
        /\ c5 = h3 % 2 /\ c6 = h2 % 2 /\ c7 = h1 % 2 /\ c8 = b % 2
    BY <1>4, <1>5, Zenon
  <2>1. /\ b = 2 * h1 + c8 /\ h1 = 2 * h2 + c7 /\ h2 = 2 * h3 + c6 /\ h3 = 2 * h4 + c5
        /\ h4 = 2 * h5 + c4 /\ h5 = 2 * h6 + c3 /\ h6 = 2 * h7 + c2 /\ h7 = c1
    BY <1>3, <2>0, Zenon
  <2>2. QED
    BY <1>1, <2>1
<1>7. QED
  BY <1>5, <1>6 DEF Value

LEMMA ValueIsByte ==
  ASSUME NEW word \in Seq({0, 1}), Len(word) = 8
  PROVE  Value(word) \in Bytes
<1>1. /\ word[1] \in {0, 1} /\ word[2] \in {0, 1} /\ word[3] \in {0, 1}
      /\ word[4] \in {0, 1} /\ word[5] \in {0, 1} /\ word[6] \in {0, 1}
      /\ word[7] \in {0, 1} /\ word[8] \in {0, 1}
  <2>1. \A k \in 1 .. Len(word) : word[k] \in {0, 1}
    BY ElementsAre
  <2>2. \A k \in 1 .. 8 : word[k] \in {0, 1}
    BY <2>1, Zenon
  <2>3. QED
    BY <2>2
<1>2. PICK c1, c2, c3, c4 \in {0, 1} :
        word[1] = c1 /\ word[2] = c2 /\ word[3] = c3 /\ word[4] = c4
  BY ONLY <1>1, Zenon
<1>3. PICK c5, c6, c7, c8 \in {0, 1} :
        word[5] = c5 /\ word[6] = c6 /\ word[7] = c7 /\ word[8] = c8
  BY ONLY <1>1, Zenon
<1>4. 128 * c1 + 64 * c2 + 32 * c3 + 16 * c4 + 8 * c5 + 4 * c6 + 2 * c7 + c8 \in 0 .. 255
  OBVIOUS
<1>5. QED
  BY <1>2, <1>3, <1>4 DEF Value, Bytes

LEMMA OnesAre ==
  /\ Ones \in Seq({0, 1}) /\ Len(Ones) = 8 /\ \A k \in 1 .. 8 : Ones[k] = 1
  /\ Value(Ones) = 255
<1>1. Ones = [k \in 1 .. 8 |-> Ones[k]] /\ \A k \in 1 .. 8 : Ones[k] = 1
  BY DEF Ones, Width
<1>2. Ones \in Seq({0, 1}) /\ Len(Ones) = 8
  BY <1>1, EightIsSeq
<1>3. /\ Ones[1] = 1 /\ Ones[2] = 1 /\ Ones[3] = 1 /\ Ones[4] = 1
      /\ Ones[5] = 1 /\ Ones[6] = 1 /\ Ones[7] = 1 /\ Ones[8] = 1
  BY <1>1
<1>4. QED
  BY <1>1, <1>2, <1>3 DEF Value

-----------------------------------------------------------------------------
(* The pin operations of a call                                            *)

\* n sequences of w elements each, laid one behind the other.
Laid(s, parts, w, n) ==
  /\ Len(s) = w * n
  /\ \A m \in 1 .. n : \A j \in 1 .. w : s[w * (m - 1) + j] = parts[m][j]

LEMMA LaidNext ==
  ASSUME NEW E, NEW s \in Seq(E), NEW parts, NEW w \in {5, 6}, NEW n \in Nat,
         Laid(s, parts, w, n), NEW t \in Seq(E), Len(t) = w, t = parts[n + 1]
  PROVE  s \o t \in Seq(E) /\ Laid(s \o t, parts, w, n + 1)
<1>1. /\ s \o t \in Seq(E) /\ Len(s \o t) = Len(s) + Len(t) /\ Len(s) \in Nat
      /\ \A k \in 1 .. Len(s) : (s \o t)[k] = s[k]
      /\ \A k \in 1 .. Len(t) : (s \o t)[Len(s) + k] = t[k]
  BY BehindIs
<1>2. PICK l \in Nat, u \in Seq(E) :
        /\ u = s \o t /\ Len(u) = l + w
        /\ \A k \in 1 .. l : u[k] = s[k]
        /\ \A k \in 1 .. w : u[l + k] = t[k]
        /\ l = Len(s)
  BY <1>1
<1>3. l = w * n /\ \A m \in 1 .. n : \A j \in 1 .. w : s[w * (m - 1) + j] = parts[m][j]
  BY <1>2 DEF Laid
<1>4. CASE w = 5
  <2>1. l = 5 * n /\ \A k \in 1 .. 5 : u[l + k] = t[k]
    BY <1>2, <1>3, <1>4
  <2>2. Len(u) = 5 * (n + 1)
    BY <1>2, <1>4, <2>1
  <2>3. ASSUME NEW m \in 1 .. n + 1, NEW j \in 1 .. 5 PROVE u[5 * (m - 1) + j] = parts[m][j]
    <3>1. CASE m = n + 1
      <4>1. 5 * (m - 1) + j = l + j
        BY <2>1, <3>1
      <4>2. QED
        BY <2>1, <3>1, <4>1
    <3>2. CASE m # n + 1
      <4>1. m \in 1 .. n /\ 5 * (m - 1) + j \in 1 .. l
        <5>1. l = 5 * n
          BY <2>1
        <5>2. QED
          BY ONLY n \in Nat, m \in 1 .. n + 1, j \in 1 .. 5, <3>2, <5>1
      <4>2. s[5 * (m - 1) + j] = parts[m][j]
        BY ONLY <1>3, <1>4, <4>1, j \in 1 .. 5
      <4>3. u[5 * (m - 1) + j] = s[5 * (m - 1) + j]
        BY <1>2, <4>1
      <4>4. QED
        BY <4>2, <4>3
    <3>3. QED
      BY <3>1, <3>2
  <2>4. QED
    <3>1. Laid(u, parts, 5, n + 1)
      BY <2>2, <2>3 DEF Laid
    <3>2. QED
      BY <1>2, <1>4, <3>1
<1>5. CASE w = 6
  <2>1. l = 6 * n /\ \A k \in 1 .. 6 : u[l + k] = t[k]
    BY <1>2, <1>3, <1>5
  <2>2. Len(u) = 6 * (n + 1)
    BY <1>2, <1>5, <2>1
  <2>3. ASSUME NEW m \in 1 .. n + 1, NEW j \in 1 .. 6 PROVE u[6 * (m - 1) + j] = parts[m][j]
    <3>1. CASE m = n + 1
      <4>1. 6 * (m - 1) + j = l + j
        BY <2>1, <3>1
      <4>2. QED
        BY <2>1, <3>1, <4>1
    <3>2. CASE m # n + 1
      <4>1. m \in 1 .. n /\ 6 * (m - 1) + j \in 1 .. l
        <5>1. l = 6 * n
          BY <2>1
        <5>2. QED
          BY ONLY n \in Nat, m \in 1 .. n + 1, j \in 1 .. 6, <3>2, <5>1
      <4>2. s[6 * (m - 1) + j] = parts[m][j]
        BY ONLY <1>3, <1>5, <4>1, j \in 1 .. 6
      <4>3. u[6 * (m - 1) + j] = s[6 * (m - 1) + j]
        BY <1>2, <4>1
      <4>4. QED
        BY <4>2, <4>3
    <3>3. QED
      BY <3>1, <3>2
  <2>4. QED
    <3>1. Laid(u, parts, 6, n + 1)
      BY <2>2, <2>3 DEF Laid
    <3>2. QED
      BY <1>2, <1>5, <3>1
<1>6. QED
  BY <1>4, <1>5

LEMMA EightLaid ==
  ASSUME NEW E, NEW parts, NEW w \in {5, 6}, Len(parts) = 8,
         \A k \in 1 .. 8 : parts[k] \in Seq(E) /\ Len(parts[k]) = w
  PROVE  Joined(parts) \in Seq(E) /\ Laid(Joined(parts), parts, w, 8)
<1>1. PICK f : IsJoining(f, parts, 8) /\ Joined(parts) = f[8]
  BY JoinedIs, JoiningExists
<1>2. \A k \in 0 .. 8 : f[k] = IF k = 0 THEN <<>> ELSE f[k - 1] \o parts[k]
  BY ONLY <1>1, JoiningStep
<1>3. f[0] \in Seq(E) /\ Laid(f[0], parts, w, 0)
  <2>1. f[0] = <<>>
    BY <1>2
  <2>2. QED
    BY <2>1 DEF Laid
<1>4. ASSUME NEW n \in 0 .. 7, f[n] \in Seq(E), Laid(f[n], parts, w, n)
      PROVE  f[n + 1] \in Seq(E) /\ Laid(f[n + 1], parts, w, n + 1)
  <2>1. n + 1 \in 0 .. 8 /\ n + 1 # 0 /\ (n + 1) - 1 = n /\ n + 1 \in 1 .. 8 /\ n \in Nat
    OBVIOUS
  <2>2. f[n + 1] = f[n] \o parts[n + 1]
    BY <1>2, <2>1
  <2>3. parts[n + 1] \in Seq(E) /\ Len(parts[n + 1]) = w
    BY <2>1
  <2>4. PICK g \in Seq(E), t \in Seq(E) : g = f[n] /\ t = parts[n + 1] /\ Len(t) = w
    BY <1>4, <2>3
  <2>5. g \o t \in Seq(E) /\ Laid(g \o t, parts, w, n + 1)
    <3>1. Laid(g, parts, w, n)
      BY <1>4, <2>4
    <3>2. QED
      BY ONLY <2>1, <2>4, <3>1, g \in Seq(E), t \in Seq(E), w \in {5, 6}, LaidNext
  <2>6. f[n + 1] = g \o t
    BY <2>2, <2>4
  <2>7. QED
    BY <2>5, <2>6
<1>5. f[1] \in Seq(E) /\ Laid(f[1], parts, w, 1)
  BY <1>3, <1>4
<1>6. f[2] \in Seq(E) /\ Laid(f[2], parts, w, 2)
  BY <1>4, <1>5
<1>7. f[3] \in Seq(E) /\ Laid(f[3], parts, w, 3)
  BY <1>4, <1>6
<1>8. f[4] \in Seq(E) /\ Laid(f[4], parts, w, 4)
  BY <1>4, <1>7
<1>9. f[5] \in Seq(E) /\ Laid(f[5], parts, w, 5)
  BY <1>4, <1>8
<1>10. f[6] \in Seq(E) /\ Laid(f[6], parts, w, 6)
  BY <1>4, <1>9
<1>11. f[7] \in Seq(E) /\ Laid(f[7], parts, w, 7)
  BY <1>4, <1>10
<1>12. f[8] \in Seq(E) /\ Laid(f[8], parts, w, 8)
  BY <1>4, <1>11
<1>13. QED
  BY <1>1, <1>12

Ops == {"out", "in", "scl1", "scl0", "sda1", "sda0", "wait", "getack", "begin", "get"}

\* Where in the calls which operation is.
WriteTable(p, b) ==
  /\ Len(p) = 60 /\ p[1] = "out" /\ p[2] = "scl0" /\ p[3] = "wait"
  /\ \A k \in 1 .. 8 :
       /\ p[6 * k - 2] = "wait"
       /\ p[6 * k - 1] = (IF Bits(b)[k] = 1 THEN "sda1" ELSE "sda0")
       /\ p[6 * k] = "wait" /\ p[6 * k + 1] = "scl1"
       /\ p[6 * k + 2] = "wait" /\ p[6 * k + 3] = "scl0"
  /\ p[52] = "in" /\ p[53] = "wait" /\ p[54] = "scl1" /\ p[55] = "wait" /\ p[56] = "getack"
  /\ p[57] = "wait" /\ p[58] = "scl0" /\ p[59] = "wait" /\ p[60] = "wait"
ReadTable(p) ==
  /\ Len(p) = 52 /\ p[1] = "in" /\ p[2] = "begin"
  /\ \A k \in 1 .. 8 :
       /\ p[5 * k - 2] = "scl1" /\ p[5 * k - 1] = "wait" /\ p[5 * k] = "get"
       /\ p[5 * k + 1] = "scl0" /\ p[5 * k + 2] = "wait"
  /\ p[43] = "scl0" /\ p[44] = "wait" /\ p[45] = "out" /\ p[46] = "wait" /\ p[47] = "sda0"
  /\ p[48] = "wait" /\ p[49] = "scl1" /\ p[50] = "wait" /\ p[51] = "scl0" /\ p[52] = "wait"

\* From behind that place on stand the n elements of p.
Stands(u, place, p, n) == \A k \in 1 .. n : u[place + k] = p[k]

LEMMA TwoStand ==
  ASSUME NEW E, NEW p \in Seq(E), NEW q \in Seq(E)
  PROVE  /\ p \o q \in Seq(E) /\ Len(p \o q) = Len(p) + Len(q)
         /\ Stands(p \o q, 0, p, Len(p)) /\ Stands(p \o q, Len(p), q, Len(q))
<1>1. PICK v : v = p \o q
  OBVIOUS
<1>2. /\ v \in Seq(E) /\ Len(v) = Len(p) + Len(q)
      /\ \A k \in 1 .. Len(p) : v[k] = p[k]
      /\ \A k \in 1 .. Len(q) : v[Len(p) + k] = q[k]
  BY <1>1, BehindIs
<1>3. Stands(v, 0, p, Len(p)) /\ Stands(v, Len(p), q, Len(q))
  BY <1>2 DEF Stands
<1>4. QED
  BY <1>1, <1>2, <1>3

LEMMA ThreeStand ==
  ASSUME NEW E, NEW p \in Seq(E), NEW q \in Seq(E), NEW r \in Seq(E)
  PROVE  LET u == p \o q \o r
         IN  /\ u \in Seq(E) /\ Len(u) = Len(p) + Len(q) + Len(r)
             /\ Stands(u, 0, p, Len(p)) /\ Stands(u, Len(p), q, Len(q))
             /\ Stands(u, Len(p) + Len(q), r, Len(r))
<1>1. PICK v : v = p \o q
  OBVIOUS
<1>2. /\ v \in Seq(E) /\ Len(v) = Len(p) + Len(q)
      /\ Stands(v, 0, p, Len(p)) /\ Stands(v, Len(p), q, Len(q))
  BY <1>1, TwoStand
<1>3. PICK w : w = v \o r
  OBVIOUS
<1>4. /\ w \in Seq(E) /\ Len(w) = Len(v) + Len(r)
      /\ Stands(w, 0, v, Len(v)) /\ Stands(w, Len(v), r, Len(r))
  BY <1>2, <1>3, TwoStand
<1>5. PICK a \in Nat, b \in Nat, c \in Nat : a = Len(p) /\ b = Len(q) /\ c = Len(r)
  OBVIOUS
<1>6. ASSUME NEW k \in 1 .. a PROVE w[0 + k] = p[k]
  <2>1. 0 + k \in 1 .. a + b /\ 0 + (0 + k) = 0 + k
    OBVIOUS
  <2>2. w[0 + k] = v[0 + k] /\ v[0 + k] = p[k]
    BY <1>2, <1>4, <1>5, <2>1 DEF Stands
  <2>3. QED
    BY <2>2
<1>7. ASSUME NEW k \in 1 .. b PROVE w[a + k] = q[k]
  <2>1. a + k \in 1 .. a + b /\ 0 + (a + k) = a + k
    OBVIOUS
  <2>2. w[a + k] = v[a + k] /\ v[a + k] = q[k]
    BY <1>2, <1>4, <1>5, <2>1 DEF Stands
  <2>3. QED
    BY <2>2
<1>8. Stands(w, 0, p, a) /\ Stands(w, a, q, b)
  BY <1>6, <1>7 DEF Stands
<1>9. QED
  BY <1>1, <1>2, <1>3, <1>4, <1>5, <1>8

LEMMA WriteIs ==
  ASSUME NEW b \in Bytes
  PROVE  WriteTable(WriteData(b), b)
<1> DEFINE head == <<"out", "scl0", "wait">>
           parts == [k \in 1 .. Width |-> WriteBit(Bits(b)[k])]
           last == <<"wait">>
<1>1. head \in Seq(Ops) /\ Len(head) = 3 /\ head[1] = "out" /\ head[2] = "scl0" /\ head[3] = "wait"
  BY DEF Ops
<1>2. /\ GetACKsign \in Seq(Ops) /\ Len(GetACKsign) = 8
      /\ GetACKsign[1] = "in" /\ GetACKsign[2] = "wait" /\ GetACKsign[3] = "scl1"
      /\ GetACKsign[4] = "wait" /\ GetACKsign[5] = "getack" /\ GetACKsign[6] = "wait"
      /\ GetACKsign[7] = "scl0" /\ GetACKsign[8] = "wait"
  BY DEF GetACKsign, Ops
<1>3. last \in Seq(Ops) /\ Len(last) = 1 /\ last[1] = "wait"
  BY DEF Ops
<1>4. Len(parts) = 8 /\ \A k \in 1 .. 8 : parts[k] = WriteBit(Bits(b)[k])
  BY DEF Width
<1>5. ASSUME NEW bit
      PROVE  /\ WriteBit(bit) \in Seq(Ops) /\ Len(WriteBit(bit)) = 6
             /\ WriteBit(bit)[1] = "wait"
             /\ WriteBit(bit)[2] = (IF bit = 1 THEN "sda1" ELSE "sda0")
             /\ WriteBit(bit)[3] = "wait" /\ WriteBit(bit)[4] = "scl1"
             /\ WriteBit(bit)[5] = "wait" /\ WriteBit(bit)[6] = "scl0"
  <2>1. PICK level \in Ops : level = IF bit = 1 THEN "sda1" ELSE "sda0"
    BY DEF Ops
  <2>2. WriteBit(bit) = <<"wait", level, "wait", "scl1", "wait", "scl0">>
    BY <2>1 DEF WriteBit
  <2>3. "wait" \in Ops /\ "scl1" \in Ops /\ "scl0" \in Ops
    BY DEF Ops
  <2>4. QED
    BY <2>1, <2>2, <2>3
<1> HIDE DEF head, parts, last
<1>6. Joined(parts) \in Seq(Ops) /\ Laid(Joined(parts), parts, 6, 8)
  <2>1. \A k \in 1 .. 8 : parts[k] \in Seq(Ops) /\ Len(parts[k]) = 6
    BY <1>4, <1>5
  <2>2. Len(parts) = 8 /\ 6 \in {5, 6}
    BY <1>4
  <2>3. QED
    BY ONLY <2>1, <2>2, EightLaid
<1>7. PICK j : /\ j = Joined(parts) /\ j \in Seq(Ops) /\ Len(j) = 48
               /\ Laid(j, parts, 6, 8)
  <2>1. Len(Joined(parts)) = 48
    BY <1>6 DEF Laid
  <2>2. QED
    BY <1>6, <2>1, Zenon
<1>8. PICK p \in Seq(Ops) :
        /\ p = WriteData(b) /\ Len(p) = 60
        /\ \A k \in 1 .. 3 : p[k] = head[k]
        /\ \A k \in 1 .. 48 : p[3 + k] = j[k]
        /\ \A k \in 1 .. 8 : p[51 + k] = GetACKsign[k]
        /\ p[60] = last[1]
  <2>1. head \in Seq(Ops) /\ j \in Seq(Ops) /\ GetACKsign \in Seq(Ops) /\ last \in Seq(Ops)
    BY <1>1, <1>2, <1>3, <1>7
  <2>2. PICK u : u = head \o j \o GetACKsign
    OBVIOUS
  <2>3. /\ u \in Seq(Ops) /\ Len(u) = Len(head) + Len(j) + Len(GetACKsign)
        /\ Stands(u, 0, head, Len(head)) /\ Stands(u, Len(head), j, Len(j))
        /\ Stands(u, Len(head) + Len(j), GetACKsign, Len(GetACKsign))
    BY ONLY <2>1, <2>2, ThreeStand
  <2>4. /\ Len(u) = 59 /\ Stands(u, 0, head, 3) /\ Stands(u, 3, j, 48)
        /\ Stands(u, 51, GetACKsign, 8)
    BY <1>1, <1>2, <1>7, <2>3
  <2>5. PICK p : p = u \o last
    OBVIOUS
  <2>6. /\ p \in Seq(Ops) /\ Len(p) = Len(u) + Len(last)
        /\ Stands(p, 0, u, Len(u)) /\ Stands(p, Len(u), last, Len(last))
    BY ONLY <2>1, <2>3, <2>5, TwoStand
  <2>7. Len(p) = 60 /\ Stands(p, 0, u, 59) /\ Stands(p, 59, last, 1)
    BY <1>3, <2>4, <2>6
  <2>8. /\ \A k \in 1 .. 59 : p[k] = u[k]
        /\ p[60] = last[1]
    BY <2>7 DEF Stands
  <2>9. /\ \A k \in 1 .. 3 : u[k] = head[k]
        /\ \A k \in 1 .. 48 : u[3 + k] = j[k]
        /\ \A k \in 1 .. 8 : u[51 + k] = GetACKsign[k]
    BY <2>4 DEF Stands
  <2>10. /\ \A k \in 1 .. 3 : p[k] = head[k]
         /\ \A k \in 1 .. 48 : p[3 + k] = j[k]
         /\ \A k \in 1 .. 8 : p[51 + k] = GetACKsign[k]
    BY <2>8, <2>9
  <2>11. WriteData(b) = p
    BY <1>7, <2>2, <2>5 DEF WriteData, head, parts, last
  <2>12. QED
    BY <2>6, <2>7, <2>8, <2>10, <2>11
<1>9. p[1] = "out" /\ p[2] = "scl0" /\ p[3] = "wait"
  BY <1>1, <1>8
<1>10. /\ p[52] = "in" /\ p[53] = "wait" /\ p[54] = "scl1" /\ p[55] = "wait" /\ p[56] = "getack"
       /\ p[57] = "wait" /\ p[58] = "scl0" /\ p[59] = "wait" /\ p[60] = "wait"
  <2>1. \A k \in 1 .. 8 : p[51 + k] = GetACKsign[k]
    BY <1>8
  <2>2. /\ p[51 + 1] = "in" /\ p[51 + 2] = "wait" /\ p[51 + 3] = "scl1" /\ p[51 + 4] = "wait"
        /\ p[51 + 5] = "getack" /\ p[51 + 6] = "wait" /\ p[51 + 7] = "scl0"
        /\ p[51 + 8] = "wait"
    BY <1>2, <2>1
  <2>3. QED
    BY <1>3, <1>8, <2>2
<1>11. ASSUME NEW k \in 1 .. 8
       PROVE  /\ p[6 * k - 2] = "wait"
              /\ p[6 * k - 1] = (IF Bits(b)[k] = 1 THEN "sda1" ELSE "sda0")
              /\ p[6 * k] = "wait" /\ p[6 * k + 1] = "scl1"
              /\ p[6 * k + 2] = "wait" /\ p[6 * k + 3] = "scl0"
  <2>1. PICK w : w = WriteBit(Bits(b)[k])
    OBVIOUS
  <2>2. \A i \in 1 .. 6 : j[6 * (k - 1) + i] = w[i]
    <3>1. \A m \in 1 .. 8 : \A i \in 1 .. 6 : j[6 * (m - 1) + i] = parts[m][i]
      BY <1>7 DEF Laid
    <3>2. parts[k] = w
      BY <1>4, <2>1
    <3>3. QED
      BY <3>1, <3>2
  <2>3. ASSUME NEW i \in 1 .. 6 PROVE p[6 * k - 3 + i] = w[i]
    <3>1. 6 * (k - 1) + i \in 1 .. 48 /\ 3 + (6 * (k - 1) + i) = 6 * k - 3 + i
      OBVIOUS
    <3>2. \A m \in 1 .. 48 : p[3 + m] = j[m]
      BY <1>8
    <3>3. QED
      BY ONLY <2>2, <3>1, <3>2, i \in 1 .. 6
  <2>4. /\ p[6 * k - 3 + 1] = w[1] /\ p[6 * k - 3 + 2] = w[2] /\ p[6 * k - 3 + 3] = w[3]
        /\ p[6 * k - 3 + 4] = w[4] /\ p[6 * k - 3 + 5] = w[5] /\ p[6 * k - 3 + 6] = w[6]
    BY <2>3
  <2>5. /\ 6 * k - 3 + 1 = 6 * k - 2 /\ 6 * k - 3 + 2 = 6 * k - 1 /\ 6 * k - 3 + 3 = 6 * k
        /\ 6 * k - 3 + 4 = 6 * k + 1 /\ 6 * k - 3 + 5 = 6 * k + 2 /\ 6 * k - 3 + 6 = 6 * k + 3
    OBVIOUS
  <2>6. /\ w[1] = "wait" /\ w[2] = (IF Bits(b)[k] = 1 THEN "sda1" ELSE "sda0")
        /\ w[3] = "wait" /\ w[4] = "scl1" /\ w[5] = "wait" /\ w[6] = "scl0"
    BY <1>5, <2>1
  <2>7. QED
    BY ONLY <2>4, <2>5, <2>6
<1>12. QED
  BY <1>8, <1>9, <1>10, <1>11 DEF WriteTable

LEMMA ReadIs == ReadTable(ReadData)
<1> DEFINE head == <<"in", "begin">>
           parts == [k \in 1 .. Width |-> ReadBit]
           middle == <<"scl0", "wait">>
           last == <<"wait">>
<1>1. /\ head \in Seq(Ops) /\ Len(head) = 2 /\ head[1] = "in" /\ head[2] = "begin"
      /\ middle \in Seq(Ops) /\ Len(middle) = 2 /\ middle[1] = "scl0" /\ middle[2] = "wait"
  BY DEF Ops
<1>2. /\ SendACKsign \in Seq(Ops) /\ Len(SendACKsign) = 7
      /\ SendACKsign[1] = "out" /\ SendACKsign[2] = "wait" /\ SendACKsign[3] = "sda0"
      /\ SendACKsign[4] = "wait" /\ SendACKsign[5] = "scl1" /\ SendACKsign[6] = "wait"
      /\ SendACKsign[7] = "scl0"
  BY DEF SendACKsign, Ops
<1>3. last \in Seq(Ops) /\ Len(last) = 1 /\ last[1] = "wait"
  BY DEF Ops
<1>4. Len(parts) = 8 /\ \A k \in 1 .. 8 : parts[k] = ReadBit
  BY DEF Width
<1>5. /\ ReadBit \in Seq(Ops) /\ Len(ReadBit) = 5
      /\ ReadBit[1] = "scl1" /\ ReadBit[2] = "wait" /\ ReadBit[3] = "get"
      /\ ReadBit[4] = "scl0" /\ ReadBit[5] = "wait"
  BY DEF ReadBit, Ops
<1> HIDE DEF head, parts, middle, last
<1>6. Joined(parts) \in Seq(Ops) /\ Laid(Joined(parts), parts, 5, 8)
  <2>1. \A k \in 1 .. 8 : parts[k] \in Seq(Ops) /\ Len(parts[k]) = 5
    BY <1>4, <1>5
  <2>2. Len(parts) = 8 /\ 5 \in {5, 6}
    BY <1>4
  <2>3. QED
    BY ONLY <2>1, <2>2, EightLaid
<1>7. PICK j : /\ j = Joined(parts) /\ j \in Seq(Ops) /\ Len(j) = 40
               /\ Laid(j, parts, 5, 8)
  <2>1. Len(Joined(parts)) = 40
    BY <1>6 DEF Laid
  <2>2. QED
    BY <1>6, <2>1, Zenon
<1>8. PICK p \in Seq(Ops) :
        /\ p = ReadData /\ Len(p) = 52
        /\ \A k \in 1 .. 2 : p[k] = head[k]
        /\ \A k \in 1 .. 40 : p[2 + k] = j[k]
        /\ \A k \in 1 .. 2 : p[42 + k] = middle[k]
        /\ \A k \in 1 .. 7 : p[44 + k] = SendACKsign[k]
        /\ p[52] = last[1]
  <2>1. /\ head \in Seq(Ops) /\ j \in Seq(Ops) /\ middle \in Seq(Ops)
        /\ SendACKsign \in Seq(Ops) /\ last \in Seq(Ops)
    BY <1>1, <1>2, <1>3, <1>7
  <2>2. PICK u : u = head \o j \o middle
    OBVIOUS
  <2>3. /\ u \in Seq(Ops) /\ Len(u) = Len(head) + Len(j) + Len(middle)
        /\ Stands(u, 0, head, Len(head)) /\ Stands(u, Len(head), j, Len(j))
        /\ Stands(u, Len(head) + Len(j), middle, Len(middle))
    BY ONLY <2>1, <2>2, ThreeStand
  <2> u \in Seq(Ops)
    BY <2>3
  <2>4. /\ Len(u) = 44 /\ Stands(u, 0, head, 2) /\ Stands(u, 2, j, 40)
        /\ Stands(u, 42, middle, 2)
    BY <1>1, <1>7, <2>3
  <2>5. PICK p : p = u \o SendACKsign \o last
    OBVIOUS
  <2>6. /\ p \in Seq(Ops) /\ Len(p) = Len(u) + Len(SendACKsign) + Len(last)
        /\ Stands(p, 0, u, Len(u)) /\ Stands(p, Len(u), SendACKsign, Len(SendACKsign))
        /\ Stands(p, Len(u) + Len(SendACKsign), last, Len(last))
    BY ONLY u \in Seq(Ops), <2>1, <2>5, ThreeStand
  <2>7. /\ Len(p) = 52 /\ Stands(p, 0, u, 44) /\ Stands(p, 44, SendACKsign, 7)
        /\ Stands(p, 51, last, 1)
    BY <1>2, <1>3, <2>4, <2>6
  <2>8. /\ \A k \in 1 .. 44 : p[k] = u[k]
        /\ \A k \in 1 .. 7 : p[44 + k] = SendACKsign[k]
        /\ p[52] = last[1]
    BY <2>7 DEF Stands
  <2>9. /\ \A k \in 1 .. 2 : u[k] = head[k]
        /\ \A k \in 1 .. 40 : u[2 + k] = j[k]
        /\ \A k \in 1 .. 2 : u[42 + k] = middle[k]
    BY <2>4 DEF Stands
  <2>10. /\ \A k \in 1 .. 2 : p[k] = head[k]
         /\ \A k \in 1 .. 40 : p[2 + k] = j[k]
         /\ \A k \in 1 .. 2 : p[42 + k] = middle[k]
    BY <2>8, <2>9
  <2>11. ReadData = p
    BY <1>7, <2>2, <2>5 DEF ReadData, head, parts, middle, last
  <2>12. QED
    BY <2>6, <2>7, <2>8, <2>10, <2>11
<1>9. p[52] = "wait"
  BY <1>3, <1>8
<1>10. p[1] = "in" /\ p[2] = "begin"
  BY <1>1, <1>8
<1>11. p[43] = "scl0" /\ p[44] = "wait"
  <2>1. p[43] = middle[1] /\ p[44] = middle[2]
    BY <1>8
  <2>2. QED
    BY <1>1, <1>8, <2>1
<1>12. /\ p[45] = "out" /\ p[46] = "wait" /\ p[47] = "sda0"
       /\ p[48] = "wait" /\ p[49] = "scl1" /\ p[50] = "wait" /\ p[51] = "scl0"
  <2>1. /\ p[45] = SendACKsign[1] /\ p[46] = SendACKsign[2] /\ p[47] = SendACKsign[3] /\ p[48] = SendACKsign[4]
        /\ p[49] = SendACKsign[5] /\ p[50] = SendACKsign[6] /\ p[51] = SendACKsign[7]
    BY <1>8
  <2>2. QED
    BY <1>2, <1>8, <2>1
<1>13. ASSUME NEW k \in 1 .. 8
       PROVE  /\ p[5 * k - 2] = "scl1" /\ p[5 * k - 1] = "wait" /\ p[5 * k] = "get"
              /\ p[5 * k + 1] = "scl0" /\ p[5 * k + 2] = "wait"
  <2>1. \A i \in 1 .. 5 : j[5 * (k - 1) + i] = ReadBit[i]
    <3>1. \A m \in 1 .. 8 : \A i \in 1 .. 5 : j[5 * (m - 1) + i] = parts[m][i]
      BY <1>7 DEF Laid
    <3>2. parts[k] = ReadBit
      BY <1>4
    <3>3. QED
      BY ONLY <3>1, <3>2, k \in 1 .. 8
  <2>2. ASSUME NEW i \in 1 .. 5 PROVE p[5 * k - 3 + i] = ReadBit[i]
    <3>1. 5 * (k - 1) + i \in 1 .. 40 /\ 2 + (5 * (k - 1) + i) = 5 * k - 3 + i
      OBVIOUS
    <3>2. \A m \in 1 .. 40 : p[2 + m] = j[m]
      BY <1>8
    <3>3. QED
      BY ONLY <2>1, <3>1, <3>2, i \in 1 .. 5
  <2>3. /\ p[5 * k - 3 + 1] = ReadBit[1] /\ p[5 * k - 3 + 2] = ReadBit[2]
        /\ p[5 * k - 3 + 3] = ReadBit[3] /\ p[5 * k - 3 + 4] = ReadBit[4]
        /\ p[5 * k - 3 + 5] = ReadBit[5]
    BY <2>2
  <2>4. /\ 5 * k - 3 + 1 = 5 * k - 2 /\ 5 * k - 3 + 2 = 5 * k - 1 /\ 5 * k - 3 + 3 = 5 * k
        /\ 5 * k - 3 + 4 = 5 * k + 1 /\ 5 * k - 3 + 5 = 5 * k + 2
    OBVIOUS
  <2>5. QED
    BY <1>5, <2>3, <2>4
<1>14. QED
  BY <1>8, <1>9, <1>10, <1>11, <1>12, <1>13 DEF ReadTable

-----------------------------------------------------------------------------
(* One operation                                                           *)

Does(act) == Pin(act) /\ step' = step + 1 /\ UNCHANGED <<calls, pull, transfer, transfers>>
Held == UNCHANGED <<calls, transfer, transfers, pull, refused>>

LEMMA Waits ==
  ASSUME Does("wait")
  PROVE  /\ Held /\ UNCHANGED <<lines, slave, got>> /\ step' = step + 1 /\ pull = Wants
         /\ fought' = (fought \/ Fight)
BY DEF Does, Pin, Held

Moves(newScl, newOut, newLatch) ==
  /\ Drive(newScl, newOut, newLatch) /\ Held /\ step' = step + 1

LEMMA DrivesOut == ASSUME Does("out") PROVE Moves(scl, TRUE, latch)
BY DEF Does, Pin, Moves, Drive, Held
LEMMA DrivesIn == ASSUME Does("in") PROVE Moves(scl, FALSE, latch)
BY DEF Does, Pin, Moves, Drive, Held
LEMMA DrivesScl1 == ASSUME Does("scl1") PROVE Moves(1, out, latch)
BY DEF Does, Pin, Moves, Drive, Held
LEMMA DrivesScl0 == ASSUME Does("scl0") PROVE Moves(0, out, latch)
BY DEF Does, Pin, Moves, Drive, Held
LEMMA DrivesSda1 == ASSUME Does("sda1") PROVE Moves(scl, out, 1)
BY DEF Does, Pin, Moves, Drive, Held
LEMMA DrivesSda0 == ASSUME Does("sda0") PROVE Moves(scl, out, 0)
BY DEF Does, Pin, Moves, Drive, Held

LEMMA Looks ==
  /\ Does("begin") => /\ Held /\ UNCHANGED <<lines, slave, fought>> /\ step' = step + 1
                      /\ got' = Append(got, <<>>)
  /\ Does("get") => /\ Held /\ UNCHANGED <<lines, slave, fought>> /\ step' = step + 1
                    /\ got' = [got EXCEPT ![Len(got)] = Append(@, sda)]
  /\ Does("getack") => /\ Held /\ UNCHANGED <<lines, slave, fought, got>> /\ step' = step + 1
<1>1. ASSUME Does("begin")
      PROVE  /\ Held /\ UNCHANGED <<lines, slave, fought>> /\ step' = step + 1
             /\ got' = Append(got, <<>>)
  BY <1>1 DEF Does, Pin, Held
<1>2. ASSUME Does("get")
      PROVE  /\ Held /\ UNCHANGED <<lines, slave, fought>> /\ step' = step + 1
             /\ got' = [got EXCEPT ![Len(got)] = Append(@, sda)]
  BY <1>2 DEF Does, Pin, Held
<1>3. ASSUME Does("getack")
      PROVE  Held /\ UNCHANGED <<lines, slave, fought, got>> /\ step' = step + 1
  BY <1>3 DEF Does, Pin, Held
<1>4. QED
  BY <1>1, <1>2, <1>3

\* What every drive of the pins has.
Driven(o, l) ==
  /\ out' = o /\ latch' = l /\ sda' \in Levels(o, l, pull) /\ Held
  /\ step' = step + 1 /\ UNCHANGED <<got, fought>>

LEMMA StaysLow ==
  ASSUME NEW o, NEW l, scl = 0, Moves(0, o, l)
  PROVE  Driven(o, l) /\ scl' = 0 /\ UNCHANGED slave
BY DEF Moves, Drive, Driven, ChipSees, Held

LEMMA Rises ==
  ASSUME NEW o, NEW l, scl = 0, Moves(1, o, l)
  PROVE  Driven(o, l) /\ scl' = 1 /\ ChipClocks(sda')
BY DEF Moves, Drive, Driven, ChipSees, Held

LEMMA Falls ==
  ASSUME NEW o, NEW l, scl = 1, Moves(0, o, l)
  PROVE  Driven(o, l) /\ scl' = 0 /\ ChipFalls
BY DEF Moves, Drive, Driven, ChipSees, Held

LEMMA StaysHigh ==
  ASSUME NEW o, NEW l, scl = 1, Moves(1, o, l)
  PROVE  /\ Driven(o, l) /\ scl' = 1
         /\ sda = 1 /\ sda' = 0 => ChipStarts
         /\ sda = 0 /\ sda' = 1 => ChipStops
         /\ sda' = sda => UNCHANGED slave
BY DEF Moves, Drive, Driven, ChipSees, Held

LEMMA Level ==
  ASSUME NEW o \in BOOLEAN, NEW l \in {0, 1}, NEW level \in Levels(o, l, pull), ~pull
  PROVE  level = IF o THEN l ELSE 1
BY DEF Levels

-----------------------------------------------------------------------------
(* Parts of a byte, and the chip                                           *)

LEMMA Prefix ==
  ASSUME NEW E, NEW s \in Seq(E), NEW k \in 1 .. Len(s)
  PROVE  /\ SubSeq(s, 1, k) = Append(SubSeq(s, 1, k - 1), s[k])
         /\ SubSeq(s, 1, k) \in Seq(E) /\ Len(SubSeq(s, 1, k)) = k
         /\ SubSeq(s, 1, k - 1) \in Seq(E) /\ Len(SubSeq(s, 1, k - 1)) = k - 1
OBVIOUS

LEMMA WholePrefix ==
  ASSUME NEW E, NEW s \in Seq(E)
  PROVE  SubSeq(s, 1, Len(s)) = s /\ SubSeq(s, 1, 0) = <<>>
OBVIOUS

LEMMA LastAppended ==
  ASSUME NEW E, NEW s \in Seq(E), NEW e \in E
  PROVE  Append(s, e) # <<>> /\ Append(s, e)[Len(Append(s, e))] = e
<1>1. Len(Append(s, e)) = Len(s) + 1 /\ Append(s, e)[Len(s) + 1] = e /\ Len(s) \in Nat
  OBVIOUS
<1>2. Len(<<>>) = 0
  OBVIOUS
<1>3. QED
  BY <1>1, <1>2

LEMMA FirstAndRest ==
  ASSUME NEW E, NEW t \in Seq(E), 1 <= Len(t)
  PROVE  /\ t # <<>> /\ Head(t) = t[1] /\ Tail(t) \in Seq(E) /\ Len(Tail(t)) = Len(t) - 1
         /\ \A i \in 1 .. Len(t) - 1 : Tail(t)[i] = t[i + 1]
OBVIOUS

LEMMA SameElements ==
  ASSUME NEW E, NEW s \in Seq(E), NEW t \in Seq(E), Len(s) = Len(t),
         \A i \in 1 .. Len(s) : s[i] = t[i]
  PROVE  s = t
OBVIOUS

LEMMA Suffix ==
  ASSUME NEW E, NEW s \in Seq(E), NEW k \in 1 .. Len(s)
  PROVE  /\ SubSeq(s, k, Len(s)) \in Seq(E) /\ Len(SubSeq(s, k, Len(s))) = Len(s) + 1 - k
         /\ SubSeq(s, k, Len(s)) # <<>> /\ SubSeq(s, k, Len(s))[1] = s[k]
         /\ Head(SubSeq(s, k, Len(s))) = s[k]
         /\ Tail(SubSeq(s, k, Len(s))) = SubSeq(s, k + 1, Len(s))
<1> DEFINE t == SubSeq(s, k, Len(s))
<1>1. /\ t \in Seq(E) /\ Len(t) = Len(s) + 1 - k /\ Len(s) \in Nat
      /\ \A i \in 1 .. Len(t) : t[i] = s[k - 1 + i]
  OBVIOUS
<1>2. t # <<>> /\ t[1] = s[k] /\ Head(t) = s[k]
  <2>1. 1 \in 1 .. Len(t) /\ k - 1 + 1 = k
    BY <1>1
  <2>2. t[1] = s[k]
    BY <1>1, <2>1
  <2>3. t # <<>> /\ Head(t) = t[1]
    <3>1. t \in Seq(E) /\ 1 <= Len(t)
      BY <1>1
    <3>2. QED
      BY ONLY <3>1, FirstAndRest
  <2>4. QED
    BY <2>2, <2>3
<1>3. Tail(t) = SubSeq(s, k + 1, Len(s))
  <2>1. /\ Tail(t) \in Seq(E) /\ Len(Tail(t)) = Len(s) - k
        /\ \A i \in 1 .. Len(s) - k : Tail(t)[i] = t[i + 1]
    <3>1. t \in Seq(E) /\ 1 <= Len(t)
      BY <1>1
    <3>2. /\ Tail(t) \in Seq(E) /\ Len(Tail(t)) = Len(t) - 1
          /\ \A i \in 1 .. Len(t) - 1 : Tail(t)[i] = t[i + 1]
      BY ONLY <3>1, FirstAndRest
    <3>3. Len(t) - 1 = Len(s) - k
      BY <1>1
    <3>4. QED
      BY <3>2, <3>3
  <2>2. /\ SubSeq(s, k + 1, Len(s)) \in Seq(E) /\ Len(SubSeq(s, k + 1, Len(s))) = Len(s) - k
        /\ \A i \in 1 .. Len(s) - k : SubSeq(s, k + 1, Len(s))[i] = s[k + i]
    OBVIOUS
  <2>3. \A i \in 1 .. Len(s) - k : t[i + 1] = s[k + i]
    <3>1. \A i \in 1 .. Len(s) - k : i + 1 \in 1 .. Len(t) /\ k - 1 + (i + 1) = k + i
      BY <1>1
    <3>2. QED
      BY <1>1, <3>1
  <2>4. \A i \in 1 .. Len(s) - k : Tail(t)[i] = SubSeq(s, k + 1, Len(s))[i]
    BY <2>1, <2>2, <2>3
  <2>5. QED
    BY ONLY <2>1, <2>2, <2>4, SameElements
<1>4. QED
  BY <1>1, <1>2, <1>3

\* A bit is clocked in.
LEMMA HearsBit ==
  ASSUME ChipTyped, NEW word \in Seq({0, 1}), NEW k \in 1 .. Len(word),
         NEW bit, bit = word[k], Hears(SubSeq(word, 1, k - 1)), ChipClocks(bit)
  PROVE  Hears(SubSeq(word, 1, k))' /\ UNCHANGED <<frames, gave, nacked, hxd.mode>>
<1>1. SubSeq(word, 1, k) = Append(SubSeq(word, 1, k - 1), bit)
  BY Prefix
<1>2. CASE hxd.mode = "take" /\ hxd.bits = SubSeq(word, 1, k - 1) /\ ~hxd.reads
  BY <1>1, <1>2 DEF ChipTyped, ChipClocks, Hears
<1>3. CASE hxd.mode = "ignore" /\ nacked
  BY <1>3 DEF ChipTyped, ChipClocks, Hears
<1>4. QED
  BY <1>2, <1>3 DEF Hears


Replaced(s, a, b) == [Append(s, a) EXCEPT ![Len(Append(s, a))] = b] = Append(s, b)
LEMMA LastReplaced ==
  ASSUME NEW E, NEW s \in Seq(E), NEW a \in E, NEW b \in E
  PROVE  Replaced(s, a, b)
<1> DEFINE t == [Append(s, a) EXCEPT ![Len(Append(s, a))] = b]
<1>1. /\ Append(s, a) \in Seq(E) /\ Len(Append(s, a)) = Len(s) + 1 /\ Len(s) \in Nat
      /\ \A i \in 1 .. Len(s) : Append(s, a)[i] = s[i]
  OBVIOUS
<1>2. /\ Append(s, b) \in Seq(E) /\ Len(Append(s, b)) = Len(s) + 1
      /\ \A i \in 1 .. Len(s) : Append(s, b)[i] = s[i]
      /\ Append(s, b)[Len(s) + 1] = b
  OBVIOUS
<1>3. /\ t \in Seq(E) /\ Len(t) = Len(s) + 1 /\ t[Len(s) + 1] = b
      /\ \A i \in 1 .. Len(s) : t[i] = Append(s, a)[i]
  <2>0. PICK w \in Seq(E) : w = Append(s, a)
    BY <1>1
  <2>1. PICK n \in 1 .. Len(w) :
          w = Append(s, a) /\ Len(w) = Len(s) + 1 /\ n = Len(s) + 1
    BY <1>1, <2>0
  <2>2. /\ [w EXCEPT ![n] = b] \in Seq(E) /\ Len([w EXCEPT ![n] = b]) = Len(w)
        /\ \A j \in 1 .. Len(w) : [w EXCEPT ![n] = b][j] = IF j = n THEN b ELSE w[j]
    BY ONLY w \in Seq(E), n \in 1 .. Len(w), b \in E, ExceptSeq
  <2>3. t = [w EXCEPT ![n] = b]
    BY <2>1
  <2>4. \A i \in 1 .. Len(s) : i \in 1 .. Len(w) /\ i # n
    BY <1>1, <2>1
  <2>5. QED
    BY <1>1, <2>1, <2>2, <2>3, <2>4
<1>4. \A i \in 1 .. Len(s) + 1 : t[i] = Append(s, b)[i]
  BY <1>1, <1>2, <1>3
<1>5. QED
  <2>1. t \in Seq(E) /\ Append(s, b) \in Seq(E) /\ Len(t) = Len(Append(s, b))
    BY <1>2, <1>3
  <2>2. \A i \in 1 .. Len(t) : t[i] = Append(s, b)[i]
    BY <1>3, <1>4
  <2>3. t = Append(s, b)
    BY ONLY <2>1, <2>2, SameElements
  <2>4. QED
    BY <2>3 DEF Replaced

\* A byte is taken: into the frame under way, if the chip heard them all.
LEMMA TakesByte ==
  ASSUME ChipTyped, NEW before \in Seq(Seq(Bytes)), NEW cur \in Seq(Bytes), NEW b \in Bytes,
         frames \in Seq(Seq(Bytes)), Hears(Bits(b)), Took(before, cur), ChipFalls
  PROVE  Asks(cur, b)' /\ Took(before, Append(cur, b))' /\ gave' = gave
<1>1. CASE hxd.mode = "take" /\ hxd.bits = Bits(b) /\ ~hxd.reads
  <2>1. ChipTakes /\ frames # <<>> /\ frames[Len(frames)] = cur
    BY <1>1, BitsAre DEF ChipFalls, Took, Width
  <2>2. Value(hxd.bits) = b
    BY <1>1, ValueOfBits
  <2>3. frames' = [frames EXCEPT ![Len(frames)] = Append(cur, b)] /\ gave' = gave
    BY <2>1, <2>2 DEF ChipTakes
  <2>4. Len(frames) \in 1 .. Len(frames)
    BY <2>1
  <2>5. Append(cur, b) \in Seq(Bytes)
    OBVIOUS
  <2>6. frames' # <<>> /\ frames'[Len(frames')] = Append(cur, b)
    BY <2>3, <2>4, <2>5
  <2>7. ~nacked => frames' = Append(before, Append(cur, b))
    <3>1. SUFFICES ASSUME ~nacked PROVE frames' = Append(before, Append(cur, b))
      OBVIOUS
    <3>2. frames = Append(before, cur)
      BY <3>1 DEF Took
    <3>3. QED
      <4>1. PICK next \in Seq(Bytes) : next = Append(cur, b)
        BY <2>5
      <4>2. Replaced(before, cur, next)
        BY ONLY before \in Seq(Seq(Bytes)), cur \in Seq(Bytes), next \in Seq(Bytes), LastReplaced
      <4>3. QED
        BY <2>3, <3>2, <4>1, <4>2 DEF Replaced
  <2>8. \/ hxd' = [mode |-> "ack", bits |-> <<>>, reads |-> cur = <<>> /\ b = ReadAddress] /\ nacked' = nacked
        \/ hxd' = [hxd EXCEPT !.mode = "ignore"] /\ nacked' = TRUE
    BY <1>1, <2>1, <2>2 DEF ChipTakes, ChipTyped
  <2>9. CASE hxd' = [mode |-> "ack", bits |-> <<>>, reads |-> cur = <<>> /\ b = ReadAddress] /\ nacked' = nacked
    BY <2>3, <2>6, <2>7, <2>9 DEF Asks, Took
  <2>10. CASE hxd' = [hxd EXCEPT !.mode = "ignore"] /\ nacked' = TRUE
    <3>1. hxd'.mode = "ignore"
      BY <2>10 DEF ChipTyped
    <3>2. QED
      BY <2>3, <2>6, <2>10, <3>1 DEF Asks, Took
  <2>11. QED
    BY <2>8, <2>9, <2>10
<1>2. CASE hxd.mode = "ignore" /\ nacked
  BY <1>2 DEF ChipFalls, slave, Asks, Took
<1>3. QED
  BY <1>1, <1>2 DEF Hears

LEMMA LeadsStep ==
  ASSUME WireTypes, NEW before, NEW cur, NEW b \in Bytes, Leads(before, cur),
         Does(WriteData(b)[step + 1])
  PROVE  /\ Leads(before, cur)' \/ SendsBit(before, cur, b, 1, 0)'
         /\ UNCHANGED <<hxd, gave, got, refused, fought>> /\ step' = step + 1
<1>1. WriteTable(WriteData(b), b)
  BY WriteIs
<1>2. SubSeq(Bits(b), 1, 0) = <<>>
  BY BitsAre, WholePrefix
<1>3. CASE step = 0
  <2>1. Does("out")
    BY <1>1, <1>3 DEF WriteTable
  <2>2. Moves(0, TRUE, latch)
    BY <2>1, DrivesOut DEF Leads
  <2>3. Driven(TRUE, latch) /\ scl' = 0 /\ UNCHANGED slave
    BY <2>2, StaysLow DEF Leads
  <2>4. QED
    BY <1>3, <2>3 DEF Leads, Driven, Held, slave, Hears, Took
<1>4. CASE step = 1
  <2>1. Does("scl0")
    BY <1>1, <1>4 DEF WriteTable
  <2>2. Moves(0, out, latch)
    BY <2>1, DrivesScl0 DEF Leads
  <2>3. Driven(out, latch) /\ scl' = 0 /\ UNCHANGED slave
    BY <2>2, StaysLow DEF Leads
  <2>4. QED
    BY <1>4, <2>3 DEF Leads, Driven, Held, slave, Hears, Took
<1>5. CASE step = 2
  <2>1. Does("wait")
    BY <1>1, <1>5 DEF WriteTable
  <2>2. fought' = fought /\ step' = 3 /\ UNCHANGED <<got, lines, slave>> /\ Held
    BY <1>5, <2>1, Waits DEF Leads, Fight, WireTypes
  <2>3. 6 * 1 - 3 + 0 = 3 /\ ~(0 >= 4) /\ ~(0 >= 2) /\ 1 - 1 = 0
    OBVIOUS
  <2>4. Hears(SubSeq(Bits(b), 1, 0))' /\ Took(before, cur)'
    BY <1>2, <2>2 DEF Leads, slave, Hears, Took
  <2>5. SendsBit(before, cur, b, 1, 0)'
    BY <1>5, <2>2, <2>3, <2>4 DEF Leads, SendsBit, Held, lines
  <2>6. QED
    BY <1>5, <2>2, <2>5 DEF Held, slave
<1>6. QED
  BY <1>3, <1>4, <1>5 DEF Leads


LEMMA BitOps ==
  ASSUME NEW b \in Bytes, NEW k \in 1 .. 8, NEW n, NEW j \in 0 .. 5, n = 6 * k - 3 + j
  PROVE  /\ j \in {0, 2, 4} => WriteData(b)[n + 1] = "wait"
         /\ j = 1 => WriteData(b)[n + 1] = (IF Bits(b)[k] = 1 THEN "sda1" ELSE "sda0")
         /\ j = 3 => WriteData(b)[n + 1] = "scl1"
         /\ j = 5 => WriteData(b)[n + 1] = "scl0"
<1>1. PICK p : p = WriteData(b)
  OBVIOUS
<1>2. /\ p[6 * k - 2] = "wait" /\ p[6 * k - 1] = (IF Bits(b)[k] = 1 THEN "sda1" ELSE "sda0")
      /\ p[6 * k] = "wait" /\ p[6 * k + 1] = "scl1" /\ p[6 * k + 2] = "wait"
      /\ p[6 * k + 3] = "scl0"
  BY <1>1, WriteIs DEF WriteTable
<1>3. /\ j = 0 => n + 1 = 6 * k - 2
      /\ j = 1 => n + 1 = 6 * k - 1
      /\ j = 2 => n + 1 = 6 * k
      /\ j = 3 => n + 1 = 6 * k + 1
      /\ j = 4 => n + 1 = 6 * k + 2
      /\ j = 5 => n + 1 = 6 * k + 3
  OBVIOUS
<1>4. QED
  BY <1>1, <1>2, <1>3

LEMMA BitSent ==
  ASSUME WireTypes, NEW before, NEW cur, NEW b \in Bytes, NEW k \in 1 .. 8, NEW j \in 0 .. 4,
         SendsBit(before, cur, b, k, j), Does(WriteData(b)[step + 1])
  PROVE  /\ SendsBit(before, cur, b, k, j + 1)'
         /\ hxd'.mode = hxd.mode /\ (hxd.mode = "take" => Len(hxd'.bits) <= 8)
         /\ hxd.mode # "take" => hxd' = hxd
         /\ UNCHANGED <<gave, got, refused, fought>> /\ step' = step + 1
<1>1. ChipTyped /\ Bits(b) \in Seq({0, 1}) /\ Len(Bits(b)) = 8 /\ Bits(b)[k] \in {0, 1}
  BY BitsAre DEF WireTypes
<1> step = 6 * k - 3 + j /\ out /\ ~pull
  BY DEF SendsBit
<1> /\ j \in {0, 2, 4} => Does("wait")
    /\ j = 1 => Does(IF Bits(b)[k] = 1 THEN "sda1" ELSE "sda0")
    /\ j = 3 => Does("scl1")
  BY BitOps
<1>2. CASE j = 0 \/ j = 2 \/ j = 4
  <2>1. Does("wait")
    BY <1>2
  <2>2. fought' = fought /\ step' = step + 1 /\ UNCHANGED <<got, lines, slave>> /\ Held
    BY <2>1, Waits DEF SendsBit, Fight, WireTypes
  <2>3. \A l : Hears(l)' <=> Hears(l)
    BY <2>2 DEF Hears, slave
  <2>4. Took(before, cur)' <=> Took(before, cur)
    BY <2>2 DEF Took, slave
  <2>5. SendsBit(before, cur, b, k, j + 1)'
    BY <1>2, <2>2, <2>3, <2>4 DEF SendsBit, Held, lines
  <2>6. hxd.mode = "take" => Len(hxd.bits) <= 8
    BY <1>1, Prefix DEF SendsBit, Hears
  <2>7. QED
    BY <2>2, <2>5, <2>6 DEF Held, slave
<1>3. CASE j = 1
  <2>1. Does(IF Bits(b)[k] = 1 THEN "sda1" ELSE "sda0") /\ step' = step + 1
    BY <1>3 DEF Does
  <2>2. Moves(0, out, Bits(b)[k])
    <3>1. scl = 0
      BY <1>3 DEF SendsBit
    <3>2. CASE Bits(b)[k] = 1
      BY <2>1, <3>1, <3>2, DrivesSda1
    <3>3. CASE Bits(b)[k] = 0
      <4>1. (IF Bits(b)[k] = 1 THEN "sda1" ELSE "sda0") = "sda0"
        BY <3>3
      <4>2. Does("sda0")
        BY ONLY <2>1, <4>1, Zenon
      <4>3. QED
        BY <3>1, <3>3, <4>2, DrivesSda0
    <3>4. QED
      BY <1>1, <3>2, <3>3
  <2>3. Driven(out, Bits(b)[k]) /\ scl' = 0 /\ UNCHANGED slave
    <3>1. scl = 0
      BY <1>3 DEF SendsBit
    <3>2. QED
      BY ONLY <2>2, <3>1, StaysLow
  <2>4. \A l : Hears(l)' <=> Hears(l)
    BY <2>3 DEF Hears, slave
  <2>5. Took(before, cur)' <=> Took(before, cur)
    BY <2>3 DEF Took, slave
  <2>6. SendsBit(before, cur, b, k, j + 1)'
    BY <1>3, <2>3, <2>4, <2>5 DEF SendsBit, Driven, Held
  <2>7. hxd.mode = "take" => Len(hxd.bits) <= 8
    BY <1>1, <1>3, Prefix DEF SendsBit, Hears
  <2>8. QED
    BY <2>3, <2>6, <2>7 DEF Driven, Held, slave
<1>4. CASE j = 3
  <2>1. Does("scl1")
    BY <1>4
  <2>2. Moves(1, out, latch)
    BY <2>1, DrivesScl1 DEF SendsBit
  <2>3. Driven(out, latch) /\ scl' = 1 /\ ChipClocks(sda')
    <3>1. scl = 0
      BY <1>4 DEF SendsBit
    <3>2. QED
      BY ONLY <2>2, <3>1, Rises
  <2>4. sda' = Bits(b)[k]
    <3>1. sda' \in Levels(out, latch, pull) /\ latch = Bits(b)[k] /\ latch \in {0, 1}
      <4>1. sda' \in Levels(out, latch, pull)
        BY <2>3 DEF Driven
      <4>2. latch = Bits(b)[k]
        BY <1>4 DEF SendsBit
      <4>3. QED
        BY <1>1, <4>1, <4>2
    <3>2. QED
      BY <3>1 DEF Levels
  <2>5. Hears(SubSeq(Bits(b), 1, k - 1))
    BY <1>4 DEF SendsBit
  <2>6. Hears(SubSeq(Bits(b), 1, k))' /\ UNCHANGED <<frames, gave, nacked, hxd.mode>>
    BY <1>1, <2>3, <2>4, <2>5, HearsBit
  <2>7. Took(before, cur)'
    BY <2>6 DEF SendsBit, Took
  <2>8. SendsBit(before, cur, b, k, j + 1)'
    BY <1>4, <2>3, <2>6, <2>7 DEF SendsBit, Driven, Held
  <2>9. hxd.mode = "take" => Len(hxd'.bits) <= 8
    BY <1>1, <2>6, Prefix DEF Hears
  <2>10. hxd.mode # "take" => hxd' = hxd
    BY <2>3, <2>5 DEF ChipClocks, Hears
  <2>11. QED
    BY <2>3, <2>6, <2>8, <2>9, <2>10 DEF Driven, Held
<1>5. QED
  BY <1>2, <1>3, <1>4

LEMMA BitEnds ==
  ASSUME WireTypes, NEW before \in Seq(Seq(Bytes)), NEW cur \in Seq(Bytes), NEW b \in Bytes,
         NEW k \in 1 .. 8, SendsBit(before, cur, b, k, 5), Does(WriteData(b)[step + 1])
  PROVE  /\ IF k = 8 THEN AwaitsAck(before, cur, b)' ELSE SendsBit(before, cur, b, k + 1, 0)'
         /\ hxd' = hxd \/ hxd'.bits = <<>> \/ hxd'.bits = hxd.bits
         /\ UNCHANGED <<gave, got, refused, fought>> /\ step' = step + 1
<1>1. ChipTyped /\ Bits(b) \in Seq({0, 1}) /\ Len(Bits(b)) = 8
  BY BitsAre DEF WireTypes
<1>2. Hears(SubSeq(Bits(b), 1, k)) /\ Took(before, cur) /\ scl = 1 /\ out /\ ~pull /\ step = 6 * k + 2
  BY DEF SendsBit
<1>3. Does("scl0")
  <2>1. PICK j \in 0 .. 5 : j = 5 /\ step = 6 * k - 3 + j
    BY DEF SendsBit
  <2>2. QED
    BY <2>1, BitOps
<1>4. Driven(out, latch) /\ scl' = 0 /\ ChipFalls
  <2>1. Moves(0, out, latch)
    BY <1>3, DrivesScl0
  <2>2. QED
    BY <1>2, <2>1, Falls
<1>5. CASE k # 8
  <2>1. Len(SubSeq(Bits(b), 1, k)) = k
    BY <1>1, Prefix
  <2>2. UNCHANGED slave
    BY <1>2, <1>4, <1>5, <2>1 DEF ChipFalls, Hears, Width, slave
  <2>3. Hears(SubSeq(Bits(b), 1, (k + 1) - 1))' /\ Took(before, cur)'
    BY <1>2, <2>2 DEF Hears, Took, slave
  <2>4. SendsBit(before, cur, b, k + 1, 0)'
    BY <1>2, <1>4, <2>3 DEF SendsBit, Driven, Held
  <2>5. QED
    BY <1>4, <1>5, <2>2, <2>4 DEF Driven, Held, slave
<1>6. CASE k = 8
  <2>1. SubSeq(Bits(b), 1, k) = Bits(b)
    BY <1>1, <1>6, WholePrefix
  <2>2. Asks(cur, b)' /\ Took(before, Append(cur, b))' /\ gave' = gave
    BY <1>1, <1>2, <1>4, <2>1, TakesByte DEF WireTypes
  <2>3. AwaitsAck(before, cur, b)'
    <3>1. step' = 51 /\ scl' = 0 /\ out' = TRUE
      BY <1>2, <1>4, <1>6 DEF Driven, WireTypes
    <3>2. QED
      BY <2>2, <3>1 DEF AwaitsAck
  <2>4. hxd'.bits = <<>> \/ hxd'.bits = hxd.bits
    BY <1>1, <1>2, <1>4, <2>1, BitsAre DEF ChipFalls, ChipTakes, Hears, ChipTyped, slave, Width
  <2>5. QED
    BY <1>4, <1>6, <2>2, <2>3, <2>4 DEF Driven, Held
<1>7. QED
  BY <1>5, <1>6


LEMMA AwaitsAckStep ==
  ASSUME WireTypes, ReadLen \in Nat, Answers \subseteq Bytes,
         NEW before, NEW cur, NEW b \in Bytes, AwaitsAck(before, cur, b), gave = <<>>,
         Does(WriteData(b)[step + 1])
  PROVE  /\ \/ AwaitsAck(before, cur, b)' /\ gave' = <<>>
            \/ Acked(before, cur, b)' /\ (gave' = <<>> \/ Len(gave') = 1) /\ step' = 58
         /\ hxd'.bits \in {hxd.bits, <<>>} \/ (hxd'.mode = "give" /\ Len(hxd'.bits) = 8)
         /\ UNCHANGED <<got, refused, fought>> /\ step' = step + 1
<1>1. PICK p : p = WriteData(b)
  OBVIOUS
<1>2. /\ p[52] = "in" /\ p[53] = "wait" /\ p[54] = "scl1" /\ p[55] = "wait" /\ p[56] = "getack"
      /\ p[57] = "wait" /\ p[58] = "scl0"
  <2>1. WriteTable(p, b)
    BY <1>1, WriteIs
  <2>2. QED
    BY <2>1 DEF WriteTable
<1>3. /\ ChipTyped /\ Asks(cur, b) /\ Took(before, Append(cur, b)) /\ step \in 51 .. 57
      /\ scl = (IF step >= 54 THEN 1 ELSE 0) /\ (out <=> step = 51) /\ out \in BOOLEAN
      /\ step >= 53 => Still
  BY DEF AwaitsAck, WireTypes
<1>4. ASSUME UNCHANGED slave
      PROVE  Asks(cur, b)' /\ Took(before, Append(cur, b))' /\ gave' = <<>> /\ hxd' = hxd
  BY <1>3, <1>4 DEF slave, Asks, Took
<1>5. CASE step = 51
  <2>1. Does("in")
    BY <1>1, <1>2, <1>5
  <2>2. Moves(0, FALSE, latch)
    <3>1. scl = 0
      BY <1>3, <1>5
    <3>2. QED
      BY ONLY <2>1, <3>1, DrivesIn
  <2>3. Driven(FALSE, latch) /\ scl' = 0 /\ UNCHANGED slave
    <3>1. scl = 0
      BY <1>3, <1>5
    <3>2. QED
      BY ONLY <2>2, <3>1, StaysLow
  <2>4. step' = 52 /\ scl' = 0 /\ out' = FALSE
    BY <1>5, <2>3 DEF Driven
  <2>5. AwaitsAck(before, cur, b)'
    BY <1>4, <2>3, <2>4 DEF AwaitsAck
  <2>6. QED
    BY <1>4, <1>5, <2>3, <2>4, <2>5 DEF Driven, Held
<1>6. CASE step \in {52, 54, 56}
  <2>1. Does("wait")
    BY <1>1, <1>2, <1>6
  <2>2. /\ fought' = fought /\ step' = step + 1 /\ UNCHANGED <<got, lines, slave>> /\ Held
        /\ pull = Wants
    BY <1>3, <1>6, <2>1, Waits DEF Fight, WireTypes
  <2>3. AwaitsAck(before, cur, b)'
    <3>1. Still'
      BY <2>2 DEF Still, Wants, Held, slave
    <3>2. step' \in 53 .. 57 /\ scl' = (IF step' >= 54 THEN 1 ELSE 0) /\ out' = FALSE
      BY <1>3, <1>6, <2>2 DEF lines
    <3>3. QED
      BY <1>4, <2>2, <3>1, <3>2 DEF AwaitsAck
  <2>4. QED
    BY <1>4, <2>2, <2>3 DEF Held
<1>7. CASE step = 53
  <2>1. Does("scl1")
    BY <1>1, <1>2, <1>7
  <2>2. Moves(1, out, latch)
    BY <2>1, DrivesScl1
  <2>3. Driven(out, latch) /\ scl' = 1 /\ ChipClocks(sda')
    BY <1>3, <1>7, <2>2, Rises
  <2>4. UNCHANGED slave
    BY <1>3, <2>3 DEF ChipClocks, Asks, slave
  <2>5. step' = 54 /\ scl' = 1 /\ out' = FALSE /\ Still'
    BY <1>3, <1>7, <2>3, <2>4 DEF Driven, Still, Wants, Held, slave
  <2>6. AwaitsAck(before, cur, b)'
    BY <1>4, <2>4, <2>5 DEF AwaitsAck
  <2>7. QED
    BY <1>4, <1>7, <2>3, <2>4, <2>5, <2>6 DEF Driven, Held
<1>8. CASE step = 55
  <2>1. Does("getack")
    BY <1>1, <1>2, <1>8
  <2>2. Held /\ UNCHANGED <<lines, slave, fought, got>> /\ step' = step + 1
    BY <2>1, Looks
  <2>3. step' = 56 /\ scl' = 1 /\ out' = FALSE /\ Still'
    BY <1>3, <1>8, <2>2 DEF Still, Wants, Held, slave, lines
  <2>4. AwaitsAck(before, cur, b)'
    BY <1>4, <2>2, <2>3 DEF AwaitsAck
  <2>5. QED
    BY <1>4, <2>2, <2>4 DEF Held
<1>9. CASE step = 57
  <2>1. Does("scl0")
    BY <1>1, <1>2, <1>9
  <2>2. Moves(0, out, latch)
    BY <2>1, DrivesScl0
  <2>3. Driven(out, latch) /\ scl' = 0 /\ ChipFalls
    BY <1>3, <1>9, <2>2, Falls
  <2>4. step' = 58 /\ scl' = 0 /\ out' = FALSE
    BY <1>3, <1>9, <2>3 DEF Driven
  <2>5. frames' = frames /\ nacked' = nacked
    BY <1>3, <2>3 DEF ChipFalls, Asks, ChipGivesNext, slave
  <2>6. Took(before, Append(cur, b))'
    <3>1. frames # <<>> /\ (hxd.mode = "ack" => frames[Len(frames)] = Append(cur, b))
      BY <1>3 DEF Took
    <3>2. hxd'.mode \in {"take", "ack"} => hxd.mode = "ack"
      BY <1>3, <2>3 DEF ChipFalls, Asks, slave
    <3>3. ~nacked => frames = Append(before, Append(cur, b))
      BY <1>3 DEF Took
    <3>4. QED
      BY <2>5, <3>1, <3>2, <3>3 DEF Took
  <2>7. /\ IF cur = <<>> /\ b = ReadAddress THEN Giving(0)' ELSE Hears(<<>>)' /\ gave' = <<>>
        /\ gave' = <<>> \/ Len(gave') = 1
        /\ hxd'.bits \in {hxd.bits, <<>>} \/ (hxd'.mode = "give" /\ Len(hxd'.bits) = 8)
    <3>1. CASE hxd = [mode |-> "ack", bits |-> <<>>, reads |-> FALSE]
      <4>1. hxd' = [mode |-> "take", bits |-> <<>>, reads |-> FALSE] /\ gave' = gave
        BY <2>3, <3>1 DEF ChipFalls
      <4>2. ~(cur = <<>> /\ b = ReadAddress)
        BY <1>3, <3>1 DEF Asks
      <4>3. QED
        BY <4>1, <4>2 DEF Hears
    <3>2. CASE hxd = [mode |-> "ack", bits |-> <<>>, reads |-> TRUE]
      <4>1. cur = <<>> /\ b = ReadAddress
        BY <1>3, <3>2 DEF Asks
      <4>2. ChipGivesNext /\ Len(gave) = 0
        BY <2>3, <3>2 DEF ChipFalls
      <4>3. PICK a \in Bytes : hxd' = Gives(a) /\ gave' = Append(gave, a)
        BY <4>2 DEF ChipGivesNext
      <4>4. hxd'.mode = "give" /\ hxd'.bits = Bits(a) /\ Len(gave') = 1 /\ gave'[1] = a
        BY <1>3, <4>3 DEF Gives, ChipTyped
      <4>5. Len(hxd'.bits) = 8
        BY <4>4, BitsAre
      <4>6. Giving(0)'
        BY <4>4 DEF Giving
      <4>7. QED
        BY <4>1, <4>4, <4>5, <4>6
    <3>3. CASE hxd.mode = "ignore" /\ nacked
      BY <2>3, <2>5, <3>3 DEF ChipFalls, slave, Giving, Hears
    <3>4. QED
      BY <1>3, <3>1, <3>2, <3>3 DEF Asks
  <2>8. Acked(before, cur, b)'
    BY <2>4, <2>6, <2>7 DEF Acked
  <2>9. QED
    BY <1>9, <2>3, <2>4, <2>7, <2>8 DEF Driven, Held
<1>10. QED
  BY <1>3, <1>5, <1>6, <1>7, <1>8, <1>9


LEMMA AckedStep ==
  ASSUME WireTypes, NEW before, NEW cur, NEW b \in Bytes, Acked(before, cur, b), step < 60,
         Does(WriteData(b)[step + 1])
  PROVE  /\ Acked(before, cur, b)' /\ step' \in 58 .. 60
         /\ UNCHANGED <<hxd, gave, got, refused, fought>> /\ step' = step + 1
<1>1. PICK p : p = WriteData(b)
  OBVIOUS
<1>2. p[59] = "wait" /\ p[60] = "wait"
  <2>1. WriteTable(p, b)
    BY <1>1, WriteIs
  <2>2. QED
    BY <2>1 DEF WriteTable
<1>3. step \in {58, 59} /\ ~out /\ scl = 0 /\ out = FALSE
  BY DEF Acked, WireTypes
<1>4. Does("wait")
  BY <1>1, <1>2, <1>3
<1>5. /\ fought' = fought /\ step' = step + 1 /\ UNCHANGED <<got, lines, slave>> /\ Held
      /\ pull = Wants
  BY <1>3, <1>4, Waits DEF Fight, WireTypes
<1>6. Still' /\ Took(before, Append(cur, b))' /\ (Giving(0)' <=> Giving(0))
      /\ (Hears(<<>>)' <=> Hears(<<>>)) /\ gave' = gave
  BY <1>5 DEF Acked, Still, Wants, Held, slave, Took, Giving, Hears
<1>7. Acked(before, cur, b)'
  BY <1>3, <1>5, <1>6 DEF Acked, lines
<1>8. QED
  BY <1>3, <1>5, <1>7 DEF Held, slave

LEMMA InWriteStep ==
  ASSUME WireTypes, Short, ReadLen \in Nat, Answers \subseteq Bytes,
         NEW before \in Seq(Seq(Bytes)), NEW cur \in Seq(Bytes), NEW b \in Bytes,
         InWrite(before, cur, b), step < 60, Does(WriteData(b)[step + 1])
  PROVE  InWrite(before, cur, b)' /\ Short' /\ UNCHANGED <<refused, fought>>
<1>1. got = <<>> /\ Len(hxd.bits) <= 8
  BY DEF InWrite, Short, Width
<1>2. ASSUME got' = <<>>, Len(hxd'.bits) <= 8
      PROVE  Short'
  BY <1>2 DEF Short, Width
<1>3. CASE Leads(before, cur)
  <2>1. /\ Leads(before, cur)' \/ SendsBit(before, cur, b, 1, 0)'
        /\ UNCHANGED <<hxd, gave, got, refused, fought>> /\ step' = step + 1
    BY <1>3, LeadsStep
  <2>2. gave = <<>>
    BY <1>3 DEF InWrite, Leads
  <2>3. 1 \in 1 .. Width /\ 0 \in 0 .. 5
    BY DEF Width
  <2>4. InWrite(before, cur, b)'
    BY <1>1, <2>1, <2>2, <2>3 DEF InWrite
  <2>5. QED
    BY <1>1, <1>2, <2>1, <2>4
<1>4. ASSUME NEW k \in 1 .. Width, NEW j \in 0 .. 5, SendsBit(before, cur, b, k, j)
      PROVE  InWrite(before, cur, b)' /\ Short' /\ UNCHANGED <<refused, fought>>
  <2>1. gave = <<>> /\ k \in 1 .. 8
    <3>1. step = 6 * k - 3 + j /\ k \in 1 .. 8
      BY <1>4 DEF SendsBit, Width
    <3>2. ~(step \in 58 .. 60)
      BY <3>1
    <3>3. QED
      BY <3>1, <3>2 DEF InWrite
  <2>2. CASE j # 5
    <3>1. j \in 0 .. 4 /\ j + 1 \in 0 .. 5
      BY <2>2
    <3>2. /\ SendsBit(before, cur, b, k, j + 1)'
          /\ hxd'.mode = hxd.mode /\ (hxd.mode = "take" => Len(hxd'.bits) <= 8)
          /\ hxd.mode # "take" => hxd' = hxd
          /\ UNCHANGED <<gave, got, refused, fought>>
      BY <1>4, <2>1, <3>1, BitSent
    <3>3. InWrite(before, cur, b)'
      BY <1>1, <2>1, <3>1, <3>2 DEF InWrite
    <3>4. QED
      BY <1>1, <1>2, <3>2, <3>3
  <2>3. CASE j = 5
    <3>1. /\ IF k = 8 THEN AwaitsAck(before, cur, b)' ELSE SendsBit(before, cur, b, k + 1, 0)'
          /\ hxd' = hxd \/ hxd'.bits = <<>> \/ hxd'.bits = hxd.bits
          /\ UNCHANGED <<gave, got, refused, fought>>
      BY <1>4, <2>1, <2>3, BitEnds
    <3>2. k # 8 => k + 1 \in 1 .. Width /\ 0 \in 0 .. 5
      BY <2>1 DEF Width
    <3>3. InWrite(before, cur, b)'
      BY <1>1, <2>1, <3>1, <3>2 DEF InWrite
    <3>4. Len(hxd'.bits) <= 8
      BY <1>1, <3>1
    <3>5. QED
      BY <1>1, <1>2, <3>1, <3>3, <3>4
  <2>4. QED
    BY <2>2, <2>3
<1>5. CASE AwaitsAck(before, cur, b)
  <2>1. gave = <<>>
    BY <1>5 DEF InWrite, AwaitsAck
  <2>2. /\ \/ AwaitsAck(before, cur, b)' /\ gave' = <<>>
           \/ Acked(before, cur, b)' /\ (gave' = <<>> \/ Len(gave') = 1) /\ step' = 58
        /\ hxd'.bits \in {hxd.bits, <<>>} \/ (hxd'.mode = "give" /\ Len(hxd'.bits) = 8)
        /\ UNCHANGED <<got, refused, fought>>
    BY <1>5, <2>1, AwaitsAckStep
  <2>3. InWrite(before, cur, b)'
    BY <1>1, <2>2 DEF InWrite
  <2>4. Len(hxd'.bits) <= 8
    <3>1. Len(<<>>) = 0
      OBVIOUS
    <3>2. hxd'.bits = hxd.bits \/ hxd'.bits = <<>> \/ Len(hxd'.bits) = 8
      BY <2>2
    <3>3. CASE hxd'.bits = hxd.bits
      BY <1>1, <3>3
    <3>4. CASE hxd'.bits = <<>>
      BY <3>1, <3>4
    <3>5. CASE Len(hxd'.bits) = 8
      BY <3>5
    <3>6. QED
      BY <3>2, <3>3, <3>4, <3>5
  <2>5. QED
    BY <1>1, <1>2, <2>2, <2>3, <2>4
<1>6. CASE Acked(before, cur, b)
  <2>1. /\ Acked(before, cur, b)' /\ step' \in 58 .. 60
        /\ UNCHANGED <<hxd, gave, got, refused, fought>>
    BY <1>6, AckedStep
  <2>2. gave = <<>> \/ Len(gave) = 1
    BY DEF InWrite
  <2>3. InWrite(before, cur, b)'
    BY <1>1, <2>1, <2>2 DEF InWrite
  <2>4. QED
    BY <1>1, <1>2, <2>1, <2>3
<1>7. QED
  BY <1>3, <1>4, <1>5, <1>6 DEF InWrite

-----------------------------------------------------------------------------
(* A byte read                                                             *)

ReadHolds(n) == n \in 1 .. ReadLen + 1 /\ (gave = <<>> => n = 1)

LEMMA PartIs ==
  ASSUME gave \in Seq(Bytes), NEW n \in Nat \ {0}, gave # <<>> => n <= Len(gave)
  PROVE  /\ Part(n) \in Seq({0, 1}) /\ Len(Part(n)) = 8
         /\ gave = <<>> => Part(n) = Ones
         /\ gave # <<>> => Part(n) = Bits(gave[n]) /\ gave[n] \in Bytes
<1>1. CASE gave = <<>>
  BY <1>1, OnesAre DEF Part
<1>2. CASE gave # <<>>
  <2>1. n \in 1 .. Len(gave)
    BY <1>2
  <2>2. gave[n] \in Bytes
    BY <2>1, ElementsAre
  <2>3. QED
    BY <1>2, <2>2, BitsAre DEF Part
<1>3. QED
  BY <1>1, <1>2

LEMMA ReadsOnStep ==
  ASSUME WireTypes, ReadLen \in Nat, NEW n, ReadHolds(n), ReadsOn(n), Does(ReadData[step + 1])
  PROVE  /\ ReadsOn(n)' \/ ReadsBit(n, 1, 0)'
         /\ got' = got \/ got' = Append(got, <<>>)
         /\ UNCHANGED <<slave, refused, fought>>
<1>1. PICK p : p = ReadData
  OBVIOUS
<1>2. p[1] = "in" /\ p[2] = "begin"
  BY <1>1, ReadIs DEF ReadTable
<1>3. /\ scl = 0 /\ Still /\ Giving(n - 1) /\ ReadSoFar(n - 1) /\ out \in BOOLEAN
      /\ gave \in Seq(Bytes) /\ got \in Seq(Seq({0, 1})) /\ n \in Nat \ {0}
  BY DEF ReadsOn, WireTypes, ReadHolds
<1>4. CASE step = 0
  <2>1. Does("in")
    BY <1>1, <1>2, <1>4
  <2>2. Moves(0, FALSE, latch)
    <3>1. scl = 0
      BY <1>3
    <3>2. QED
      BY ONLY <2>1, <3>1, DrivesIn
  <2>3. Driven(FALSE, latch) /\ scl' = 0 /\ UNCHANGED slave
    <3>1. scl = 0
      BY <1>3
    <3>2. QED
      BY ONLY <2>2, <3>1, StaysLow
  <2>4. Still' /\ Giving(n - 1)' /\ ReadSoFar(n - 1)'
    BY <1>3, <2>3 DEF Driven, Held, slave, Still, Wants, Giving, ReadSoFar
  <2>5. step' = 1 /\ out' = FALSE /\ got' = got
    BY <1>4, <2>3 DEF Driven
  <2>6. ReadsOn(n)'
    BY <2>3, <2>4, <2>5 DEF ReadsOn
  <2>7. QED
    BY <2>3, <2>5, <2>6 DEF Driven, Held
<1>5. CASE step = 1
  <2>1. Does("begin")
    BY <1>1, <1>2, <1>5
  <2>2. Held /\ UNCHANGED <<lines, slave, fought>> /\ step' = 2 /\ got' = Append(got, <<>>)
    BY <1>5, <2>1, Looks
  <2>3. Len(got) = n - 1 /\ Len(got') = n /\ got'[n] = <<>> /\ \A m \in 1 .. n - 1 : got'[m] = got[m]
    BY <1>3, <2>2 DEF ReadSoFar
  <2>4. gave # <<>> => Len(gave) = n /\ hxd.mode = "give" /\ n <= ReadLen + 1 /\ hxd.bits = Bits(gave[n])
    BY <1>3 DEF Giving, ReadHolds
  <2>5. gave = <<>> => hxd.mode = "ignore" /\ nacked /\ n = 1
    BY <1>3 DEF Giving, ReadHolds
  <2>6. /\ Part(n) \in Seq({0, 1}) /\ Len(Part(n)) = 8
        /\ gave # <<>> => Part(n) = Bits(gave[n]) /\ gave[n] \in Bytes
    BY <1>3, <2>4, PartIs
  <2>7. SubSeq(Part(n), 1, 0) = <<>> /\ SubSeq(Part(n), 1, 8) = Part(n)
    BY <2>6, WholePrefix
  <2>8. Holds(n, 1)
    BY <2>4, <2>5, <2>6, <2>7 DEF Holds, Width, ReadHolds
  <2>9. Holds(n, 1)' /\ Still' /\ Part(n)' = Part(n)
    BY <1>3, <2>2, <2>8 DEF Holds, Held, slave, Still, Wants, Part
  <2>10. ReadPart(n, 0)'
    <3>1. gave' = gave
      BY <2>2 DEF slave
    <3>2. gave # <<>> => \A m \in 1 .. n - 1 : got[m] = Bits(gave[m])
      BY <1>3 DEF ReadSoFar
    <3>3. QED
      BY <2>3, <2>4, <2>5, <2>7, <2>9, <3>1, <3>2 DEF ReadPart
  <2>11. ReadsBit(n, 1, 0)'
    <3>1. 5 * 1 - 3 + 0 = 2 /\ 1 - 1 = 0 /\ step' = 2 /\ ~out' /\ scl' = 0
      BY <1>3, <1>5, <2>2 DEF ReadsOn, lines
    <3>2. QED
      BY <2>9, <2>10, <3>1 DEF ReadsBit
  <2>12. QED
    BY <2>2, <2>11 DEF Held
<1>6. QED
  BY <1>4, <1>5 DEF ReadsOn


LEMMA ReadOps ==
  ASSUME NEW k \in 1 .. 8, NEW n, NEW j \in 0 .. 4, n = 5 * k - 3 + j
  PROVE  /\ j = 0 => ReadData[n + 1] = "scl1"
         /\ j \in {1, 4} => ReadData[n + 1] = "wait"
         /\ j = 2 => ReadData[n + 1] = "get"
         /\ j = 3 => ReadData[n + 1] = "scl0"
<1>1. PICK p : p = ReadData
  OBVIOUS
<1>2. /\ p[5 * k - 2] = "scl1" /\ p[5 * k - 1] = "wait" /\ p[5 * k] = "get"
      /\ p[5 * k + 1] = "scl0" /\ p[5 * k + 2] = "wait"
  BY <1>1, ReadIs DEF ReadTable
<1>3. /\ j = 0 => n + 1 = 5 * k - 2
      /\ j = 1 => n + 1 = 5 * k - 1
      /\ j = 2 => n + 1 = 5 * k
      /\ j = 3 => n + 1 = 5 * k + 1
      /\ j = 4 => n + 1 = 5 * k + 2
  OBVIOUS
<1>4. QED
  BY <1>1, <1>2, <1>3

\* The chip's bit is on SDA while SCL is high.
LEMMA BitShown ==
  ASSUME WireTypes, NEW n \in Nat \ {0}, NEW k \in 1 .. 8, Holds(n, k), Still, ~out
  PROVE  sda = Part(n)[k]
<1>1. gave \in Seq(Bytes) /\ out = FALSE /\ pull = Wants /\ sda \in Levels(FALSE, latch, Wants)
  BY DEF WireTypes, Levelled, Still
<1>2. sda = IF Wants THEN 0 ELSE 1
  BY <1>1 DEF Levels
<1>3. CASE hxd.mode = "give" /\ Len(gave) = n /\ hxd.bits = SubSeq(Bits(gave[n]), k, Width)
  <2>1. gave # <<>> /\ n <= Len(gave)
    BY <1>1, <1>3
  <2>2. Part(n) = Bits(gave[n]) /\ Part(n) \in Seq({0, 1}) /\ Len(Part(n)) = 8
    BY <1>1, <2>1, PartIs
  <2>3. PICK s \in Seq({0, 1}) : s = Part(n)
    BY <2>2
  <2>4. k \in 1 .. Len(s) /\ Len(s) = 8
    BY <2>2, <2>3
  <2>5. SubSeq(s, k, Len(s))[1] = s[k]
    BY ONLY s \in Seq({0, 1}), <2>4, Suffix
  <2>6. hxd.bits[1] = Part(n)[k]
    BY <1>3, <2>2, <2>3, <2>4, <2>5 DEF Width
  <2>7. Part(n)[k] \in {0, 1}
    BY <2>1, <1>1, <2>2, PartIs, BitsAre
  <2>8. QED
    BY <1>2, <1>3, <2>6, <2>7 DEF Wants
<1>4. CASE hxd.mode = "ignore" /\ gave = <<>>
  <2>1. Part(n) = Ones /\ Ones[k] = 1
    BY <1>4, OnesAre DEF Part
  <2>2. QED
    BY <1>2, <1>4, <2>1 DEF Wants
<1>5. QED
  BY <1>3, <1>4 DEF Holds, Width

\* The chip goes on to its next bit.
LEMMA BitShifted ==
  ASSUME WireTypes, NEW n \in Nat \ {0}, NEW k \in 1 .. 8, Holds(n, k), ChipFalls
  PROVE  /\ Holds(n, k + 1)' /\ gave' = gave
         /\ hxd' = hxd \/ Len(hxd'.bits) <= 8
<1>1. gave \in Seq(Bytes) /\ ChipTyped
  BY DEF WireTypes
<1>2. CASE /\ hxd.mode = "give" /\ Len(gave) = n /\ n <= ReadLen + 1
           /\ hxd.bits = SubSeq(Bits(gave[n]), k, Width)
  <2>1. gave # <<>> /\ n <= Len(gave)
    BY <1>1, <1>2
  <2>2. Part(n) = Bits(gave[n]) /\ Part(n) \in Seq({0, 1}) /\ Len(Part(n)) = 8
    BY <1>1, <2>1, PartIs
  <2>3. PICK s \in Seq({0, 1}) : s = Part(n)
    BY <2>2
  <2>4. k \in 1 .. Len(s) /\ Len(s) = 8
    BY <2>2, <2>3
  <2>5. /\ Len(SubSeq(s, k, Len(s))) = Len(s) + 1 - k
        /\ Tail(SubSeq(s, k, Len(s))) = SubSeq(s, k + 1, Len(s))
    BY ONLY s \in Seq({0, 1}), <2>4, Suffix
  <2>6. Len(hxd.bits) = 9 - k /\ Tail(hxd.bits) = SubSeq(Bits(gave[n]), k + 1, Width)
    BY <1>2, <2>2, <2>3, <2>4, <2>5 DEF Width
  <2>7. ChipShifts
    BY <1>2 DEF ChipFalls
  <2>8. CASE k = 8
    <3>1. hxd' = [hxd EXCEPT !.mode = "acked", !.bits = <<>>] /\ UNCHANGED <<frames, gave, nacked>>
      BY <2>6, <2>7, <2>8 DEF ChipShifts
    <3>2. hxd'.mode = "acked" /\ hxd'.bits = <<>> /\ Len(<<>>) = 0
      BY <1>1, <3>1 DEF ChipTyped
    <3>3. QED
      BY <1>2, <2>8, <3>1, <3>2 DEF Holds, Width
  <2>9. CASE k # 8
    <3>1. hxd' = [hxd EXCEPT !.bits = Tail(@)] /\ UNCHANGED <<frames, gave, nacked>>
      BY <2>6, <2>7, <2>9 DEF ChipShifts
    <3>2. hxd'.mode = "give" /\ hxd'.bits = SubSeq(Bits(gave[n]), k + 1, Width)
      BY <1>1, <1>2, <2>6, <3>1 DEF ChipTyped
    <3>3. Holds(n, k + 1)'
      <4>1. gave' = gave /\ k + 1 <= Width
        BY <2>9, <3>1 DEF Width
      <4>2. /\ hxd'.mode = "give" /\ Len(gave') = n /\ n <= ReadLen + 1
            /\ hxd'.bits = SubSeq(Bits(gave'[n]), k + 1, Width)
        BY <1>2, <3>2, <4>1
      <4>3. QED
        BY <4>1, <4>2 DEF Holds
    <3>4. Len(hxd'.bits) <= 8
      <4>1. k + 1 \in 1 .. Len(s)
        BY <2>4, <2>9
      <4>2. Len(SubSeq(s, k + 1, Len(s))) = Len(s) + 1 - (k + 1)
        BY ONLY s \in Seq({0, 1}), <4>1, Suffix
      <4>3. hxd'.bits = SubSeq(s, k + 1, Len(s))
        BY <2>2, <2>3, <2>4, <3>2 DEF Width
      <4>4. QED
        BY <2>4, <4>2, <4>3
    <3>5. QED
      BY <3>1, <3>3, <3>4
  <2>10. QED
    BY <2>8, <2>9
<1>3. CASE hxd.mode = "ignore" /\ nacked /\ gave = <<>>
  BY <1>3 DEF ChipFalls, slave, Holds
<1>4. QED
  BY <1>2, <1>3 DEF Holds, Width


LEMMA BitRead ==
  ASSUME WireTypes, NEW n, ReadHolds(n), ReadLen \in Nat, NEW k \in 1 .. 8, NEW j \in 0 .. 3,
         ReadsBit(n, k, j), Does(ReadData[step + 1]), Short
  PROVE  /\ ReadsBit(n, k, j + 1)' /\ Short'
         /\ UNCHANGED <<frames, gave, nacked, refused, fought>>
<1>1. /\ ChipTyped /\ gave \in Seq(Bytes) /\ got \in Seq(Seq({0, 1})) /\ n \in Nat \ {0}
      /\ out = FALSE /\ step = 5 * k - 3 + j /\ scl = (IF j \in 1 .. 3 THEN 1 ELSE 0)
      /\ Still /\ Holds(n, k)
  <2>1. /\ ChipTyped /\ gave \in Seq(Bytes) /\ got \in Seq(Seq({0, 1})) /\ out \in BOOLEAN
    BY DEF WireTypes
  <2>2. n \in Nat \ {0}
    BY DEF ReadHolds
  <2>3. /\ ~out /\ step = 5 * k - 3 + j /\ scl = (IF j \in 1 .. 3 THEN 1 ELSE 0)
        /\ Still /\ Holds(n, k)
    BY DEF ReadsBit
  <2>4. QED
    BY <2>1, <2>2, <2>3
<1>2. /\ j = 0 => Does("scl1")
      /\ j = 1 => Does("wait")
      /\ j = 2 => Does("get")
      /\ j = 3 => Does("scl0")
  <2>1. j \in 0 .. 4
    OBVIOUS
  <2>2. /\ j = 0 => ReadData[step + 1] = "scl1"
        /\ j \in {1, 4} => ReadData[step + 1] = "wait"
        /\ j = 2 => ReadData[step + 1] = "get"
        /\ j = 3 => ReadData[step + 1] = "scl0"
    BY ONLY k \in 1 .. 8, <2>1, <1>1, ReadOps
  <2>3. QED
    BY <2>2
<1>3. /\ Len(got) = n /\ got[n] = SubSeq(Part(n), 1, IF j >= 3 THEN k ELSE k - 1)
      /\ IF gave = <<>> THEN n = 1
         ELSE Len(gave) = n /\ \A m \in 1 .. n - 1 : got[m] = Bits(gave[m])
  BY DEF ReadsBit, ReadPart
<1>4. Part(n) \in Seq({0, 1}) /\ Len(Part(n)) = 8
  BY <1>1, <1>3, PartIs
<1>5. ASSUME got' = got, gave' = gave, hxd' = hxd \/ Len(hxd'.bits) <= 8
      PROVE  Short' /\ \A l : ReadPart(n, l)' <=> ReadPart(n, l)
  BY <1>5 DEF Short, ReadPart, Part, Width
<1>6. ASSUME UNCHANGED slave PROVE Holds(n, k)' /\ Wants' = Wants
  BY <1>1, <1>6 DEF slave, Holds, Wants
<1>7. CASE j = 0
  <2>1. Moves(1, out, latch)
    BY <1>2, <1>7, DrivesScl1
  <2>2. Driven(out, latch) /\ scl' = 1 /\ ChipClocks(sda')
    BY <1>1, <1>7, <2>1, Rises
  <2>3. UNCHANGED slave
    BY <1>1, <2>2 DEF ChipClocks, Holds, slave, Width
  <2>4. Still' /\ out' = FALSE /\ step' = 5 * k - 3 + (j + 1) /\ got' = got
    BY <1>1, <1>6, <2>2, <2>3 DEF Driven, Held, Still
  <2>5. Short' /\ ReadPart(n, k - 1)'
    BY <1>5, <1>7, <2>3, <2>4 DEF slave, ReadsBit
  <2>6. ReadsBit(n, k, j + 1)'
    BY <1>6, <1>7, <2>2, <2>3, <2>4, <2>5 DEF ReadsBit
  <2>7. QED
    BY <2>2, <2>3, <2>5, <2>6 DEF Driven, Held, slave
<1>8. CASE j = 1
  <2>1. /\ fought' = fought /\ step' = step + 1 /\ UNCHANGED <<got, lines, slave>> /\ Held
        /\ pull = Wants
    BY <1>1, <1>2, <1>8, Waits DEF Fight, WireTypes
  <2>2. Still' /\ out' = FALSE /\ step' = 5 * k - 3 + (j + 1) /\ scl' = 1
    BY <1>1, <1>6, <1>8, <2>1 DEF Held, Still, lines
  <2>3. Short' /\ ReadPart(n, k - 1)'
    BY <1>5, <1>8, <2>1 DEF slave, ReadsBit
  <2>4. ReadsBit(n, k, j + 1)'
    BY <1>6, <1>8, <2>1, <2>2, <2>3 DEF ReadsBit
  <2>5. QED
    BY <2>1, <2>3, <2>4 DEF Held, slave
<1>9. CASE j = 2
  <2>1. /\ Held /\ UNCHANGED <<lines, slave, fought>> /\ step' = step + 1
        /\ got' = [got EXCEPT ![Len(got)] = Append(@, sda)]
    BY <1>2, <1>9, Looks
  <2>2. sda = Part(n)[k]
    BY <1>1, BitShown
  <2>3. PICK w \in Seq({0, 1}) : w = Part(n)
    BY <1>4
  <2>4. k \in 1 .. Len(w)
    BY <1>4, <2>3
  <2>5. /\ SubSeq(w, 1, k) = Append(SubSeq(w, 1, k - 1), w[k])
        /\ SubSeq(w, 1, k) \in Seq({0, 1}) /\ Len(SubSeq(w, 1, k)) = k
    BY ONLY w \in Seq({0, 1}), <2>4, Prefix
  <2>6. got' = [got EXCEPT ![n] = SubSeq(w, 1, k)] /\ n \in 1 .. Len(got)
    <3>1. got[n] = SubSeq(w, 1, k - 1)
      BY <1>3, <1>9, <2>3
    <3>2. Append(got[n], sda) = SubSeq(w, 1, k)
      BY <2>2, <2>3, <2>5, <3>1
    <3>3. got' = [got EXCEPT ![n] = Append(got[n], sda)]
      BY <1>3, <2>1
    <3>4. n \in 1 .. Len(got)
      BY <1>1, <1>3
    <3>5. QED
      BY <3>2, <3>3, <3>4
  <2>7. /\ Len(got') = Len(got) /\ got'[n] = SubSeq(w, 1, k)
        /\ \A m \in 1 .. Len(got) : m # n => got'[m] = got[m]
    BY <1>1, <2>5, <2>6
  <2>8. gave' = gave /\ hxd' = hxd /\ Part(n)' = Part(n)
    BY <2>1 DEF slave, Part
  <2>9. ReadPart(n, k)'
    BY <1>3, <2>3, <2>7, <2>8 DEF ReadPart
  <2>10. Short'
    <3>1. \A m \in 1 .. Len(got) : Len(got'[m]) <= Width
      <4>1. DOMAIN got = 1 .. Len(got)
        BY <1>1
      <4>2. \A m \in 1 .. Len(got) : Len(got[m]) <= Width
        BY <4>1 DEF Short
      <4>3. Len(got'[n]) = k /\ k <= Width
        BY <2>5, <2>7 DEF Width
      <4>4. QED
        BY <2>7, <4>2, <4>3
    <3>2. DOMAIN got' = 1 .. Len(got)
      BY <1>1, <2>6
    <3>3. QED
      BY <2>8, <3>1, <3>2 DEF Short
  <2>11. Still' /\ out' = FALSE /\ step' = 5 * k - 3 + (j + 1) /\ scl' = 1
    BY <1>1, <1>6, <1>9, <2>1 DEF Held, Still, lines
  <2>12. ReadsBit(n, k, j + 1)'
    BY <1>6, <1>9, <2>1, <2>9, <2>11 DEF ReadsBit
  <2>13. QED
    BY <2>1, <2>10, <2>12 DEF Held, slave
<1>10. CASE j = 3
  <2>1. Moves(0, out, latch)
    BY <1>2, <1>10, DrivesScl0
  <2>2. Driven(out, latch) /\ scl' = 0 /\ ChipFalls
    BY <1>1, <1>10, <2>1, Falls
  <2>3. Holds(n, k + 1)' /\ gave' = gave /\ (hxd' = hxd \/ Len(hxd'.bits) <= 8)
    BY <1>1, <2>2, BitShifted
  <2>4. frames' = frames /\ nacked' = nacked
    BY <1>1, <2>2 DEF ChipFalls, ChipShifts, Holds, slave, Width
  <2>5. out' = FALSE /\ step' = 5 * k - 3 + (j + 1) /\ got' = got
    BY <1>1, <2>2 DEF Driven
  <2>6. Short' /\ ReadPart(n, k)'
    BY <1>5, <1>10, <2>3, <2>5 DEF ReadsBit
  <2>7. ReadsBit(n, k, j + 1)'
    BY <1>10, <2>2, <2>3, <2>5, <2>6 DEF ReadsBit
  <2>8. QED
    BY <2>2, <2>3, <2>4, <2>6, <2>7 DEF Driven, Held
<1>11. QED
  BY <1>7, <1>8, <1>9, <1>10


LEMMA LastOfBit ==
  ASSUME WireTypes, NEW n, ReadHolds(n), ReadLen \in Nat, NEW k \in 1 .. 8,
         ReadsBit(n, k, 4), Does(ReadData[step + 1])
  PROVE  /\ IF k = 8 THEN Acks(n)' ELSE ReadsBit(n, k + 1, 0)'
         /\ UNCHANGED <<slave, got, refused, fought>>
<1>1. /\ gave \in Seq(Bytes) /\ got \in Seq(Seq({0, 1})) /\ n \in Nat \ {0}
      /\ out = FALSE /\ step = 5 * k - 3 + 4 /\ scl = 0 /\ Holds(n, k + 1) /\ ReadPart(n, k)
  BY DEF WireTypes, ReadHolds, ReadsBit
<1>2. Does("wait")
  <2>1. PICK j \in 0 .. 4 : j = 4 /\ step = 5 * k - 3 + j
    BY <1>1
  <2>2. ReadData[step + 1] = "wait"
    BY <2>1, ReadOps
  <2>3. QED
    BY <2>2
<1>3. /\ fought' = fought /\ step' = step + 1 /\ UNCHANGED <<got, lines, slave>> /\ Held
      /\ pull = Wants
  BY <1>1, <1>2, Waits DEF Fight, WireTypes
<1>4. /\ Holds(n, k + 1)' /\ Still' /\ ReadPart(n, k)' /\ out' = FALSE /\ scl' = 0
      /\ pull' = Wants /\ Wants' = Wants
  BY <1>1, <1>3 DEF slave, lines, Held, Holds, Still, Wants, ReadPart, Part
<1>5. CASE k # 8
  <2>1. step' = 5 * (k + 1) - 3 + 0 /\ (k + 1) - 1 = k
    BY <1>1, <1>3
  <2>2. ReadsBit(n, k + 1, 0)'
    BY <1>4, <2>1 DEF ReadsBit
  <2>3. QED
    BY <1>3, <1>5, <2>2 DEF Held
<1>6. CASE k = 8
  <2>1. step' = 42 /\ Holds(n, Width + 1)'
    BY <1>1, <1>3, <1>4, <1>6 DEF Width
  <2>2. ~pull'
    <3>1. hxd.mode \in {"acked", "ignore"}
      BY <1>1, <1>6 DEF Holds, Width
    <3>2. ~Wants
      BY <3>1 DEF Wants
    <3>3. QED
      BY <1>4, <3>2
  <2>3. ReadSoFar(n)
    <3>1. Part(n) \in Seq({0, 1}) /\ Len(Part(n)) = 8
      BY <1>1, PartIs DEF ReadPart
    <3>2. SubSeq(Part(n), 1, 8) = Part(n)
      BY <3>1, WholePrefix
    <3>3. Len(got) = n /\ got[n] = Part(n)
      BY <1>1, <1>6, <3>2 DEF ReadPart
    <3>4. CASE gave = <<>>
      BY <1>1, <3>3, <3>4 DEF ReadPart, ReadSoFar, Part
    <3>5. CASE gave # <<>>
      <4>1. Len(gave) = n /\ \A m \in 1 .. n - 1 : got[m] = Bits(gave[m])
        BY <1>1, <3>5 DEF ReadPart
      <4>2. got[n] = Bits(gave[n])
        BY <3>3, <3>5 DEF Part
      <4>3. \A m \in 1 .. n : got[m] = Bits(gave[m])
        BY <1>1, <4>1, <4>2
      <4>4. QED
        BY <1>1, <3>3, <3>5, <4>1, <4>3 DEF ReadSoFar
    <3>6. QED
      BY <3>4, <3>5
  <2>4. ReadSoFar(n)'
    BY <1>3, <2>3 DEF ReadSoFar, slave
  <2>5. Acks(n)'
    BY <1>4, <2>1, <2>2, <2>4 DEF Acks
  <2>6. QED
    BY <1>3, <1>6, <2>5 DEF Held
<1>7. QED
  BY <1>5, <1>6

LEMMA AcksStep ==
  ASSUME WireTypes, NEW n, ReadHolds(n), ReadLen \in Nat, Answers \subseteq Bytes,
         Acks(n), Does(ReadData[step + 1])
  PROVE  /\ Acks(n)' \/ HasAcked(n)'
         /\ hxd' = hxd \/ Len(hxd'.bits) <= 8 \/ hxd'.bits = hxd.bits
         /\ gave' = gave \/ (gave # <<>> /\ gave' # <<>>)
         /\ UNCHANGED <<got, refused, fought, frames, nacked>>
<1>1. PICK p : p = ReadData
  OBVIOUS
<1>2. /\ p[43] = "scl0" /\ p[44] = "wait" /\ p[45] = "out" /\ p[46] = "wait" /\ p[47] = "sda0"
      /\ p[48] = "wait" /\ p[49] = "scl1" /\ p[50] = "wait" /\ p[51] = "scl0"
  BY <1>1, ReadIs DEF ReadTable
<1>3. /\ ChipTyped /\ gave \in Seq(Bytes) /\ got \in Seq(Seq({0, 1})) /\ n \in Nat \ {0}
      /\ step \in 42 .. 50 /\ scl = (IF step >= 49 THEN 1 ELSE 0)
      /\ out \in BOOLEAN /\ (out <=> step >= 45) /\ (step >= 47 => latch = 0)
      /\ pull = FALSE /\ Holds(n, Width + 1) /\ ReadSoFar(n)
      /\ hxd.mode \in {"acked", "ignore"}
  BY DEF WireTypes, ReadHolds, Acks, Holds, Width
<1>4. ASSUME UNCHANGED slave, UNCHANGED got PROVE Holds(n, Width + 1)' /\ ReadSoFar(n)'
  BY <1>3, <1>4 DEF slave, Holds, ReadSoFar
<1>5. CASE step \in {43, 45, 47, 49}
  <2>1. Does("wait")
    BY <1>1, <1>2, <1>5
  <2>2. /\ fought' = fought /\ step' = step + 1 /\ UNCHANGED <<got, lines, slave>> /\ Held
    BY <1>3, <2>1, Waits DEF Fight, WireTypes
  <2>3. Acks(n)'
    BY <1>3, <1>4, <1>5, <2>2 DEF Acks, Held, lines
  <2>4. QED
    BY <2>2, <2>3 DEF Held, slave
<1>6. CASE step = 42
  <2>1. Does("scl0") /\ scl = 0 /\ out = FALSE
    BY <1>1, <1>2, <1>3, <1>6
  <2>2. Moves(0, out, latch)
    BY <2>1, DrivesScl0
  <2>3. Driven(out, latch) /\ scl' = 0 /\ UNCHANGED slave
    BY <2>1, <2>2, StaysLow
  <2>4. step' = 43 /\ scl' = 0 /\ out' = FALSE /\ pull' = FALSE /\ UNCHANGED got
    BY <1>3, <1>6, <2>1, <2>3 DEF Driven, Held
  <2>5. Acks(n)'
    BY <1>4, <2>3, <2>4 DEF Acks
  <2>6. QED
    BY <2>3, <2>5 DEF Driven, Held, slave
<1>7. CASE step = 44
  <2>1. Does("out") /\ scl = 0
    BY <1>1, <1>2, <1>3, <1>7
  <2>2. Moves(0, TRUE, latch)
    BY ONLY <2>1, DrivesOut
  <2>3. Driven(TRUE, latch) /\ scl' = 0 /\ UNCHANGED slave
    BY ONLY <2>1, <2>2, StaysLow
  <2>4. step' = 45 /\ scl' = 0 /\ out' = TRUE /\ pull' = FALSE /\ UNCHANGED got
    BY <1>3, <1>7, <2>1, <2>3 DEF Driven, Held
  <2>5. Acks(n)'
    BY <1>4, <2>3, <2>4 DEF Acks
  <2>6. QED
    BY <2>3, <2>5 DEF Driven, Held, slave
<1>8. CASE step = 46
  <2>1. Does("sda0") /\ scl = 0 /\ out = TRUE
    BY <1>1, <1>2, <1>3, <1>8
  <2>2. Moves(0, out, 0)
    BY ONLY <2>1, DrivesSda0
  <2>3. Driven(out, 0) /\ scl' = 0 /\ UNCHANGED slave
    BY ONLY <2>1, <2>2, StaysLow
  <2>4. step' = 47 /\ scl' = 0 /\ out' = TRUE /\ latch' = 0 /\ pull' = FALSE /\ UNCHANGED got
    BY <1>3, <1>8, <2>1, <2>3 DEF Driven, Held
  <2>5. Acks(n)'
    BY <1>4, <2>3, <2>4 DEF Acks
  <2>6. QED
    BY <2>3, <2>5 DEF Driven, Held, slave
<1>9. CASE step = 48
  <2>1. Does("scl1") /\ scl = 0 /\ out = TRUE /\ latch = 0
    BY <1>1, <1>2, <1>3, <1>9
  <2>2. Moves(1, out, latch)
    BY ONLY <2>1, DrivesScl1
  <2>3. Driven(out, latch) /\ scl' = 1 /\ ChipClocks(sda')
    BY ONLY <2>1, <2>2, Rises
  <2>4. sda' = 0
    BY <2>1, <2>3 DEF Driven, Levels
  <2>5. UNCHANGED slave
    BY <1>3, <2>3, <2>4 DEF ChipClocks, slave
  <2>6. /\ step' = 49 /\ scl' = 1 /\ out' = TRUE /\ latch' = 0 /\ pull' = FALSE /\ UNCHANGED got
    BY <1>3, <1>9, <2>1, <2>3 DEF Driven, Held
  <2>7. Acks(n)'
    BY <1>4, <2>5, <2>6 DEF Acks
  <2>8. QED
    BY <2>3, <2>5, <2>7 DEF Driven, Held, slave
<1>10. CASE step = 50
  <2>1. Does("scl0") /\ scl = 1 /\ out = TRUE /\ latch = 0
    BY <1>1, <1>2, <1>3, <1>10
  <2>2. Moves(0, out, latch)
    BY ONLY <2>1, DrivesScl0
  <2>3. Driven(out, latch) /\ scl' = 0 /\ ChipFalls
    BY ONLY <2>1, <2>2, Falls
  <2>4. step' = 51 /\ scl' = 0 /\ Drives(0)' /\ UNCHANGED got
    BY <1>10, <2>1, <2>3 DEF Driven, Drives
  <2>5. CASE hxd.mode = "acked" /\ Len(gave) = n /\ n <= ReadLen
    <3>1. ChipGivesNext
      BY <2>3, <2>5 DEF ChipFalls
    <3>2. PICK a \in Bytes : hxd' = Gives(a) /\ gave' = Append(gave, a) /\ UNCHANGED <<frames, nacked>>
      BY <1>3, <2>5, <3>1 DEF ChipGivesNext
    <3>3. /\ hxd'.mode = "give" /\ hxd'.bits = Bits(a) /\ Len(gave') = n + 1 /\ gave'[n + 1] = a
          /\ \A m \in 1 .. n : gave'[m] = gave[m]
      BY <1>3, <2>5, <3>2 DEF Gives, ChipTyped
    <3>4. Giving(n)'
      BY <2>5, <3>3 DEF Giving
    <3>5. gave # <<>> /\ gave' # <<>> /\ gave' \in Seq(Bytes)
      BY <1>3, <2>5, <3>2
    <3>6. ReadSoFar(n)'
      BY <1>3, <2>4, <2>5, <3>3, <3>5 DEF ReadSoFar
    <3>7. HasAcked(n)'
      BY <2>4, <3>4, <3>6 DEF HasAcked
    <3>8. Len(hxd'.bits) <= 8
      <4>1. Len(Bits(a)) = 8
        BY BitsAre
      <4>2. QED
        BY <3>3, <4>1
    <3>9. QED
      BY <2>3, <3>2, <3>5, <3>7, <3>8 DEF Driven, Held
  <2>6. CASE hxd.mode = "acked" /\ Len(gave) = n /\ n = ReadLen + 1
    <3>1. ChipGivesNext
      BY <2>3, <2>6 DEF ChipFalls
    <3>2. hxd' = [hxd EXCEPT !.mode = "ignore"] /\ UNCHANGED <<gave, frames, nacked>>
      BY <1>3, <2>6, <3>1 DEF ChipGivesNext
    <3>3. hxd'.mode = "ignore" /\ hxd'.bits = hxd.bits
      BY <1>3, <3>2 DEF ChipTyped
    <3>4. gave # <<>>
      BY <1>3, <2>6
    <3>5. Giving(n)' /\ ReadSoFar(n)'
      BY <1>3, <2>4, <2>6, <3>2, <3>3, <3>4 DEF Giving, ReadSoFar
    <3>6. HasAcked(n)'
      BY <2>4, <3>5 DEF HasAcked
    <3>7. QED
      BY <2>3, <3>2, <3>3, <3>6 DEF Driven, Held
  <2>7. CASE hxd.mode = "ignore" /\ nacked /\ gave = <<>>
    <3>1. UNCHANGED slave
      BY <2>3, <2>7 DEF ChipFalls, slave
    <3>2. n = 1
      BY <2>7 DEF ReadHolds
    <3>3. Giving(n)' /\ ReadSoFar(n)'
      BY <1>4, <2>4, <2>7, <3>1, <3>2 DEF Giving, slave
    <3>4. HasAcked(n)'
      BY <2>4, <3>3 DEF HasAcked
    <3>5. QED
      BY <2>3, <3>1, <3>4 DEF Driven, Held, slave
  <2>8. QED
    BY <1>3, <2>5, <2>6, <2>7 DEF Holds, Width, ReadHolds
<1>11. QED
  BY <1>3, <1>5, <1>6, <1>7, <1>8, <1>9, <1>10

LEMMA HasAckedStep ==
  ASSUME WireTypes, NEW n, HasAcked(n), step < 52, Does(ReadData[step + 1])
  PROVE  HasAcked(n)' /\ step' = 52 /\ UNCHANGED <<slave, got, refused, fought>>
<1>1. PICK p : p = ReadData
  OBVIOUS
<1>2. p[52] = "wait"
  BY <1>1, ReadIs DEF ReadTable
<1>3. step = 51 /\ scl = 0 /\ Drives(0) /\ Giving(n) /\ ReadSoFar(n)
  BY DEF HasAcked
<1>4. Does("wait")
  BY <1>1, <1>2, <1>3
<1>5. /\ fought' = fought /\ step' = step + 1 /\ UNCHANGED <<got, lines, slave>> /\ Held
      /\ pull = Wants
  BY <1>3, <1>4, Waits DEF Drives, Fight, WireTypes
<1>6. Still' /\ Giving(n)' /\ ReadSoFar(n)' /\ Drives(0)' /\ scl' = 0
  BY <1>3, <1>5 DEF slave, lines, Held, Giving, Still, Wants, ReadSoFar, Drives
<1>7. HasAcked(n)'
  BY <1>3, <1>5, <1>6 DEF HasAcked
<1>8. QED
  BY <1>3, <1>5, <1>7 DEF Held

LEMMA InReadStep ==
  ASSUME WireTypes, Short, ReadLen \in Nat, Answers \subseteq Bytes, NEW n, ReadHolds(n),
         InRead(n), step < 52, Does(ReadData[step + 1])
  PROVE  /\ InRead(n)' /\ Short' /\ UNCHANGED <<frames, nacked, refused, fought>>
         /\ gave # <<>> => gave' # <<>>
<1>1. ASSUME got' = got, hxd' = hxd \/ Len(hxd'.bits) <= 8 \/ hxd'.bits = hxd.bits PROVE Short'
  BY <1>1 DEF Short, Width
<1>2. CASE ReadsOn(n)
  <2>1. /\ ReadsOn(n)' \/ ReadsBit(n, 1, 0)'
        /\ got' = got \/ got' = Append(got, <<>>)
        /\ UNCHANGED <<slave, refused, fought>>
    BY <1>2, ReadsOnStep
  <2>2. 1 \in 1 .. Width /\ 0 \in 0 .. 4
    BY DEF Width
  <2>3. Short'
    <3>1. CASE got' = got
      BY <1>1, <2>1, <3>1 DEF slave
    <3>2. CASE got' = Append(got, <<>>)
      <4>1. /\ DOMAIN got' = 1 .. Len(got) + 1 /\ got'[Len(got) + 1] = <<>>
            /\ \A m \in 1 .. Len(got) : got'[m] = got[m]
            /\ DOMAIN got = 1 .. Len(got)
        BY <3>2 DEF WireTypes
      <4>2. Len(<<>>) = 0
        OBVIOUS
      <4>3. \A m \in DOMAIN got' : Len(got'[m]) <= Width
        BY <4>1, <4>2 DEF Short, Width
      <4>4. QED
        BY <2>1, <4>3 DEF Short, slave
    <3>3. QED
      BY <2>1, <3>1, <3>2
  <2>4. QED
    BY <2>1, <2>2, <2>3 DEF InRead, slave
<1>3. ASSUME NEW k \in 1 .. Width, NEW j \in 0 .. 4, ReadsBit(n, k, j)
      PROVE  /\ InRead(n)' /\ Short' /\ UNCHANGED <<frames, nacked, refused, fought>>
             /\ gave # <<>> => gave' # <<>>
  <2>1. k \in 1 .. 8
    BY DEF Width
  <2>2. CASE j # 4
    <3>1. j \in 0 .. 3 /\ j + 1 \in 0 .. 4
      BY <2>2
    <3>2. ReadsBit(n, k, j + 1)' /\ Short' /\ UNCHANGED <<frames, gave, nacked, refused, fought>>
      BY <1>3, <2>1, <3>1, BitRead
    <3>3. QED
      BY <3>1, <3>2 DEF InRead
  <2>3. CASE j = 4
    <3>1. /\ IF k = 8 THEN Acks(n)' ELSE ReadsBit(n, k + 1, 0)'
          /\ UNCHANGED <<slave, got, refused, fought>>
      BY <1>3, <2>1, <2>3, LastOfBit
    <3>2. k # 8 => k + 1 \in 1 .. Width /\ 0 \in 0 .. 4
      BY <2>1 DEF Width
    <3>3. QED
      BY <1>1, <3>1, <3>2 DEF InRead, slave
  <2>4. QED
    BY <2>2, <2>3
<1>4. CASE Acks(n)
  BY <1>1, <1>4, AcksStep DEF InRead
<1>5. CASE HasAcked(n)
  BY <1>1, <1>5, HasAckedStep DEF InRead, slave
<1>6. QED
  BY <1>2, <1>3, <1>4, <1>5 DEF InRead

-----------------------------------------------------------------------------
(* Opening, waking, start and stop                                         *)

Told == <<frames, gave, nacked, got, refused>>

LEMMA InOpenStep ==
  ASSUME WireTypes, Short, InOpen, step < 3, Does(OpenPins[step + 1])
  PROVE  InOpen' /\ Short' /\ UNCHANGED <<Told, fought>>
<1>1. PICK p : p = OpenPins
  OBVIOUS
<1>2. p[1] = "out" /\ p[2] = "scl1" /\ p[3] = "sda1"
  BY <1>1 DEF OpenPins
<1>3. /\ step \in 0 .. 2 /\ scl = 1 /\ out = TRUE /\ latch = 1 /\ pull = FALSE /\ hxd.mode = "idle"
      /\ sda = 1
  BY DEF WireTypes, Levelled, Levels, InOpen, Quiet, Drives
<1>4. Moves(1, TRUE, 1)
  <2>1. CASE step = 0
    <3>1. Does("out")
      BY <1>1, <1>2, <2>1
    <3>2. Moves(scl, TRUE, latch)
      BY ONLY <3>1, DrivesOut
    <3>3. QED
      BY <1>3, <3>2
  <2>2. CASE step = 1
    <3>1. Does("scl1")
      BY <1>1, <1>2, <2>2
    <3>2. Moves(1, out, latch)
      BY ONLY <3>1, DrivesScl1
    <3>3. QED
      BY <1>3, <3>2
  <2>3. CASE step = 2
    <3>1. Does("sda1")
      BY <1>1, <1>2, <2>3
    <3>2. Moves(scl, out, 1)
      BY ONLY <3>1, DrivesSda1
    <3>3. QED
      BY <1>3, <3>2
  <2>4. step = 0 \/ step = 1 \/ step = 2
    BY <1>3
  <2>5. QED
    BY ONLY <2>1, <2>2, <2>3, <2>4
<1>5. Driven(TRUE, 1) /\ scl' = 1 /\ (sda' = sda => UNCHANGED slave)
  BY ONLY <1>3, <1>4, StaysHigh
<1>6. sda' = 1
  BY <1>3, <1>5 DEF Driven, Levels
<1>7. UNCHANGED slave /\ step' \in 0 .. 3 /\ Quiet' /\ got' = got
  BY <1>3, <1>5, <1>6 DEF Driven, Held, Quiet, Drives, slave
<1>8. QED
  BY <1>5, <1>7 DEF InOpen, Short, Told, Driven, Held, slave

LEMMA InWakeStep ==
  ASSUME WireTypes, Short, InWake, step < 5, Does(WakePins[step + 1])
  PROVE  InWake' /\ Short' /\ UNCHANGED <<Told, fought>>
<1>1. PICK p : p = WakePins
  OBVIOUS
<1>2. p[1] = "wait" /\ p[2] = "scl0" /\ p[3] = "wait" /\ p[4] = "scl1" /\ p[5] = "wait"
  BY <1>1 DEF WakePins
<1>3. /\ step \in 0 .. 4 /\ scl = (IF step \in {2, 3} THEN 0 ELSE 1)
      /\ out = TRUE /\ latch = 1 /\ pull = FALSE /\ hxd.mode = "idle"
  BY DEF WireTypes, InWake, Drives
<1>4. CASE step \in {0, 2, 4}
  <2>1. Does("wait")
    BY <1>1, <1>2, <1>4
  <2>2. fought' = fought /\ step' = step + 1 /\ UNCHANGED <<got, lines, slave>> /\ Held
    BY <1>3, <2>1, Waits DEF Fight, WireTypes
  <2>3. QED
    BY <1>3, <1>4, <2>2 DEF InWake, Drives, Short, Told, Held, slave, lines
<1>5. CASE step = 1
  <2>1. Does("scl0") /\ scl = 1
    BY <1>1, <1>2, <1>3, <1>5
  <2>2. Moves(0, out, latch)
    BY ONLY <2>1, DrivesScl0
  <2>3. Driven(out, latch) /\ scl' = 0 /\ ChipFalls
    BY ONLY <2>1, <2>2, Falls
  <2>4. UNCHANGED slave
    BY <1>3, <2>3 DEF ChipFalls
  <2>5. QED
    BY <1>3, <1>5, <2>3, <2>4 DEF InWake, Drives, Short, Told, Driven, Held, slave
<1>6. CASE step = 3
  <2>1. Does("scl1") /\ scl = 0
    BY <1>1, <1>2, <1>3, <1>6
  <2>2. Moves(1, out, latch)
    BY ONLY <2>1, DrivesScl1
  <2>3. Driven(out, latch) /\ scl' = 1 /\ ChipClocks(sda')
    BY ONLY <2>1, <2>2, Rises
  <2>4. UNCHANGED slave
    BY <1>3, <2>3 DEF ChipClocks, slave
  <2>5. QED
    BY <1>3, <1>6, <2>3, <2>4 DEF InWake, Drives, Short, Told, Driven, Held, slave
<1>7. QED
  BY <1>3, <1>4, <1>5, <1>6

LEMMA InStartStep ==
  ASSUME WireTypes, Short, NEW before \in Seq(Seq(Bytes)), InStart(before), step < 8,
         Does(StartPins[step + 1])
  PROVE  InStart(before)' /\ Short' /\ UNCHANGED <<gave, nacked, got, refused, fought>>
<1>1. PICK p : p = StartPins
  OBVIOUS
<1>2. /\ p[1] = "out" /\ p[2] = "scl1" /\ p[3] = "sda1" /\ p[4] = "wait" /\ p[5] = "sda0"
      /\ p[6] = "wait" /\ p[7] = "scl0" /\ p[8] = "wait"
  BY <1>1 DEF StartPins
<1>3. /\ step \in 0 .. 7 /\ ChipTyped /\ pull = FALSE /\ out \in BOOLEAN /\ latch \in {0, 1}
      /\ scl \in {0, 1} /\ frames \in Seq(Seq(Bytes)) /\ fought \in BOOLEAN
      /\ sda \in Levels(out, latch, FALSE)
  <2>1. pull = FALSE /\ sda \in Levels(out, latch, pull)
    BY DEF WireTypes, Levelled, InStart
  <2>2. sda \in Levels(out, latch, FALSE)
    BY <2>1
  <2>3. step \in 0 .. 7
    BY DEF InStart
  <2>4. QED
    BY <2>1, <2>2, <2>3 DEF WireTypes
<1>4. ASSUME UNCHANGED slave, UNCHANGED got
      PROVE  /\ Short' /\ Wants' = Wants /\ Knows(before)' = Knows(before) /\ hxd' = hxd
             /\ Took(before, <<>>)' = Took(before, <<>>)
  BY <1>4 DEF slave, Short, Wants, Knows, Took
<1>5. CASE /\ step \in 0 .. 4 /\ ~Wants /\ Knows(before)
           /\ step = 0 => scl = 0 \/ Drives(1)
           /\ step \in 1 .. 4 => out
           /\ step = 1 => scl = 0 \/ Drives(1)
           /\ step \in 2 .. 4 => scl = 1
           /\ step \in {3, 4} => latch = 1
           /\ hxd.mode \in {"take", "ignore", "idle"}
           /\ hxd.mode = "take" => Len(hxd.bits) <= (IF scl = 1 THEN 1 ELSE 0)
  <2>1. CASE step = 0
    <3>1. Does("out")
      BY <1>1, <1>2, <2>1
    <3>2. Moves(scl, TRUE, latch)
      BY <3>1, DrivesOut
    <3>3. Driven(TRUE, latch) /\ scl' = scl /\ UNCHANGED slave
      <4>1. CASE scl = 0
        BY <3>2, <4>1, StaysLow
      <4>2. CASE scl = 1
        <5>1. out /\ latch = 1 /\ sda = 1
          BY <1>3, <1>5, <2>1, <4>2 DEF Drives, Levels
        <5>2. Driven(TRUE, latch) /\ scl' = 1 /\ (sda' = sda => UNCHANGED slave)
          BY <3>2, <4>2, StaysHigh
        <5>3. sda' = 1
          BY <1>3, <5>1, <5>2 DEF Driven, Levels
        <5>4. QED
          BY <4>2, <5>1, <5>2, <5>3
      <4>3. QED
        BY <1>3, <4>1, <4>2
    <3>4. /\ step' = 1 /\ out' = TRUE /\ latch' = latch /\ pull' = FALSE /\ UNCHANGED got
      BY <1>3, <2>1, <3>3 DEF Driven, Held
    <3>5. InStart(before)'
      BY <1>4, <1>5, <2>1, <3>3, <3>4 DEF InStart, Drives
    <3>6. QED
      BY <1>4, <3>3, <3>5 DEF Driven, Held, slave
  <2>2. CASE step = 1
    <3>1. Does("scl1") /\ out = TRUE
      BY <1>1, <1>2, <1>3, <1>5, <2>2
    <3>2. Moves(1, out, latch)
      BY <3>1, DrivesScl1
    <3>3. CASE scl = 0
      <4>1. Driven(out, latch) /\ scl' = 1 /\ ChipClocks(sda')
        BY <3>2, <3>3, Rises
      <4>2. sda' \in {0, 1}
        BY <1>3, <4>1 DEF Driven, Levels
      <4>3. CASE hxd.mode = "take"
        <5>1. hxd' = [hxd EXCEPT !.bits = Append(@, sda')] /\ UNCHANGED <<frames, gave, nacked>>
          BY <4>1, <4>3 DEF ChipClocks
        <5>2. hxd'.mode = "take" /\ hxd'.bits = Append(hxd.bits, sda') /\ Len(hxd.bits) = 0
          BY <1>3, <1>5, <3>3, <4>3, <5>1 DEF ChipTyped
        <5>3. Len(hxd'.bits) = 1
          BY <1>3, <4>2, <5>2 DEF ChipTyped
        <5>4. step' = 2 /\ out' = TRUE /\ pull' = FALSE /\ got' = got
          BY <1>3, <2>2, <3>1, <4>1 DEF Driven, Held
        <5>5. ~Wants' /\ Knows(before)' /\ Short'
          BY <1>5, <5>1, <5>2, <5>3, <5>4 DEF Wants, Knows, Short, Width
        <5>6. InStart(before)'
          BY <4>1, <5>2, <5>3, <5>4, <5>5 DEF InStart
        <5>7. QED
          BY <4>1, <5>1, <5>5, <5>6 DEF Driven, Held
      <4>4. CASE hxd.mode # "take"
        <5>1. UNCHANGED slave
          BY <1>5, <4>1, <4>4 DEF ChipClocks, slave
        <5>2. step' = 2 /\ out' = TRUE /\ pull' = FALSE /\ got' = got
          BY <1>3, <2>2, <3>1, <4>1 DEF Driven, Held
        <5>3. InStart(before)'
          BY <1>4, <1>5, <4>1, <4>4, <5>1, <5>2 DEF InStart
        <5>4. QED
          BY <1>4, <4>1, <5>1, <5>2, <5>3 DEF Driven, Held, slave
      <4>5. QED
        BY <4>3, <4>4
    <3>4. CASE scl = 1
      <4>1. latch = 1 /\ sda = 1
        BY <1>3, <1>5, <2>2, <3>1, <3>4 DEF Drives, Levels
      <4>2. Driven(out, latch) /\ scl' = 1 /\ (sda' = sda => UNCHANGED slave)
        BY <3>2, <3>4, StaysHigh
      <4>3. UNCHANGED slave
        BY <1>3, <3>1, <4>1, <4>2 DEF Driven, Levels
      <4>4. step' = 2 /\ out' = TRUE /\ pull' = FALSE /\ got' = got
        BY <1>3, <2>2, <3>1, <4>2 DEF Driven, Held
      <4>5. InStart(before)'
        BY <1>4, <1>5, <3>4, <4>2, <4>3, <4>4 DEF InStart
      <4>6. QED
        BY <1>4, <4>2, <4>3, <4>4, <4>5 DEF Driven, Held, slave
    <3>5. QED
      BY <1>3, <3>3, <3>4
  <2>3. CASE step = 2
    <3>1. Does("sda1") /\ out = TRUE /\ scl = 1 /\ sda = latch
      BY <1>1, <1>2, <1>3, <1>5, <2>3 DEF Levels
    <3>2. Moves(1, out, 1)
      BY <3>1, DrivesSda1
    <3>3. /\ Driven(out, 1) /\ scl' = 1 /\ (sda = 0 /\ sda' = 1 => ChipStops)
          /\ sda' = sda => UNCHANGED slave
      BY <3>1, <3>2, StaysHigh
    <3>4. /\ sda' = 1 /\ step' = 3 /\ out' = TRUE /\ latch' = 1 /\ pull' = FALSE
          /\ got' = got
      BY <1>3, <2>3, <3>1, <3>3 DEF Driven, Held, Levels
    <3>5. CASE sda = 1
      <4>1. UNCHANGED slave
        BY <3>3, <3>4, <3>5
      <4>2. InStart(before)'
        BY <1>4, <1>5, <2>3, <3>1, <3>3, <3>4, <4>1 DEF InStart
      <4>3. QED
        BY <1>4, <3>3, <3>4, <4>1, <4>2 DEF Driven, Held, slave
    <3>6. CASE sda = 0
      <4>1. ChipStops
        BY <3>3, <3>4, <3>6
      <4>2. hxd'.mode = "idle" /\ hxd'.bits = <<>> /\ Len(<<>>) = 0
        BY <4>1 DEF ChipStops
      <4>3. ~Wants' /\ Knows(before)' /\ Short'
        BY <1>5, <3>4, <4>1, <4>2 DEF Wants, Knows, Short, ChipStops, Width
      <4>4. InStart(before)'
        BY <3>3, <3>4, <4>2, <4>3 DEF InStart
      <4>5. QED
        BY <3>3, <3>4, <4>1, <4>3, <4>4 DEF Driven, Held, ChipStops
    <3>7. QED
      BY <1>3, <3>1, <3>5, <3>6
  <2>4. CASE step = 3
    <3>1. Does("wait")
      BY <1>1, <1>2, <2>4
    <3>2. fought' = fought /\ step' = 4 /\ UNCHANGED <<got, lines, slave>> /\ Held
      BY <1>3, <2>4, <3>1, Waits DEF Fight
    <3>3. InStart(before)'
      BY <1>3, <1>4, <1>5, <2>4, <3>2 DEF InStart, Held, lines
    <3>4. QED
      BY <1>4, <3>2, <3>3 DEF Held, slave
  <2>5. CASE step = 4
    <3>1. Does("sda0") /\ out = TRUE /\ scl = 1 /\ latch = 1 /\ sda = 1
      BY <1>1, <1>2, <1>3, <1>5, <2>5 DEF Levels
    <3>2. Moves(1, out, 0)
      BY <3>1, DrivesSda0
    <3>3. Driven(out, 0) /\ scl' = 1 /\ (sda = 1 /\ sda' = 0 => ChipStarts)
      BY <3>1, <3>2, StaysHigh
    <3>4. /\ sda' = 0 /\ step' = 5 /\ out' = TRUE /\ latch' = 0 /\ pull' = FALSE
          /\ got' = got
      BY <1>3, <2>5, <3>1, <3>3 DEF Driven, Held, Levels
    <3>5. /\ hxd' = [mode |-> "take", bits |-> <<>>, reads |-> FALSE]
          /\ frames' = Append(frames, <<>>) /\ UNCHANGED <<gave, nacked>>
      BY <3>1, <3>3, <3>4 DEF ChipStarts
    <3>6. frames' # <<>> /\ frames'[Len(frames')] = <<>>
      <4>1. PICK none \in Seq(Bytes) : none = <<>>
        BY NothingInIt
      <4>2. Append(frames, none) # <<>> /\ Append(frames, none)[Len(Append(frames, none))] = none
        BY <1>3, LastAppended
      <4>3. QED
        BY <3>5, <4>1, <4>2
    <3>7. Took(before, <<>>)'
      BY <1>5, <3>5, <3>6 DEF Took, Knows
    <3>8. Len(hxd'.bits) = 0
      BY <3>5
    <3>9. InStart(before)' /\ Short'
      BY <3>3, <3>4, <3>5, <3>7, <3>8 DEF InStart, Drives, Short, Width
    <3>10. QED
      BY <3>3, <3>4, <3>5, <3>9 DEF Driven, Held
  <2>6. QED
    BY <1>5, <2>1, <2>2, <2>3, <2>4, <2>5
<1>6. CASE /\ step \in 5 .. 7
           /\ scl = (IF step \in {5, 6} THEN 1 ELSE 0) /\ Drives(0)
           /\ hxd = [mode |-> "take", bits |-> <<>>, reads |-> FALSE]
           /\ Took(before, <<>>)
  <2>1. CASE step \in {5, 7}
    <3>1. Does("wait")
      BY <1>1, <1>2, <2>1
    <3>2. fought' = fought /\ step' = step + 1 /\ UNCHANGED <<got, lines, slave>> /\ Held
      BY <1>3, <3>1, Waits DEF Fight
    <3>3. step' \in 5 .. 8 /\ scl' = (IF step' \in {5, 6} THEN 1 ELSE 0) /\ Drives(0)' /\ ~pull'
      BY <1>3, <1>6, <2>1, <3>2 DEF Held, lines, Drives
    <3>4. InStart(before)'
      BY <1>4, <1>6, <3>2, <3>3 DEF InStart
    <3>5. QED
      BY <1>4, <3>2, <3>4 DEF Held, slave
  <2>2. CASE step = 6
    <3>1. Does("scl0") /\ scl = 1
      BY <1>1, <1>2, <1>6, <2>2
    <3>2. Moves(0, out, latch)
      BY <3>1, DrivesScl0
    <3>3. Driven(out, latch) /\ scl' = 0 /\ ChipFalls
      BY <3>1, <3>2, Falls
    <3>4. UNCHANGED slave
      <4>1. Len(<<>>) # Width
        BY DEF Width
      <4>2. QED
        BY <1>6, <3>3, <4>1 DEF ChipFalls
    <3>5. step' = 7 /\ Drives(0)' /\ ~pull' /\ got' = got
      BY <1>3, <1>6, <2>2, <3>3 DEF Driven, Held, Drives
    <3>6. InStart(before)'
      BY <1>4, <1>6, <3>3, <3>4, <3>5 DEF InStart
    <3>7. QED
      BY <1>4, <3>3, <3>4, <3>5, <3>6 DEF Driven, Held, slave
  <2>3. QED
    BY <1>6, <2>1, <2>2
<1>7. QED
  BY <1>3, <1>5, <1>6 DEF InStart


LEMMA InStopStep ==
  ASSUME WireTypes, Short, ~fought, InStop, step < 8, Does(StopPins[step + 1])
  PROVE  /\ \/ InStop' /\ ~fought'
            \/ refused /\ step' = 8 /\ scl' = 1 /\ Drives(1)' /\ fought'
         /\ Short' /\ UNCHANGED Told
<1>1. PICK p : p = StopPins
  OBVIOUS
<1>2. /\ p[1] = "out" /\ p[2] = "scl0" /\ p[3] = "sda0" /\ p[4] = "wait" /\ p[5] = "scl1"
      /\ p[6] = "wait" /\ p[7] = "sda1" /\ p[8] = "wait"
  BY <1>1 DEF StopPins
<1>3. /\ step \in 0 .. 7 /\ ChipTyped /\ out \in BOOLEAN /\ latch \in {0, 1}
      /\ sda \in Levels(out, latch, pull) /\ pull \in BOOLEAN
      /\ scl = (IF step >= 5 THEN 1 ELSE 0) /\ (step >= 1 => out = TRUE)
      /\ step \in 3 .. 6 => latch = 0
      /\ step = 7 => latch = 1
      /\ step <= 6 => Still /\ (Sends \/ hxd.mode \in {"take", "ignore"})
      /\ step = 7 => hxd.mode = "idle" \/ (Sends /\ Wants)
      /\ hxd.mode = "take" => Len(hxd.bits) <= scl
  BY DEF WireTypes, Levelled, InStop
<1>4. ASSUME UNCHANGED slave, UNCHANGED got, UNCHANGED refused
      PROVE  Short' /\ Wants' = Wants /\ hxd' = hxd /\ Sends' = Sends /\ UNCHANGED Told
  BY <1>4 DEF slave, Short, Wants, Sends, Told
<1>5. CASE step = 0
  <2>1. Does("out") /\ scl = 0
    BY <1>1, <1>2, <1>3, <1>5
  <2>2. Moves(0, TRUE, latch)
    BY ONLY <2>1, DrivesOut
  <2>3. Driven(TRUE, latch) /\ scl' = 0 /\ UNCHANGED slave
    BY ONLY <2>1, <2>2, StaysLow
  <2>4. /\ step' = 1 /\ out' = TRUE /\ pull' = pull
        /\ got' = got /\ refused' = refused /\ fought' = fought
    BY <1>5, <2>3 DEF Driven, Held
  <2>5. InStop'
    BY <1>3, <1>4, <1>5, <2>1, <2>3, <2>4 DEF InStop, Still
  <2>6. QED
    BY <1>4, <2>3, <2>4, <2>5
<1>6. CASE step = 1
  <2>1. Does("scl0") /\ scl = 0 /\ out = TRUE
    BY <1>1, <1>2, <1>3, <1>6
  <2>2. Moves(0, out, latch)
    BY ONLY <2>1, DrivesScl0
  <2>3. Driven(out, latch) /\ scl' = 0 /\ UNCHANGED slave
    BY ONLY <2>1, <2>2, StaysLow
  <2>4. /\ step' = 2 /\ out' = TRUE /\ pull' = pull
        /\ got' = got /\ refused' = refused /\ fought' = fought
    BY <1>6, <2>1, <2>3 DEF Driven, Held
  <2>5. InStop'
    BY <1>3, <1>4, <1>6, <2>1, <2>3, <2>4 DEF InStop, Still
  <2>6. QED
    BY <1>4, <2>3, <2>4, <2>5
<1>7. CASE step = 2
  <2>1. Does("sda0") /\ scl = 0 /\ out = TRUE
    BY <1>1, <1>2, <1>3, <1>7
  <2>2. Moves(0, out, 0)
    BY ONLY <2>1, DrivesSda0
  <2>3. Driven(out, 0) /\ scl' = 0 /\ UNCHANGED slave
    BY ONLY <2>1, <2>2, StaysLow
  <2>4. /\ step' = 3 /\ out' = TRUE /\ latch' = 0 /\ pull' = pull
        /\ got' = got /\ refused' = refused /\ fought' = fought
    BY <1>7, <2>1, <2>3 DEF Driven, Held
  <2>5. InStop'
    BY <1>3, <1>4, <1>7, <2>1, <2>3, <2>4 DEF InStop, Still
  <2>6. QED
    BY <1>4, <2>3, <2>4, <2>5
<1>8. CASE step \in {3, 5}
  <2>1. Does("wait")
    BY <1>1, <1>2, <1>8
  <2>2. /\ ~fought' /\ step' = step + 1 /\ UNCHANGED <<got, lines, slave>> /\ Held
        /\ pull = Wants
    <3>1. ~Fight
      BY <1>3, <1>8 DEF Fight
    <3>2. /\ fought' = (fought \/ Fight) /\ step' = step + 1
          /\ UNCHANGED <<got, lines, slave>> /\ Held /\ pull = Wants
      BY <2>1, Waits
    <3>3. ~fought'
      BY <3>1, <3>2, Zenon
    <3>4. QED
      BY <3>2, <3>3
  <2>3. Still' /\ latch' = 0 /\ out' = TRUE /\ scl' = (IF step' >= 5 THEN 1 ELSE 0)
    BY <1>3, <1>4, <1>8, <2>2 DEF Still, Held, lines
  <2>4. InStop'
    BY <1>3, <1>4, <1>8, <2>2, <2>3 DEF InStop, Held, lines
  <2>5. QED
    BY <1>4, <2>2, <2>4 DEF Held
<1>9. CASE step = 4
  <2>1. Does("scl1") /\ scl = 0 /\ out = TRUE /\ latch = 0
    BY <1>1, <1>2, <1>3, <1>9
  <2>2. Moves(1, out, latch)
    BY ONLY <2>1, DrivesScl1
  <2>3. Driven(out, latch) /\ scl' = 1 /\ ChipClocks(sda')
    BY ONLY <2>1, <2>2, Rises
  <2>4. sda' = 0
    BY <2>1, <2>3 DEF Driven, Levels
  <2>5. /\ step' = 5 /\ out' = TRUE /\ latch' = 0 /\ pull' = pull
        /\ got' = got /\ refused' = refused /\ fought' = fought
    BY <1>9, <2>1, <2>3 DEF Driven, Held
  <2>6. CASE hxd.mode = "take"
    <3>1. hxd' = [hxd EXCEPT !.bits = Append(@, sda')] /\ UNCHANGED <<frames, gave, nacked>>
      BY <2>3, <2>6 DEF ChipClocks
    <3>2. hxd'.mode = "take" /\ hxd'.bits = Append(hxd.bits, 0) /\ Len(hxd.bits) = 0
      BY <1>3, <2>1, <2>4, <2>6, <3>1 DEF ChipTyped
    <3>3. Len(hxd'.bits) = 1
      BY <1>3, <3>2 DEF ChipTyped
    <3>4. Short' /\ UNCHANGED Told
      BY <2>5, <3>1, <3>3 DEF Short, Told, Width
    <3>5. Still'
      BY <1>3, <1>9, <2>5, <2>6, <3>2 DEF Still, Wants
    <3>6. InStop'
      BY <2>3, <2>5, <3>2, <3>3, <3>5 DEF InStop
    <3>7. QED
      BY <2>5, <3>4, <3>6
  <2>7. CASE hxd.mode # "take"
    <3>1. UNCHANGED slave
      BY <1>3, <1>9, <2>3, <2>7 DEF ChipClocks, slave, Sends
    <3>2. InStop'
      BY <1>3, <1>4, <1>9, <2>3, <2>5, <2>7, <3>1 DEF InStop, Still
    <3>3. QED
      BY <1>4, <2>5, <3>1, <3>2
  <2>8. QED
    BY <2>6, <2>7
<1>10. CASE step = 6
  <2>1. Does("sda1") /\ scl = 1 /\ out = TRUE /\ latch = 0 /\ sda = 0 /\ Still
    BY <1>1, <1>2, <1>3, <1>10 DEF Levels
  <2>2. Moves(1, out, 1)
    BY <2>1, DrivesSda1
  <2>3. /\ Driven(out, 1) /\ scl' = 1 /\ (sda = 0 /\ sda' = 1 => ChipStops)
        /\ sda' = sda => UNCHANGED slave
    BY <2>1, <2>2, StaysHigh
  <2>4. /\ step' = 7 /\ out' = TRUE /\ latch' = 1 /\ pull' = pull
        /\ got' = got /\ refused' = refused /\ fought' = fought
    BY <1>10, <2>1, <2>3 DEF Driven, Held
  <2>5. CASE sda' = 1
    <3>1. ChipStops
      BY <2>1, <2>3, <2>5
    <3>2. hxd'.mode = "idle" /\ hxd'.bits = <<>> /\ Len(<<>>) = 0
      BY <3>1 DEF ChipStops
    <3>3. Short' /\ UNCHANGED Told
      BY <2>4, <3>1, <3>2 DEF Short, Told, ChipStops, Width
    <3>4. InStop'
      BY <2>3, <2>4, <3>2 DEF InStop
    <3>5. QED
      BY <2>4, <3>3, <3>4
  <2>6. CASE sda' # 1
    <3>1. sda' = 0 /\ pull
      <4>1. sda' \in Levels(out, 1, pull)
        BY <2>3 DEF Driven
      <4>2. QED
        BY <1>3, <2>1, <2>6, <4>1 DEF Levels
    <3>2. UNCHANGED slave
      BY <2>1, <2>3, <3>1
    <3>3. Wants /\ Sends
      <4>1. pull = Wants
        BY <2>1 DEF Still
      <4>2. Wants
        BY <3>1, <4>1, Zenon
      <4>3. Sends \/ hxd.mode \in {"take", "ignore"}
        BY <1>3, <1>10
      <4>4. QED
        BY <4>2, <4>3 DEF Wants
    <3>4. InStop'
      BY <1>4, <2>3, <2>4, <3>2, <3>3 DEF InStop, Sends
    <3>5. QED
      BY <1>4, <2>4, <3>2, <3>4
  <2>7. QED
    BY <2>5, <2>6
<1>11. CASE step = 7
  <2>1. Does("wait")
    BY <1>1, <1>2, <1>11
  <2>2. /\ fought' = (fought \/ Fight) /\ step' = 8 /\ UNCHANGED <<got, lines, slave>> /\ Held
        /\ pull = Wants
    BY <1>11, <2>1, Waits
  <2>3. scl' = 1 /\ out' = TRUE /\ latch' = 1 /\ pull' = pull
    BY <1>3, <1>11, <2>2 DEF Held, lines
  <2>4. CASE hxd.mode = "idle"
    <3>1. ~Wants /\ ~pull /\ ~fought'
      BY <2>2, <2>4 DEF Wants, Fight
    <3>2. InStop'
      BY <1>4, <2>2, <2>3, <2>4, <3>1 DEF InStop, Held
    <3>3. QED
      BY <1>4, <2>2, <3>1, <3>2 DEF Held
  <2>5. CASE Sends /\ Wants
    <3>1. fought' /\ refused
      <4>1. pull
        BY <2>2, <2>5, Zenon
      <4>2. Fight
        BY <1>3, <1>11, <4>1 DEF Fight
      <4>3. fought'
        BY <2>2, <4>2, Zenon
      <4>4. QED
        BY <2>5, <4>3 DEF Sends
    <3>2. QED
      BY <1>4, <2>2, <2>3, <3>1 DEF Held, Drives
  <2>6. QED
    BY <1>3, <1>11, <2>4, <2>5
<1>12. QED
  BY <1>3, <1>5, <1>6, <1>7, <1>8, <1>9, <1>10, <1>11

-----------------------------------------------------------------------------
(* The types                                                               *)

HxdTypes(new) ==
  /\ new \in [mode : Modes, bits : Seq({0, 1}), reads : BOOLEAN]
  /\ new.mode = "give" => new.bits # <<>>

LEMMA NotNothing == ASSUME NEW E, NEW s \in Seq(E), Len(s) # 0 PROVE s # <<>>
OBVIOUS

LEMMA NothingLeft == ASSUME NEW E, NEW s \in Seq(E), Len(s) = 0 PROVE s = <<>>
OBVIOUS

LEMMA TakesTyped ==
  ASSUME SlaveTypes, ChipTakes, hxd.mode = "take", Len(hxd.bits) = Width
  PROVE  SlaveTypes'
<1>1. /\ hxd \in [mode : Modes, bits : Seq({0, 1}), reads : BOOLEAN]
      /\ hxd.mode = "give" => hxd.bits # <<>>
      /\ hxd.mode \in {"take", "ack"} => frames # <<>>
      /\ frames \in Seq(Seq(Bytes)) /\ gave \in Seq(Bytes) /\ nacked \in BOOLEAN
  BY DEF SlaveTypes, ChipTyped
<1>2. PICK byte \in Bytes : byte = Value(hxd.bits)
  BY <1>1, ValueIsByte DEF Width
<1>3. /\ frames' = [frames EXCEPT ![Len(frames)] = Append(@, byte)]
      /\ gave' = gave
  BY <1>2 DEF ChipTakes
<1>4. frames' \in Seq(Seq(Bytes)) /\ frames' # <<>>
  <2>1. PICK n \in 1 .. Len(frames) : n = Len(frames)
    BY <1>1
  <2>2. frames[n] \in Seq(Bytes)
    BY <1>1, <2>1, ElementsAre
  <2>3. PICK next \in Seq(Bytes) : next = Append(frames[n], byte)
    BY <2>2, NodesOfAppend
  <2>4. frames' = [frames EXCEPT ![n] = next]
    BY <1>3, <2>1, <2>3
  <2>5. /\ [frames EXCEPT ![n] = next] \in Seq(Seq(Bytes))
        /\ Len([frames EXCEPT ![n] = next]) = Len(frames)
    BY ONLY <1>1, n \in 1 .. Len(frames), next \in Seq(Bytes), ExceptSeq
  <2>6. Len(frames') # 0
    BY <1>1, <2>4, <2>5
  <2>7. QED
    BY <2>4, <2>5, <2>6, NotNothing
<1>5. HxdTypes(hxd') /\ nacked' \in BOOLEAN
  <2>1. CASE /\ hxd' = [mode |-> "ack", bits |-> <<>>,
                        reads |-> hxd.reads
                          \/ (frames[Len(frames)] = <<>> /\ Value(hxd.bits) = ReadAddress)]
             /\ nacked' = nacked
    BY <1>1, <2>1 DEF HxdTypes, Modes
  <2>2. CASE hxd' = [hxd EXCEPT !.mode = "ignore"] /\ nacked' = TRUE
    BY <1>1, <2>2 DEF HxdTypes, Modes
  <2>3. QED
    BY <2>1, <2>2 DEF ChipTakes
<1>6. QED
  BY <1>1, <1>3, <1>4, <1>5 DEF HxdTypes, SlaveTypes, ChipTyped

LEMMA FallsTyped ==
  ASSUME Answers \subseteq Bytes, SlaveTypes, ChipFalls
  PROVE  SlaveTypes'
<1>1. /\ hxd \in [mode : Modes, bits : Seq({0, 1}), reads : BOOLEAN]
      /\ hxd.mode = "give" => hxd.bits # <<>>
      /\ hxd.mode \in {"take", "ack"} => frames # <<>>
      /\ frames \in Seq(Seq(Bytes)) /\ gave \in Seq(Bytes) /\ nacked \in BOOLEAN
  BY DEF SlaveTypes, ChipTyped
<1>2. CASE ChipTakes /\ hxd.mode = "take" /\ Len(hxd.bits) = Width
  BY <1>2, TakesTyped
<1>3. CASE hxd.mode = "ack" /\ hxd' = [hxd EXCEPT !.mode = "take"] /\ UNCHANGED <<frames, gave, nacked>>
  BY <1>1, <1>3 DEF SlaveTypes, ChipTyped, Modes
<1>4. CASE ChipGivesNext
  <2>1. CASE hxd' = [hxd EXCEPT !.mode = "ignore"] /\ UNCHANGED <<frames, gave, nacked>>
    BY <1>1, <2>1 DEF SlaveTypes, ChipTyped, Modes
  <2>2. ASSUME NEW b \in Bytes, hxd' = Gives(b), gave' = Append(gave, b), UNCHANGED <<frames, nacked>>
        PROVE  SlaveTypes'
    <3>1. Bits(b) \in Seq({0, 1}) /\ Bits(b) # <<>>
      <4>1. Len(Bits(b)) = 8 /\ Len(<<>>) = 0
        BY BitsAre
      <4>2. QED
        BY <4>1, BitsAre
    <3>2. HxdTypes(hxd') /\ hxd'.mode = "give"
      BY <1>1, <2>2, <3>1 DEF Gives, HxdTypes, Modes
    <3>3. QED
      BY <1>1, <2>2, <3>2 DEF HxdTypes, SlaveTypes, ChipTyped
  <2>3. QED
    BY <1>4, <2>1, <2>2 DEF ChipGivesNext
<1>5. CASE ChipShifts /\ hxd.mode = "give"
  <2>1. hxd.bits \in Seq({0, 1}) /\ hxd.bits # <<>>
    BY <1>1, <1>5
  <2>2. Tail(hxd.bits) \in Seq({0, 1}) /\ (Len(hxd.bits) # 1 => Tail(hxd.bits) # <<>>)
    <3>1. Len(hxd.bits) \in Nat \ {0} /\ Len(<<>>) = 0
      BY <2>1
    <3>2. Tail(hxd.bits) \in Seq({0, 1}) /\ Len(Tail(hxd.bits)) = Len(hxd.bits) - 1
      BY <2>1
    <3>3. Len(hxd.bits) # 1 => Len(Tail(hxd.bits)) # 0
      BY <3>1, <3>2
    <3>4. QED
      BY <3>2, <3>3, NotNothing
  <2>3. HxdTypes(hxd')
    <3>1. CASE Len(hxd.bits) = 1
      <4>1. hxd' = [hxd EXCEPT !.mode = "acked", !.bits = <<>>]
        BY <1>5, <3>1 DEF ChipShifts
      <4>2. hxd' = [mode |-> "acked", bits |-> <<>>, reads |-> hxd.reads]
        BY <1>1, <4>1
      <4>3. QED
        BY <1>1, <4>2 DEF HxdTypes, Modes
    <3>2. CASE Len(hxd.bits) # 1
      BY <1>1, <1>5, <2>2, <3>2 DEF ChipShifts, HxdTypes
    <3>3. QED
      BY <3>1, <3>2
  <2>4. QED
    BY <1>1, <1>5, <2>3 DEF ChipShifts, HxdTypes, SlaveTypes, ChipTyped
<1>6. CASE UNCHANGED slave
  BY <1>1, <1>6 DEF slave, SlaveTypes, ChipTyped
<1>7. QED
  BY <1>2, <1>3, <1>4, <1>5, <1>6 DEF ChipFalls

LEMMA SeesTyped ==
  ASSUME Answers \subseteq Bytes, SlaveTypes, NEW a, NEW b \in {0, 1}, ChipSees(a, b)
  PROVE  SlaveTypes'
<1>1. /\ hxd \in [mode : Modes, bits : Seq({0, 1}), reads : BOOLEAN]
      /\ hxd.mode = "give" => hxd.bits # <<>>
      /\ hxd.mode \in {"take", "ack"} => frames # <<>>
      /\ frames \in Seq(Seq(Bytes)) /\ gave \in Seq(Bytes) /\ nacked \in BOOLEAN
  BY DEF SlaveTypes, ChipTyped
<1>2. CASE ChipStarts
  <2>1. Append(frames, <<>>) \in Seq(Seq(Bytes))
    BY <1>1
  <2>2. QED
    BY <1>1, <1>2, <2>1 DEF ChipStarts, SlaveTypes, ChipTyped, Modes
<1>3. CASE ChipStops
  BY <1>1, <1>3 DEF ChipStops, SlaveTypes, ChipTyped, Modes
<1>4. CASE ChipClocks(b)
  <2>1. HxdTypes(hxd')
    <3>1. CASE hxd.mode = "take"
      <4>1. Append(hxd.bits, b) \in Seq({0, 1})
        BY <1>1
      <4>2. hxd' = [hxd EXCEPT !.bits = Append(hxd.bits, b)]
        BY <1>4, <3>1 DEF ChipClocks
      <4>3. QED
        BY <1>1, <3>1, <4>1, <4>2 DEF HxdTypes
    <3>2. CASE hxd.mode # "take"
      BY <1>1, <1>4, <3>2 DEF ChipClocks, HxdTypes, Modes
    <3>3. QED
      BY <3>1, <3>2
  <2>2. QED
    BY <1>1, <1>4, <2>1 DEF ChipClocks, HxdTypes, SlaveTypes, ChipTyped
<1>5. CASE ChipFalls
  BY <1>5, FallsTyped
<1>6. CASE UNCHANGED slave
  BY <1>1, <1>6 DEF slave, SlaveTypes, ChipTyped
<1>7. QED
  BY <1>2, <1>3, <1>4, <1>5, <1>6 DEF ChipSees

LEMMA GotTyped ==
  ASSUME NEW g \in Seq(Seq({0, 1})), NEW level \in {0, 1}
  PROVE  [g EXCEPT ![Len(g)] = Append(@, level)] \in Seq(Seq({0, 1}))
<1>1. CASE g = <<>>
  <2>1. DOMAIN g = {}
    BY <1>1
  <2>2. [g EXCEPT ![Len(g)] = Append(@, level)] = g
    BY <2>1
  <2>3. QED
    BY <2>2
<1>2. CASE g # <<>>
  <2>1. PICK n \in 1 .. Len(g) : n = Len(g)
    BY <1>2
  <2>2. g[n] \in Seq({0, 1})
    BY <2>1, ElementsAre
  <2>3. PICK next \in Seq({0, 1}) : next = Append(g[n], level)
    BY <2>2, NodesOfAppend
  <2>4. [g EXCEPT ![Len(g)] = Append(@, level)] = [g EXCEPT ![n] = next]
    BY <2>1, <2>3
  <2>5. [g EXCEPT ![n] = next] \in Seq(Seq({0, 1}))
    BY ONLY g \in Seq(Seq({0, 1})), n \in 1 .. Len(g), next \in Seq({0, 1}), ExceptSeq
  <2>6. QED
    BY <2>4, <2>5
<1>3. QED
  BY <1>1, <1>2

LEMMA DriveTyped ==
  ASSUME Answers \subseteq Bytes, WireTypes, UNCHANGED <<pull, transfer, transfers>>, step' = step + 1,
         NEW a \in {0, 1}, NEW o \in BOOLEAN, NEW l \in {0, 1}, Drive(a, o, l)
  PROVE  WireTypes'
<1>1. sda' \in Levels(o, l, pull)
  BY DEF Drive
<1>2. sda' \in {0, 1}
  BY <1>1 DEF Levels, WireTypes
<1>3. SlaveTypes'
  BY <1>2, SeesTyped DEF Drive, WireTypes, SlaveTypes
<1>4. Levelled'
  BY <1>1 DEF Drive, Levelled
<1>5. QED
  BY <1>3, <1>4 DEF Drive, WireTypes, SlaveTypes

LEMMA PinTyped ==
  ASSUME Answers \subseteq Bytes, WireTypes, NEW act, Does(act)
  PROVE  WireTypes'
<1>1. Pin(act) /\ UNCHANGED <<pull, transfer, transfers>> /\ step' = step + 1
  BY DEF Does
<1>2. scl \in {0, 1} /\ out \in BOOLEAN /\ latch \in {0, 1}
  BY DEF WireTypes
<1>3. CASE \/ Drive(scl, TRUE, latch) \/ Drive(scl, FALSE, latch)
           \/ Drive(1, out, latch) \/ Drive(0, out, latch)
           \/ Drive(scl, out, 1) \/ Drive(scl, out, 0)
  BY <1>1, <1>2, <1>3, DriveTyped
<1>4. CASE fought' = (fought \/ Fight) /\ UNCHANGED <<lines, slave, got, refused>>
  BY <1>1, <1>4 DEF WireTypes, Levelled, ChipTyped, lines, slave
<1>5. CASE got' = Append(got, <<>>) /\ UNCHANGED <<lines, slave, refused, fought>>
  <2>1. got' \in Seq(Seq({0, 1}))
    BY <1>5 DEF WireTypes
  <2>2. QED
    BY <1>1, <1>5, <2>1 DEF WireTypes, Levelled, ChipTyped, lines, slave
<1>6. CASE /\ got' = [got EXCEPT ![Len(got)] = Append(@, sda)]
           /\ UNCHANGED <<lines, slave, refused, fought>>
  <2>1. sda \in {0, 1}
    BY DEF WireTypes, Levelled, Levels
  <2>2. got' \in Seq(Seq({0, 1}))
    BY <1>6, <2>1, GotTyped DEF WireTypes
  <2>3. QED
    BY <1>1, <1>6, <2>2 DEF WireTypes, Levelled, ChipTyped, lines, slave
<1>7. CASE UNCHANGED <<lines, slave, got, refused, fought>>
  BY <1>1, <1>7 DEF WireTypes, Levelled, ChipTyped, lines, slave
<1>8. QED
  BY <1>1, <1>3, <1>4, <1>5, <1>6, <1>7 DEF Pin

-----------------------------------------------------------------------------
(* The calls                                                               *)

LEMMA ScriptIs ==
  /\ \A name \in Names : Call(name) \in AllCalls /\ Call(name)[1] = name
  /\ \A b \in Bytes : Write(b) \in AllCalls /\ Write(b)[1] = "write"
  /\ Script[Call("open")] = OpenPins /\ Script[Call("wake")] = WakePins
  /\ Script[Call("start")] = StartPins /\ Script[Call("stop")] = StopPins
  /\ Script[Call("read")] = ReadData /\ Script[Call("fcs")] = <<>>
  /\ \A b \in Bytes : Script[Write(b)] = WriteData(b)
<1>1. \A name \in Names : Call(name) \in AllCalls /\ Call(name)[1] = name
  BY DEF AllCalls, Call
<1>2. ASSUME NEW b \in Bytes
      PROVE  Write(b) \in AllCalls /\ Write(b)[1] = "write" /\ Write(b)[2] = b
  BY DEF AllCalls, Write
<1>3. \A c \in AllCalls : Script[c] = Pins(c)
  BY DEF Script
<1>4. /\ "open" \in Names /\ "wake" \in Names /\ "start" \in Names /\ "stop" \in Names
      /\ "read" \in Names /\ "fcs" \in Names
  BY DEF Names
<1>5. Script[Call("open")] = OpenPins
  BY <1>1, <1>3, <1>4 DEF Pins
<1>6. Script[Call("wake")] = WakePins
  BY <1>1, <1>3, <1>4 DEF Pins
<1>7. Script[Call("start")] = StartPins
  BY <1>1, <1>3, <1>4 DEF Pins
<1>8. Script[Call("stop")] = StopPins
  BY <1>1, <1>3, <1>4 DEF Pins
<1>9. Script[Call("read")] = ReadData
  BY <1>1, <1>3, <1>4 DEF Pins
<1>10. Script[Call("fcs")] = <<>>
  BY <1>1, <1>3, <1>4 DEF Pins
<1>11. ASSUME NEW b \in Bytes PROVE Script[Write(b)] = WriteData(b)
  <2>1. PICK c \in AllCalls : c = Write(b) /\ c[1] = "write" /\ c[2] = b
    BY <1>2
  <2>2. Pins(c) = WriteData(c[2])
    BY <2>1 DEF Pins
  <2>3. QED
    BY <1>3, <2>1, <2>2
<1>12. QED
  BY <1>1, <1>2, <1>5, <1>6, <1>7, <1>8, <1>9, <1>10, <1>11

LEMMA LengthsAre ==
  /\ Len(OpenPins) = 3 /\ Len(WakePins) = 5 /\ Len(StartPins) = 8 /\ Len(StopPins) = 8
  /\ Len(ReadData) = 52 /\ \A b \in Bytes : Len(WriteData(b)) = 60
<1>1. Len(OpenPins) = 3 /\ Len(WakePins) = 5 /\ Len(StartPins) = 8 /\ Len(StopPins) = 8
  BY DEF OpenPins, WakePins, StartPins, StopPins
<1>2. Len(ReadData) = 52
  BY ReadIs DEF ReadTable
<1>3. ASSUME NEW b \in Bytes PROVE Len(WriteData(b)) = 60
  BY WriteIs DEF WriteTable
<1>4. QED
  BY <1>1, <1>2, <1>3

\* The calls from one on: it is the first, and the next come behind it.
LEMMA RestIs ==
  ASSUME NEW E, NEW all \in Seq(E), NEW at \in 1 .. Len(all)
  PROVE  Rest(all, at) # <<>> /\ Rest(all, at)[1] = all[at] /\ Tail(Rest(all, at)) = Rest(all, at + 1)
BY Suffix DEF Rest

LEMMA NoRest ==
  ASSUME NEW E, NEW all \in Seq(E)
  PROVE  Rest(all, Len(all) + 1) = <<>> /\ Rest(all, 1) = all
BY DEF Rest

LEMMA WriteCallsAre ==
  ASSUME NEW bytes \in Seq(Bytes)
  PROVE  /\ WriteCalls(bytes) \in Seq(AllCalls) /\ Len(WriteCalls(bytes)) = Len(bytes)
         /\ \A k \in 1 .. Len(bytes) : WriteCalls(bytes)[k] = Write(bytes[k]) /\ bytes[k] \in Bytes
<1>1. DOMAIN bytes = 1 .. Len(bytes) /\ Len(bytes) \in Nat
  OBVIOUS
<1>2. \A k \in 1 .. Len(bytes) : bytes[k] \in Bytes
  BY ElementsAre
<1>3. \A k \in 1 .. Len(bytes) : Write(bytes[k]) \in AllCalls
  BY <1>2, ScriptIs
<1>4. WriteCalls(bytes) = [k \in 1 .. Len(bytes) |-> Write(bytes[k])]
  BY <1>1 DEF WriteCalls
<1>5. PICK n \in Nat : n = Len(bytes)
  BY <1>1
<1>6. [k \in 1 .. n |-> Write(bytes[k])] \in Seq(AllCalls)
  BY <1>3, <1>5, IsASeq
<1>7. QED
  BY <1>2, <1>4, <1>5, <1>6

LEMMA WriteListIs ==
  ASSUME NEW t, t.kind = "write", t.bytes \in Seq(Bytes)
  PROVE  /\ Calls(t) \in Seq(AllCalls) /\ Len(Calls(t)) = Len(t.bytes) + 5
         /\ Calls(t)[1] = Call("open") /\ Calls(t)[2] = Call("wake") /\ Calls(t)[3] = Call("start")
         /\ \A k \in 1 .. Len(t.bytes) : Calls(t)[k + 3] = Write(t.bytes[k])
         /\ Calls(t)[Len(t.bytes) + 4] = Call("stop") /\ Calls(t)[Len(t.bytes) + 5] = Call("open")
<1>1. /\ Opening \in Seq(AllCalls) /\ Len(Opening) = 3
      /\ Opening[1] = Call("open") /\ Opening[2] = Call("wake") /\ Opening[3] = Call("start")
  <2>1. Call("open") \in AllCalls /\ Call("wake") \in AllCalls /\ Call("start") \in AllCalls
    BY ScriptIs DEF Names
  <2>2. QED
    BY <2>1 DEF Opening
<1>2. /\ Closing \in Seq(AllCalls) /\ Len(Closing) = 2
      /\ Closing[1] = Call("stop") /\ Closing[2] = Call("open")
  <2>1. Call("stop") \in AllCalls /\ Call("open") \in AllCalls
    BY ScriptIs DEF Names
  <2>2. QED
    BY <2>1 DEF Closing
<1>3. PICK w \in Seq(AllCalls), n \in Nat :
        /\ w = WriteCalls(t.bytes) /\ Len(w) = n /\ n = Len(t.bytes)
        /\ \A k \in 1 .. n : w[k] = Write(t.bytes[k])
  BY WriteCallsAre
<1>4. PICK u : u = w \o Closing
  OBVIOUS
<1>5. /\ u \in Seq(AllCalls) /\ Len(u) = Len(w) + Len(Closing)
      /\ Stands(u, 0, w, Len(w)) /\ Stands(u, Len(w), Closing, Len(Closing))
  <2>1. Closing \in Seq(AllCalls)
    BY <1>2
  <2>2. w \in Seq(AllCalls)
    BY <1>3
  <2>3. QED
    BY ONLY <2>1, <2>2, <1>4, TwoStand
<1>6. Len(u) = n + 2 /\ Stands(u, 0, w, n) /\ Stands(u, n, Closing, 2)
  BY <1>2, <1>3, <1>5
<1>7. PICK v : v = Opening \o u
  OBVIOUS
<1>8. /\ v \in Seq(AllCalls) /\ Len(v) = Len(Opening) + Len(u)
      /\ Stands(v, 0, Opening, Len(Opening)) /\ Stands(v, Len(Opening), u, Len(u))
  <2>1. Opening \in Seq(AllCalls)
    BY <1>1
  <2>2. u \in Seq(AllCalls)
    BY <1>5
  <2>3. QED
    BY ONLY <2>1, <2>2, <1>7, TwoStand
<1>9. Len(v) = n + 5 /\ Stands(v, 0, Opening, 3) /\ Stands(v, 3, u, n + 2)
  BY <1>1, <1>6, <1>8
<1>10. v = Calls(t)
  BY <1>3, <1>4, <1>7 DEF Calls
<1>11. v[1] = Call("open") /\ v[2] = Call("wake") /\ v[3] = Call("start")
  BY <1>1, <1>9 DEF Stands
<1>12. \A k \in 1 .. n + 2 : v[3 + k] = u[k]
  BY <1>9 DEF Stands
<1>13. \A k \in 1 .. n : u[0 + k] = w[k]
  BY <1>6 DEF Stands
<1>14. u[n + 1] = Call("stop") /\ u[n + 2] = Call("open")
  BY <1>2, <1>6 DEF Stands
<1>15. ASSUME NEW k \in 1 .. n PROVE v[k + 3] = Write(t.bytes[k])
  <2>1. k \in 1 .. n + 2 /\ 3 + k = k + 3 /\ 0 + k = k
    OBVIOUS
  <2>2. QED
    BY <1>3, <1>12, <1>13, <2>1
<1>16. v[n + 4] = Call("stop") /\ v[n + 5] = Call("open")
  <2>1. n + 1 \in 1 .. n + 2 /\ n + 2 \in 1 .. n + 2 /\ 3 + (n + 1) = n + 4 /\ 3 + (n + 2) = n + 5
    OBVIOUS
  <2>2. QED
    BY <1>12, <1>14, <2>1
<1>17. QED
  BY <1>3, <1>8, <1>9, <1>10, <1>11, <1>15, <1>16

LEMMA ReadListIs ==
  ASSUME NEW t, t.kind = "read"
  PROVE  /\ Calls(t) \in Seq(AllCalls) /\ Len(Calls(t)) = 9
         /\ Calls(t)[1] = Call("open") /\ Calls(t)[2] = Call("wake") /\ Calls(t)[3] = Call("start")
         /\ Calls(t)[4] = Write(WriteAddress) /\ Calls(t)[5] = Write(LearnedAt)
         /\ Calls(t)[6] = Call("start") /\ Calls(t)[7] = Write(ReadAddress)
         /\ Calls(t)[8] = Call("read") /\ Calls(t)[9] = Call("fcs")
<1>1. /\ Call("open") \in AllCalls /\ Call("wake") \in AllCalls /\ Call("start") \in AllCalls
      /\ Call("read") \in AllCalls /\ Call("fcs") \in AllCalls
  BY ScriptIs DEF Names
<1>2. /\ Write(WriteAddress) \in AllCalls /\ Write(LearnedAt) \in AllCalls
      /\ Write(ReadAddress) \in AllCalls
  BY ScriptIs DEF Bytes, WriteAddress, LearnedAt, ReadAddress
<1>3. PICK o : o = Opening
  OBVIOUS
<1>4. /\ o \in Seq(AllCalls) /\ Len(o) = 3
      /\ o[1] = Call("open") /\ o[2] = Call("wake") /\ o[3] = Call("start")
  BY <1>1, <1>3 DEF Opening
<1>5. PICK w : w = WriteCalls(<<WriteAddress, LearnedAt>>)
  OBVIOUS
<1>6. w \in Seq(AllCalls) /\ Len(w) = 2 /\ w[1] = Write(WriteAddress) /\ w[2] = Write(LearnedAt)
  <2>1. PICK b : b = <<WriteAddress, LearnedAt>>
    OBVIOUS
  <2>2. DOMAIN b = 1 .. 2 /\ b[1] = WriteAddress /\ b[2] = LearnedAt
    BY <2>1
  <2>3. w = <<Write(WriteAddress), Write(LearnedAt)>>
    BY <1>5, <2>1, <2>2 DEF WriteCalls
  <2>4. QED
    BY <1>2, <2>3
<1>7. PICK a : a = <<Call("start"), Write(ReadAddress)>>
  OBVIOUS
<1>8. a \in Seq(AllCalls) /\ Len(a) = 2 /\ a[1] = Call("start") /\ a[2] = Write(ReadAddress)
  BY <1>1, <1>2, <1>7
<1>9. PICK f : f = <<Call("read"), Call("fcs")>>
  OBVIOUS
<1>10. f \in Seq(AllCalls) /\ Len(f) = 2 /\ f[1] = Call("read") /\ f[2] = Call("fcs")
  BY <1>1, <1>9
<1>11. PICK u : u = w \o a
  OBVIOUS
<1>12. /\ u \in Seq(AllCalls) /\ Len(u) = Len(w) + Len(a)
       /\ Stands(u, 0, w, Len(w)) /\ Stands(u, Len(w), a, Len(a))
  <2>1. w \in Seq(AllCalls)
    BY <1>6
  <2>2. a \in Seq(AllCalls)
    BY <1>8
  <2>3. QED
    BY ONLY <2>1, <2>2, <1>11, TwoStand
<1>13. PICK v : v = u \o f
  OBVIOUS
<1>14. /\ v \in Seq(AllCalls) /\ Len(v) = Len(u) + Len(f)
       /\ Stands(v, 0, u, Len(u)) /\ Stands(v, Len(u), f, Len(f))
  <2>1. u \in Seq(AllCalls)
    BY <1>12
  <2>2. f \in Seq(AllCalls)
    BY <1>10
  <2>3. QED
    BY ONLY <2>1, <2>2, <1>13, TwoStand
<1>15. PICK z : z = o \o v
  OBVIOUS
<1>16. /\ z \in Seq(AllCalls) /\ Len(z) = Len(o) + Len(v)
       /\ Stands(z, 0, o, Len(o)) /\ Stands(z, Len(o), v, Len(v))
  <2>1. o \in Seq(AllCalls)
    BY <1>4
  <2>2. v \in Seq(AllCalls)
    BY <1>14
  <2>3. QED
    BY ONLY <2>1, <2>2, <1>15, TwoStand
<1>17. z = Calls(t)
  <2>1. Calls(t) = Opening \o (WriteCalls(<<WriteAddress, LearnedAt>>) \o <<Call("start"), Write(ReadAddress)>>
                                 \o <<Call("read"), Call("fcs")>>)
    BY DEF Calls
  <2>2. QED
    BY <1>3, <1>5, <1>7, <1>9, <1>11, <1>13, <1>15, <2>1
<1>18. Len(u) = 4 /\ Stands(u, 0, w, 2) /\ Stands(u, 2, a, 2)
  BY <1>6, <1>8, <1>12
<1>19. u[1] = Write(WriteAddress) /\ u[2] = Write(LearnedAt) /\ u[3] = Call("start") /\ u[4] = Write(ReadAddress)
  BY <1>6, <1>8, <1>18 DEF Stands
<1>20. Len(v) = 6 /\ Stands(v, 0, u, 4) /\ Stands(v, 4, f, 2)
  BY <1>10, <1>14, <1>18
<1>21. /\ v[1] = Write(WriteAddress) /\ v[2] = Write(LearnedAt) /\ v[3] = Call("start")
       /\ v[4] = Write(ReadAddress) /\ v[5] = Call("read") /\ v[6] = Call("fcs")
  BY <1>10, <1>19, <1>20 DEF Stands
<1>22. Len(z) = 9 /\ Stands(z, 0, o, 3) /\ Stands(z, 3, v, 6)
  BY <1>4, <1>16, <1>20
<1>23. z[1] = Call("open") /\ z[2] = Call("wake") /\ z[3] = Call("start")
  BY <1>4, <1>22 DEF Stands
<1>24. /\ z[4] = Write(WriteAddress) /\ z[5] = Write(LearnedAt) /\ z[6] = Call("start")
       /\ z[7] = Write(ReadAddress) /\ z[8] = Call("read") /\ z[9] = Call("fcs")
  BY <1>21, <1>22 DEF Stands
<1>25. QED
  BY <1>16, <1>17, <1>22, <1>23, <1>24

\* The calls behind a first byte that is good.
LEMMA RemainingIs ==
  ASSUME ReadLen \in Nat
  PROVE  /\ Remaining \in Seq(AllCalls) /\ Len(Remaining) = ReadLen + 2
         /\ \A k \in 1 .. ReadLen : Remaining[k] = Call("read")
         /\ Remaining[ReadLen + 1] = Call("stop") /\ Remaining[ReadLen + 2] = Call("open")
<1>1. /\ Closing \in Seq(AllCalls) /\ Len(Closing) = 2
      /\ Closing[1] = Call("stop") /\ Closing[2] = Call("open")
  <2>1. Call("stop") \in AllCalls /\ Call("open") \in AllCalls
    BY ScriptIs DEF Names
  <2>2. QED
    BY <2>1 DEF Closing
<1>2. PICK r \in Seq(AllCalls) : /\ r = ReadCalls /\ Len(r) = ReadLen
                                 /\ \A k \in 1 .. ReadLen : r[k] = Call("read")
  <2>1. Call("read") \in AllCalls
    BY ScriptIs DEF Names
  <2>2. [k \in 1 .. ReadLen |-> Call("read")] \in Seq(AllCalls)
    BY <2>1, IsASeq
  <2>3. Len(ReadCalls) = ReadLen /\ \A k \in 1 .. ReadLen : ReadCalls[k] = Call("read")
    BY DEF ReadCalls
  <2>4. QED
    BY <2>2, <2>3 DEF ReadCalls
<1>3. PICK u : u = r \o Closing
  OBVIOUS
<1>4. /\ u \in Seq(AllCalls) /\ Len(u) = Len(r) + Len(Closing)
      /\ Stands(u, 0, r, Len(r)) /\ Stands(u, Len(r), Closing, Len(Closing))
  <2>1. Closing \in Seq(AllCalls)
    BY <1>1
  <2>2. r \in Seq(AllCalls)
    BY <1>2
  <2>3. QED
    BY ONLY <2>1, <2>2, <1>3, TwoStand
<1>5. Len(u) = ReadLen + 2 /\ Stands(u, 0, r, ReadLen) /\ Stands(u, ReadLen, Closing, 2)
  BY <1>1, <1>2, <1>4
<1>6. u[ReadLen + 1] = Call("stop") /\ u[ReadLen + 2] = Call("open")
  BY <1>1, <1>5 DEF Stands
<1>7. ASSUME NEW k \in 1 .. ReadLen PROVE u[k] = Call("read")
  <2>1. u[0 + k] = r[k] /\ 0 + k = k
    BY <1>5 DEF Stands
  <2>2. QED
    BY <1>2, <2>1
<1>8. QED
  BY <1>2, <1>3, <1>4, <1>5, <1>6, <1>7 DEF Remaining

-----------------------------------------------------------------------------
(* From one call to the next                                               *)

Goes == step' = 0 /\ UNCHANGED <<got, refused, lines, pull, slave, transfer, fought, transfers>>

LEMMA OpenThenWake ==
  ASSUME InOpen, Goes
  PROVE  InWake'
BY DEF InOpen, Quiet, Goes, InWake, Drives, lines, slave

LEMMA WakeThenStart ==
  ASSUME NEW all, InWake, Knows(all), step = 5, Goes
  PROVE  InStart(all)'
<1>1. step' = 0 /\ scl' = 1 /\ Drives(1)' /\ hxd' = hxd /\ hxd.mode = "idle" /\ ~pull'
  BY DEF InWake, Goes, Drives, lines, slave
<1>2. ~Wants' /\ Knows(all)'
  BY <1>1 DEF Wants, Knows, Goes, slave
<1>3. QED
  BY <1>1, <1>2 DEF InStart

LEMMA StartThenWrite ==
  ASSUME NEW before, NEW b, InStart(before), step = 8, gave = <<>>, got = <<>>, Goes
  PROVE  InWrite(before, <<>>, b)'
<1>1. /\ ~pull /\ scl = 0 /\ Took(before, <<>>)
      /\ hxd = [mode |-> "take", bits |-> <<>>, reads |-> FALSE]
  BY DEF InStart
<1>2. Leads(before, <<>>)'
  BY <1>1 DEF Goes, Leads, Took, Hears, lines, slave
<1>3. QED
  BY <1>2 DEF Goes, InWrite, slave

LEMMA StartThenStop ==
  ASSUME NEW before, InStart(before), step = 8, Goes, pull \in BOOLEAN
  PROVE  InStop' /\ Knows(Append(before, <<>>))'
<1>1. /\ ~pull /\ scl = 0 /\ Took(before, <<>>)
      /\ hxd = [mode |-> "take", bits |-> <<>>, reads |-> FALSE]
  BY DEF InStart
<1>2. /\ step' = 0 /\ scl' = 0 /\ ~pull' /\ hxd'.mode = "take" /\ hxd'.bits = <<>>
  BY <1>1 DEF Goes, lines, slave
<1>3. Still' /\ Len(hxd'.bits) = 0
  <2>1. ~Wants'
    BY <1>2 DEF Wants
  <2>2. pull' = FALSE /\ Wants' \in BOOLEAN
    BY <1>1 DEF Goes, Wants
  <2>3. Still'
    BY <2>1, <2>2 DEF Still
  <2>4. QED
    BY <1>2, <2>3
<1>4. InStop'
  BY <1>2, <1>3 DEF InStop
<1>5. Knows(Append(before, <<>>))'
  BY <1>1 DEF Goes, Took, Knows, slave
<1>6. QED
  BY <1>4, <1>5

\* Which part of a byte written ends it.
LEMMA EndOfWrite ==
  ASSUME NEW before, NEW cur, NEW b, InWrite(before, cur, b), step = 60
  PROVE  Acked(before, cur, b) /\ got = <<>>
<1>1. ~Leads(before, cur) /\ ~AwaitsAck(before, cur, b)
  BY DEF Leads, AwaitsAck
<1>2. ASSUME NEW k \in 1 .. Width, NEW j \in 0 .. 5, SendsBit(before, cur, b, k, j) PROVE FALSE
  BY <1>2 DEF SendsBit, Width
<1>3. QED
  BY <1>1, <1>2 DEF InWrite

LEMMA WriteThen ==
  ASSUME NEW before, NEW cur, NEW b, InWrite(before, cur, b), step = 60,
         ~(cur = <<>> /\ b = ReadAddress), Goes, scl \in {0, 1}
  PROVE  /\ \A c : InWrite(before, Append(cur, b), c)'
         /\ InStart(Append(before, Append(cur, b)))'
         /\ InStop'
         /\ Knows(Append(before, Append(cur, b)))'
         /\ gave' = <<>> /\ got' = <<>>
<1>1. /\ scl = 0 /\ Still /\ Took(before, Append(cur, b)) /\ Hears(<<>>) /\ gave = <<>> /\ got = <<>>
      /\ step' = 0
  BY EndOfWrite DEF Acked, Goes
<1>2. hxd.mode \in {"take", "ignore"} /\ ~Wants /\ ~pull /\ (hxd.mode = "take" => hxd.bits = <<>>)
  BY <1>1 DEF Hears, Still, Wants
<1>3. UNCHANGED <<got, refused, scl, out, latch, sda, pull, hxd, frames, gave, nacked>>
  BY DEF Goes, lines, slave
<1>4. ~Wants'
  BY <1>2, <1>3 DEF Wants
<1>5. Took(before, Append(cur, b))' /\ Hears(<<>>)'
  BY <1>1, <1>3 DEF Took, Hears
<1>6. Leads(before, Append(cur, b))'
  BY <1>1, <1>2, <1>3, <1>5 DEF Leads
<1>7. ASSUME NEW c PROVE InWrite(before, Append(cur, b), c)'
  BY <1>1, <1>3, <1>6 DEF InWrite
<1>8. Knows(Append(before, Append(cur, b)))'
  BY <1>5 DEF Took, Knows
<1>9. hxd'.mode = "take" => Len(hxd'.bits) = 0
  BY <1>2, <1>3
<1>10. InStart(Append(before, Append(cur, b)))'
  BY <1>1, <1>2, <1>3, <1>4, <1>8, <1>9 DEF InStart
<1>11. Still'
  BY <1>1, <1>3 DEF Still, Wants
<1>12. InStop'
  BY <1>1, <1>2, <1>3, <1>9, <1>11 DEF InStop
<1>13. QED
  BY <1>1, <1>3, <1>7, <1>8, <1>10, <1>12

\* What a code that asks leaves the chip at.
LEMMA AskedThen ==
  ASSUME NEW before, InWrite(before, <<>>, ReadAddress), step = 60, Goes
  PROVE  scl' = 0 /\ got' = <<>> /\ Adrift' /\ Knows(Append(before, <<ReadAddress>>))'
<1>1. /\ scl = 0 /\ Took(before, Append(<<>>, ReadAddress)) /\ Giving(0) /\ got = <<>>
  <2>1. Acked(before, <<>>, ReadAddress) /\ got = <<>>
    BY EndOfWrite
  <2>2. QED
    BY <2>1 DEF Acked
<1>2. Append(<<>>, ReadAddress) = <<ReadAddress>>
  OBVIOUS
<1>3. UNCHANGED <<got, scl, hxd, frames, nacked>>
  BY DEF Goes, lines, slave
<1>4. Knows(Append(before, <<ReadAddress>>))'
  BY <1>1, <1>2, <1>3 DEF Took, Knows
<1>5. Adrift'
  BY <1>1, <1>3 DEF Giving, Adrift
<1>6. QED
  BY <1>1, <1>3, <1>4, <1>5

LEMMA AddressThenRead ==
  ASSUME NEW before, InWrite(before, <<>>, ReadAddress), step = 60, Goes
  PROVE  InRead(1)' /\ Knows(Append(before, <<ReadAddress>>))'
<1>1. /\ scl = 0 /\ ~out /\ Still /\ Took(before, Append(<<>>, ReadAddress)) /\ Giving(0) /\ got = <<>>
      /\ step' = 0
  <2>1. Acked(before, <<>>, ReadAddress) /\ got = <<>>
    BY EndOfWrite
  <2>2. QED
    BY <2>1 DEF Acked, Goes
<1>2. Append(<<>>, ReadAddress) = <<ReadAddress>>
  OBVIOUS
<1>3. UNCHANGED <<got, refused, scl, out, latch, sda, pull, hxd, frames, gave, nacked>>
  BY DEF Goes, lines, slave
<1>4. Knows(Append(before, <<ReadAddress>>))'
  BY <1>1, <1>2, <1>3 DEF Took, Knows
<1>5. Still' /\ Giving(0)'
  BY <1>1, <1>3 DEF Still, Wants, Giving
<1>6. Len(gave) >= 0 \/ gave = <<>>
  OBVIOUS
<1>7. ReadSoFar(0)'
  BY <1>1, <1>3 DEF ReadSoFar, Giving
<1>8. ReadsOn(1)'
  BY <1>1, <1>3, <1>5, <1>7 DEF ReadsOn
<1>9. QED
  BY <1>4, <1>8 DEF InRead

LEMMA EndOfRead ==
  ASSUME NEW n, InRead(n), step = 52
  PROVE  HasAcked(n)
<1>1. ~ReadsOn(n) /\ ~Acks(n)
  BY DEF ReadsOn, Acks
<1>2. ASSUME NEW k \in 1 .. Width, NEW j \in 0 .. 4, ReadsBit(n, k, j) PROVE FALSE
  BY <1>2 DEF ReadsBit, Width
<1>3. QED
  BY <1>1, <1>2 DEF InRead

LEMMA ReadThen ==
  ASSUME NEW n \in Nat, InRead(n), step = 52, Goes
  PROVE  /\ step' = 0 /\ scl' = 0 /\ Drives(0)' /\ Still' /\ Giving(n)' /\ ReadSoFar(n)'
         /\ InRead(n + 1)'
<1>1. scl = 0 /\ Drives(0) /\ Still /\ Giving(n) /\ ReadSoFar(n)
  BY EndOfRead DEF HasAcked
<1>2. UNCHANGED <<got, refused, scl, out, latch, sda, pull, hxd, frames, gave, nacked>> /\ step' = 0
  BY DEF Goes, lines, slave
<1>3. Drives(0)' /\ Still' /\ Giving(n)' /\ ReadSoFar(n)'
  BY <1>1, <1>2 DEF Drives, Still, Wants, Giving, ReadSoFar
<1>4. (n + 1) - 1 = n
  OBVIOUS
<1>5. ReadsOn(n + 1)'
  BY <1>1, <1>2, <1>3, <1>4 DEF ReadsOn
<1>6. QED
  BY <1>1, <1>2, <1>3, <1>5 DEF InRead

\* Behind its last byte the chip has let go of the wire.
LEMMA LastThenStop ==
  ASSUME ReadLen \in Nat, Giving(ReadLen + 1)', ReadSoFar(ReadLen + 1)', gave' # <<>>,
         step' = 0, scl' = 0, Drives(0)', Still'
  PROVE  InStop' /\ Whole'
<1>1. hxd'.mode = "ignore" /\ Len(gave') = ReadLen + 1
  BY DEF Giving
<1>2. InStop'
  BY <1>1 DEF InStop, Still
<1>3. QED
  BY <1>1, <1>2 DEF Whole

LEMMA StopThenOpen ==
  ASSUME InStop, step = 8, Goes
  PROVE  InOpen'
<1>1. scl = 1 /\ out /\ latch = 1 /\ hxd.mode = "idle" /\ ~pull
  BY DEF InStop
<1>2. QED
  BY <1>1 DEF Goes, InOpen, Quiet, Drives, lines, slave

LEMMA OpenThenEnd ==
  ASSUME InOpen, Goes
  PROVE  step' = 0 /\ Quiet'
BY DEF InOpen, Goes, Quiet, Drives, lines, slave

LEMMA ReadLasts ==
  ASSUME NEW n, InRead(n), step \in Nat, ~(step < 52)
  PROVE  step = 52
<1>1. \A k \in 1 .. Width, j \in 0 .. 4 : ~ReadsBit(n, k, j)
  BY DEF ReadsBit, Width
<1>2. QED
  BY <1>1 DEF InRead, ReadsOn, Acks, HasAcked

-----------------------------------------------------------------------------
(* A write                                                                 *)

LEMMA TransferIs ==
  ASSUME TwoWireAssumption, NEW t \in Transfers \cup {NoTransfer}, t.kind = "write"
  PROVE  t.bytes \in Seq(Bytes)
<1>1. CASE t \in {[kind |-> "write", bytes |-> code] : code \in Sendable}
  BY <1>1 DEF TwoWireAssumption
<1>2. CASE t = [kind |-> "write", bytes |-> LearnCommand]
  BY <1>2 DEF LearnCommand, WriteAddress, Bytes
<1>3. CASE t = [kind |-> "read", bytes |-> <<>>] \/ t = NoTransfer
  BY <1>3 DEF NoTransfer
<1>4. QED
  BY <1>1, <1>2, <1>3 DEF Transfers

LEMMA TakenIs ==
  ASSUME NEW bytes \in Seq(Bytes)
  PROVE  /\ AsksToRead(bytes) <=> Len(bytes) >= 1 /\ bytes[1] = ReadAddress
         /\ AsksToRead(bytes) => Taken(bytes) = <<ReadAddress>>
         /\ ~AsksToRead(bytes) => Taken(bytes) = bytes
<1>1. bytes # <<>> <=> Len(bytes) >= 1
  OBVIOUS
<1>2. QED
  BY <1>1 DEF AsksToRead, Taken

LEMMA AtCall ==
  ASSUME NEW all \in Seq(AllCalls), NEW at \in 1 .. Len(all) + 1, calls = Rest(all, at), calls # <<>>
  PROVE  at \in 1 .. Len(all) /\ calls[1] = all[at] /\ Tail(calls) = Rest(all, at + 1)
<1>1. at # Len(all) + 1
  BY NoRest
<1>2. at \in 1 .. Len(all)
  BY <1>1
<1>3. QED
  BY <1>2, RestIs

LEMMA PinDoes ==
  ASSUME PinOperation
  PROVE  calls # <<>> /\ step < Len(Script[calls[1]]) /\ Does(Script[calls[1]][step + 1])
         /\ UNCHANGED <<calls, transfer, transfers>>
BY DEF PinOperation, InCall, Does

LEMMA PinOnWrite ==
  ASSUME TwoWireAssumption, WireTypes, Short, ~fought, OnWrite, PinOperation
  PROVE  OnWrite' /\ Short' /\ ~fought'
<1>1. PICK t : t = transfer
  OBVIOUS
<1>2. t.kind = "write" /\ ~refused /\ transfer' = t
  BY <1>1, PinDoes DEF OnWrite
<1>3. PICK bytes \in Seq(Bytes), n \in Nat : bytes = t.bytes /\ n = Len(bytes)
  <2>1. t \in Transfers \cup {NoTransfer}
    BY <1>1 DEF WireTypes
  <2>2. t.bytes \in Seq(Bytes)
    BY <1>2, <2>1, TransferIs
  <2>3. QED
    BY <2>2
<1>. <<>> \in Seq(Seq(Bytes)) /\ ReadLen \in Nat /\ Answers \subseteq Bytes
  BY DEF TwoWireAssumption
<1>4. PICK at \in 1 .. n + 6 : /\ calls = Rest(Calls(t), at)
                               /\ at \in 1 .. 3 => AtOpening(at)
                               /\ Writes(bytes, at)
  BY <1>1, <1>3 DEF OnWrite
<1>5. /\ Calls(t) \in Seq(AllCalls) /\ Len(Calls(t)) = n + 5
      /\ Calls(t)[1] = Call("open") /\ Calls(t)[2] = Call("wake") /\ Calls(t)[3] = Call("start")
      /\ \A k \in 1 .. n : Calls(t)[k + 3] = Write(bytes[k])
      /\ Calls(t)[n + 4] = Call("stop") /\ Calls(t)[n + 5] = Call("open")
  BY <1>2, <1>3, WriteListIs
<1>6. at \in 1 .. n + 5 /\ calls[1] = Calls(t)[at]
  BY <1>4, <1>5, AtCall, PinDoes
<1>7. step < Len(Script[Calls(t)[at]]) /\ Does(Script[Calls(t)[at]][step + 1]) /\ calls' = calls
  BY <1>6, PinDoes
<1>8. ASSUME at \in 1 .. 3 => AtOpening(at)', Writes(bytes, at)', ~refused'
      PROVE  OnWrite'
  <2>1. calls' = Rest(Calls(t), at)
    BY <1>4, <1>7
  <2>2. QED
    BY <1>2, <1>3, <1>8, <2>1 DEF OnWrite
<1>9. CASE at = 1
  <2>1. InOpen /\ Knows(<<>>) /\ gave = <<>> /\ got = <<>>
    BY <1>4, <1>9 DEF AtOpening
  <2>2. step < 3 /\ Does(OpenPins[step + 1])
    <3>1. Script[Calls(t)[at]] = OpenPins
      BY <1>5, <1>9, ScriptIs
    <3>2. Len(OpenPins) = 3
      BY ONLY LengthsAre
    <3>3. QED
      BY ONLY <1>7, <3>1, <3>2
  <2>3. InOpen' /\ Short' /\ UNCHANGED <<Told, fought>>
    BY <2>1, <2>2, InOpenStep
  <2>4. AtOpening(at)' /\ Writes(bytes, at)' /\ ~refused'
    BY <1>2, <1>3, <1>9, <2>1, <2>3 DEF AtOpening, Writes, Told, Knows
  <2>5. QED
    BY <1>8, <2>3, <2>4
<1>10. CASE at = 2
  <2>1. InWake /\ Knows(<<>>) /\ gave = <<>> /\ got = <<>>
    BY <1>4, <1>10 DEF AtOpening
  <2>2. step < 5 /\ Does(WakePins[step + 1])
    <3>1. Script[Calls(t)[at]] = WakePins
      BY <1>5, <1>10, ScriptIs
    <3>2. Len(WakePins) = 5
      BY ONLY LengthsAre
    <3>3. QED
      BY ONLY <1>7, <3>1, <3>2
  <2>3. InWake' /\ Short' /\ UNCHANGED <<Told, fought>>
    BY <2>1, <2>2, InWakeStep
  <2>4. AtOpening(at)' /\ Writes(bytes, at)' /\ ~refused'
    BY <1>2, <1>3, <1>10, <2>1, <2>3 DEF AtOpening, Writes, Told, Knows
  <2>5. QED
    BY <1>8, <2>3, <2>4
<1>11. CASE at = 3
  <2>1. InStart(<<>>) /\ gave = <<>> /\ got = <<>>
    BY <1>4, <1>11 DEF AtOpening
  <2>2. step < 8 /\ Does(StartPins[step + 1])
    <3>1. Script[Calls(t)[at]] = StartPins
      BY <1>5, <1>11, ScriptIs
    <3>2. Len(StartPins) = 8
      BY ONLY LengthsAre
    <3>3. QED
      BY ONLY <1>7, <3>1, <3>2
  <2>3. InStart(<<>>)' /\ Short' /\ UNCHANGED <<gave, nacked, got, refused, fought>>
    BY <2>1, <2>2, InStartStep
  <2>4. AtOpening(at)' /\ Writes(bytes, at)' /\ ~refused'
    BY <1>2, <1>3, <1>11, <2>1, <2>3 DEF AtOpening, Writes
  <2>5. QED
    BY <1>8, <2>3, <2>4
<1>12. CASE at \in 4 .. n + 3
  <2>1. PICK k \in 1 .. n : at = k + 3 /\ k = at - 3
    BY <1>12
  <2>2. PICK b \in Bytes, cur \in Seq(Bytes) : b = bytes[at - 3] /\ cur = SubSeq(bytes, 1, at - 4)
    <3>1. bytes[k] \in Bytes
      BY <1>3, ElementsAre
    <3>2. SubSeq(bytes, 1, k - 1) \in Seq(Bytes) /\ k - 1 = at - 4
      BY <1>3, <2>1, Prefix
    <3>3. QED
      BY <2>1, <3>1, <3>2
  <2>3. (at = 4 \/ ~AsksToRead(bytes)) /\ InWrite(<<>>, cur, b)
    <3>1. at \in 4 .. Len(bytes) + 3
      BY <1>3, <1>12
    <3>2. (at = 4 \/ ~AsksToRead(bytes)) /\ InWrite(<<>>, SubSeq(bytes, 1, at - 4), bytes[at - 3])
      BY <1>4, <3>1 DEF Writes
    <3>3. QED
      BY <2>2, <3>2
  <2>4. Script[Calls(t)[at]] = WriteData(b)
    BY <1>5, <2>1, <2>2, ScriptIs
  <2>5. step < 60 /\ Does(WriteData(b)[step + 1])
    <3>1. Len(WriteData(b)) = 60
      BY LengthsAre
    <3>2. QED
      BY ONLY <1>7, <2>4, <3>1
  <2>6. InWrite(<<>>, cur, b)' /\ Short' /\ UNCHANGED <<refused, fought>>
    BY <2>3, <2>5, InWriteStep
  <2>7. Writes(bytes, at)' /\ ~refused'
    BY <1>2, <1>3, <1>12, <2>2, <2>3, <2>6 DEF Writes
  <2>8. QED
    BY <1>8, <1>12, <2>6, <2>7
<1>13. CASE at = n + 4
  <2>1. InStop /\ Knows(<<Taken(bytes)>>)
    BY <1>3, <1>4, <1>13 DEF Writes
  <2>2. step < 8 /\ Does(StopPins[step + 1])
    <3>1. Script[Calls(t)[at]] = StopPins
      BY <1>5, <1>13, ScriptIs
    <3>2. Len(StopPins) = 8
      BY ONLY LengthsAre
    <3>3. QED
      BY ONLY <1>7, <3>1, <3>2
  <2>3. InStop' /\ ~fought' /\ Short' /\ UNCHANGED Told
    BY <1>2, <2>1, <2>2, InStopStep
  <2>4. Writes(bytes, at)' /\ ~refused' /\ ~(at \in 1 .. 3)
    BY <1>2, <1>3, <1>13, <2>1, <2>3 DEF Writes, Told, Knows
  <2>5. QED
    BY <1>8, <2>3, <2>4
<1>14. CASE at = n + 5
  <2>1. InOpen /\ Knows(<<Taken(bytes)>>)
    BY <1>3, <1>4, <1>14 DEF Writes
  <2>2. step < 3 /\ Does(OpenPins[step + 1])
    <3>1. Script[Calls(t)[at]] = OpenPins
      BY <1>5, <1>14, ScriptIs
    <3>2. Len(OpenPins) = 3
      BY ONLY LengthsAre
    <3>3. QED
      BY ONLY <1>7, <3>1, <3>2
  <2>3. InOpen' /\ Short' /\ UNCHANGED <<Told, fought>>
    BY <2>1, <2>2, InOpenStep
  <2>4. Writes(bytes, at)' /\ ~refused' /\ ~(at \in 1 .. 3)
    BY <1>2, <1>3, <1>14, <2>1, <2>3 DEF Writes, Told, Knows
  <2>5. QED
    BY <1>8, <2>3, <2>4
<1>15. QED
  BY <1>6, <1>9, <1>10, <1>11, <1>12, <1>13, <1>14

LEMMA NextGoes ==
  ASSUME NextCall
  PROVE  /\ Goes /\ calls # <<>> /\ ~(step < Len(Script[calls[1]])) /\ calls[1] # Call("fcs")
         /\ calls' = Tail(calls)
BY DEF NextCall, InCall, Goes

LEMMA NextOnWrite ==
  ASSUME TwoWireAssumption, WireTypes, OnWrite, NextCall
  PROVE  OnWrite' \/ Straying'
<1>. <<>> \in Seq(Seq(Bytes))
  OBVIOUS
<1>1. PICK t : t = transfer
  OBVIOUS
<1>2. Goes /\ t.kind = "write" /\ ~refused' /\ transfer' = t
  BY <1>1, NextGoes DEF OnWrite, Goes
<1>3. PICK bytes \in Seq(Bytes), n \in Nat :
        bytes = t.bytes /\ n = Len(bytes)
  <2>1. t \in Transfers \cup {NoTransfer}
    BY <1>1 DEF WireTypes
  <2>2. t.bytes \in Seq(Bytes)
    BY <1>2, <2>1, TransferIs
  <2>3. QED
    BY <2>2
<1>4. PICK at \in 1 .. n + 6 : /\ calls = Rest(Calls(t), at)
                               /\ at \in 1 .. 3 => AtOpening(at)
                               /\ Writes(bytes, at)
  BY <1>1, <1>3 DEF OnWrite
<1>5. /\ Calls(t) \in Seq(AllCalls) /\ Len(Calls(t)) = n + 5
      /\ Calls(t)[1] = Call("open") /\ Calls(t)[2] = Call("wake") /\ Calls(t)[3] = Call("start")
      /\ \A k \in 1 .. n : Calls(t)[k + 3] = Write(bytes[k])
      /\ Calls(t)[n + 4] = Call("stop") /\ Calls(t)[n + 5] = Call("open")
  BY <1>2, <1>3, WriteListIs
<1>6. at \in 1 .. n + 5 /\ calls[1] = Calls(t)[at] /\ calls' = Rest(Calls(t), at + 1)
  <2>1. PICK all \in Seq(AllCalls) : all = Calls(t) /\ Len(all) = n + 5
    BY <1>5
  <2>2. at \in 1 .. Len(all) + 1 /\ calls = Rest(all, at) /\ calls # <<>>
    BY <1>3, <1>4, <2>1, NextGoes
  <2>3. at \in 1 .. Len(all) /\ calls[1] = all[at] /\ Tail(calls) = Rest(all, at + 1)
    BY ONLY all \in Seq(AllCalls), <2>2, <1>3, AtCall
  <2>4. QED
    BY <1>3, <2>1, <2>3, NextGoes
<1>7. ~(step < Len(Script[Calls(t)[at]])) /\ step \in Nat /\ scl \in {0, 1}
  BY <1>6, NextGoes DEF WireTypes
<1>8. ASSUME at + 1 \in 1 .. 3 => AtOpening(at + 1)', Writes(bytes, at + 1)'
      PROVE  OnWrite'
  <2>1. at + 1 \in 1 .. Len(bytes) + 6
    BY <1>3, <1>6
  <2>2. QED
    BY <1>2, <1>3, <1>6, <1>8, <2>1 DEF OnWrite
<1>9. UNCHANGED <<frames, gave, nacked, got>> /\ step' = 0
  BY <1>2 DEF Goes, slave
<1>10. \A all : Knows(all) => Knows(all)'
  BY <1>9 DEF Knows
<1>11. CASE at = 1
  <2>1. InOpen /\ Knows(<<>>) /\ gave = <<>> /\ got = <<>>
    BY <1>4, <1>11 DEF AtOpening
  <2>2. InWake' /\ Knows(<<>>)'
    BY <1>2, <1>10, <2>1, OpenThenWake
  <2>3. AtOpening(at + 1)' /\ Writes(bytes, at + 1)'
    BY <1>3, <1>9, <1>11, <2>1, <2>2 DEF AtOpening, Writes
  <2>4. QED
    BY <1>8, <2>3
<1>12. CASE at = 2
  <2>1. InWake /\ Knows(<<>>) /\ gave = <<>> /\ got = <<>>
    BY <1>4, <1>12 DEF AtOpening
  <2>2. step = 5
    <3>1. Script[Calls(t)[at]] = WakePins
      BY <1>5, <1>12, ScriptIs
    <3>2. ~(step < 5)
      <4>1. Len(WakePins) = 5
        BY LengthsAre
      <4>2. QED
        BY ONLY <1>7, <3>1, <4>1
    <3>3. QED
      BY <1>7, <2>1, <3>2 DEF InWake
  <2>3. InStart(<<>>)'
    BY <1>2, <2>1, <2>2, WakeThenStart
  <2>4. AtOpening(at + 1)' /\ Writes(bytes, at + 1)'
    BY <1>3, <1>9, <1>12, <2>1, <2>3 DEF AtOpening, Writes
  <2>5. QED
    BY <1>8, <2>4
<1>13. CASE at = 3
  <2>1. InStart(<<>>) /\ gave = <<>> /\ got = <<>>
    BY <1>4, <1>13 DEF AtOpening
  <2>2. step = 8
    <3>1. Script[Calls(t)[at]] = StartPins
      BY <1>5, <1>13, ScriptIs
    <3>2. ~(step < 8)
      <4>1. Len(StartPins) = 8
        BY LengthsAre
      <4>2. QED
        BY ONLY <1>7, <3>1, <4>1
    <3>3. QED
      BY <1>7, <2>1, <3>2 DEF InStart
  <2>3. CASE n >= 1
    <3>1. InWrite(<<>>, <<>>, bytes[1])'
      BY <1>2, <2>1, <2>2, StartThenWrite
    <3>2. SubSeq(bytes, 1, 0) = <<>> /\ (at + 1) - 4 = 0 /\ (at + 1) - 3 = 1
      BY <1>13, WholePrefix
    <3>3. at + 1 = 4 /\ Len(bytes) >= 1 /\ Len(bytes) \in Nat
      BY <1>3, <1>13, <2>3
    <3>4. InWrite(<<>>, SubSeq(bytes, 1, (at + 1) - 4), bytes[(at + 1) - 3])'
      BY <3>1, <3>2
    <3>5. Writes(bytes, at + 1)' /\ ~(at + 1 \in 1 .. 3)
      BY <3>3, <3>4 DEF Writes
    <3>6. QED
      BY <1>8, <3>5
  <2>4. CASE n = 0
    <3>1. InStop' /\ Knows(Append(<<>>, <<>>))'
      BY <1>2, <2>1, <2>2, StartThenStop DEF WireTypes
    <3>2. bytes = <<>> /\ Taken(bytes) = <<>> /\ Append(<<>>, <<>>) = <<<<>>>>
      <4>1. bytes = <<>>
        BY <1>3, <2>4, NothingLeft
      <4>2. Taken(bytes) = <<>>
        BY <4>1 DEF Taken, AsksToRead
      <4>3. Append(<<>>, <<>>) = <<<<>>>>
        <5>1. PICK none : none = <<>>
          OBVIOUS
        <5>2. Append(<<>>, none) = <<none>>
          OBVIOUS
        <5>3. QED
          BY <5>1, <5>2
      <4>4. QED
        BY <4>1, <4>2, <4>3
    <3>3. Knows(<<Taken(bytes)>>)'
      BY <3>1, <3>2
    <3>4. at + 1 = Len(bytes) + 4 /\ at + 1 = 4
      BY <1>3, <1>13, <2>4
    <3>5. Writes(bytes, at + 1)' /\ ~(at + 1 \in 1 .. 3)
      BY <3>1, <3>3, <3>4 DEF Writes
    <3>6. QED
      BY <1>8, <3>5
  <2>5. QED
    BY <2>3, <2>4
<1>14. CASE at \in 4 .. n + 3
  <2>1. PICK k \in 1 .. n : at = k + 3 /\ k = at - 3
    BY <1>14
  <2>2. PICK b \in Bytes, cur \in Seq(Bytes) :
          /\ b = bytes[k] /\ cur = SubSeq(bytes, 1, k - 1) /\ Len(cur) = k - 1
          /\ SubSeq(bytes, 1, k) = Append(cur, b)
    <3>1. bytes[k] \in Bytes
      BY <1>3, ElementsAre
    <3>2. /\ SubSeq(bytes, 1, k - 1) \in Seq(Bytes) /\ Len(SubSeq(bytes, 1, k - 1)) = k - 1
          /\ SubSeq(bytes, 1, k) = Append(SubSeq(bytes, 1, k - 1), bytes[k])
      BY <1>3, <2>1, Prefix
    <3>3. QED
      BY <3>1, <3>2
  <2>3. (at = 4 \/ ~AsksToRead(bytes)) /\ InWrite(<<>>, cur, b)
    <3>1. at \in 4 .. Len(bytes) + 3 /\ at - 4 = k - 1
      BY <1>3, <1>14, <2>1
    <3>2. (at = 4 \/ ~AsksToRead(bytes)) /\ InWrite(<<>>, SubSeq(bytes, 1, at - 4), bytes[at - 3])
      BY <1>4, <3>1 DEF Writes
    <3>3. QED
      BY <2>1, <2>2, <3>1, <3>2
  <2>4. step = 60
    <3>1. Script[Calls(t)[at]] = WriteData(b)
      BY <1>5, <2>1, <2>2, ScriptIs
    <3>2. ~(step < 60)
      <4>1. Len(WriteData(b)) = 60
        BY LengthsAre
      <4>2. QED
        BY ONLY <1>7, <3>1, <4>1
    <3>3. \A j \in 1 .. Width, i \in 0 .. 5 : ~SendsBit(<<>>, cur, b, j, i)
      BY <3>2 DEF SendsBit, Width
    <3>4. step <= 60
      BY <2>3, <3>2, <3>3 DEF InWrite, Leads, AwaitsAck, Acked
    <3>5. QED
      BY <1>7, <3>2, <3>4
  <2>5. CASE ~AsksToRead(bytes)
    <3>1. ~(cur = <<>> /\ b = ReadAddress)
      BY <1>3, <2>1, <2>2, <2>5, TakenIs
    <3>2. /\ \A c : InWrite(<<>>, Append(cur, b), c)'
          /\ InStop' /\ Knows(Append(<<>>, Append(cur, b)))'
      BY <1>2, <1>7, <2>3, <2>4, <3>1, WriteThen
    <3>3. CASE k < n
      <4>1. (at + 1) - 4 = k /\ (at + 1) - 3 = k + 1 /\ at + 1 \in 4 .. Len(bytes) + 3
        BY <1>3, <2>1, <3>3
      <4>2. InWrite(<<>>, SubSeq(bytes, 1, (at + 1) - 4), bytes[(at + 1) - 3])'
        BY <2>2, <3>2, <4>1
      <4>3. Writes(bytes, at + 1)' /\ ~(at + 1 \in 1 .. 3)
        BY <1>3, <2>5, <4>1, <4>2 DEF Writes
      <4>4. QED
        BY <1>8, <4>3
    <3>4. CASE k = n
      <4>1. Append(cur, b) = bytes
        BY <1>3, <2>2, <3>4, WholePrefix
      <4>2. Append(<<>>, bytes) = <<bytes>> /\ Taken(bytes) = bytes
        BY <2>5, TakenIs
      <4>3. Knows(<<Taken(bytes)>>)'
        BY <3>2, <4>1, <4>2
      <4>4. at + 1 = Len(bytes) + 4
        BY <1>3, <2>1, <3>4
      <4>5. Writes(bytes, at + 1)' /\ ~(at + 1 \in 1 .. 3)
        BY <1>3, <3>2, <4>3, <4>4 DEF Writes
      <4>6. QED
        BY <1>8, <4>5
    <3>5. QED
      BY <3>3, <3>4
  <2>6. CASE AsksToRead(bytes)
    <3>1. at = 4 /\ k = 1 /\ n >= 1
      BY <2>1, <2>3, <2>6
    <3>2. cur = <<>> /\ b = ReadAddress
      BY <2>2, <2>6, <3>1, TakenIs
    <3>3. /\ scl' = 0 /\ got' = <<>> /\ Adrift'
          /\ Knows(<<<<ReadAddress>>>>)'
      <4>1. PICK first : first = <<ReadAddress>>
        OBVIOUS
      <4>2. Append(<<>>, first) = <<first>>
        OBVIOUS
      <4>3. InWrite(<<>>, <<>>, ReadAddress)
        BY <2>3, <3>2
      <4>4. scl' = 0 /\ got' = <<>> /\ Adrift' /\ Knows(Append(<<>>, <<ReadAddress>>))'
        BY <1>2, <2>4, <4>3, AskedThen
      <4>5. Append(<<>>, <<ReadAddress>>) = <<<<ReadAddress>>>>
        BY <4>1, <4>2
      <4>6. QED
        BY <4>4, <4>5
    <3>4. Knows(<<Taken(bytes)>>)'
      BY <2>6, <3>3, TakenIs
    <3>5. StraysOff' /\ Strays'
      BY <1>9, <3>3 DEF StraysOff, Strays, High
    <3>6. at + 1 \in 5 .. Len(bytes) + 4
      BY <1>3, <3>1
    <3>7. Straying'
      BY <1>2, <1>3, <1>6, <2>6, <3>3, <3>4, <3>5, <3>6 DEF Straying
    <3>8. QED
      BY <3>7
  <2>7. QED
    BY <2>5, <2>6
<1>15. CASE at = n + 4
  <2>1. InStop /\ Knows(<<Taken(bytes)>>)
    BY <1>3, <1>4, <1>15 DEF Writes
  <2>2. step = 8
    <3>1. Script[Calls(t)[at]] = StopPins
      BY <1>5, <1>15, ScriptIs
    <3>2. ~(step < 8)
      <4>1. Len(StopPins) = 8
        BY LengthsAre
      <4>2. QED
        BY ONLY <1>7, <3>1, <4>1
    <3>3. QED
      BY <1>7, <2>1, <3>2 DEF InStop
  <2>3. InOpen' /\ Knows(<<Taken(bytes)>>)'
    BY <1>2, <1>10, <2>1, <2>2, StopThenOpen
  <2>4. Writes(bytes, at + 1)' /\ ~(at + 1 \in 1 .. 3)
    BY <1>3, <1>15, <2>3 DEF Writes
  <2>5. QED
    BY <1>8, <2>4
<1>16. CASE at = n + 5
  <2>1. InOpen /\ Knows(<<Taken(bytes)>>)
    BY <1>3, <1>4, <1>16 DEF Writes
  <2>2. Ended(<<Taken(bytes)>>)'
    BY <1>2, <1>10, <2>1, OpenThenEnd DEF Ended
  <2>3. Writes(bytes, at + 1)' /\ ~(at + 1 \in 1 .. 3)
    BY <1>3, <1>16, <2>2 DEF Writes
  <2>4. QED
    BY <1>8, <2>3
<1>17. QED
  BY <1>6, <1>11, <1>12, <1>13, <1>14, <1>15, <1>16

-----------------------------------------------------------------------------
(* A read                                                                  *)

LEMMA PairIs ==
  ASSUME NEW E, NEW c \in E, NEW d \in E
  PROVE  Append(<<c>>, d) = <<c, d>>
<1>1. PICK s : s = Append(<<c>>, d)
  OBVIOUS
<1>2. PICK t : t = <<c, d>>
  OBVIOUS
<1>3. <<c>> \in Seq(E) /\ Len(<<c>>) = 1 /\ <<c>>[1] = c
  OBVIOUS
<1>4. s \in Seq(E) /\ Len(s) = 2 /\ s[1] = c /\ s[2] = d
  BY <1>1, <1>3
<1>5. t \in Seq(E) /\ Len(t) = 2 /\ t[1] = c /\ t[2] = d
  BY <1>2
<1>6. \A i \in 1 .. Len(s) : s[i] = t[i]
  BY <1>4, <1>5
<1>7. s = t
  BY <1>4, <1>5, <1>6, SameElements
<1>8. QED
  BY <1>1, <1>2, <1>7

LEMMA AskedIs ==
  /\ <<>> \in Seq(Seq(Bytes)) /\ Asked \in Seq(Seq(Bytes)) /\ <<>> \in Seq(Bytes)
  /\ <<WriteAddress>> \in Seq(Bytes) /\ Commands = Append(<<WriteAddress>>, LearnedAt)
  /\ Append(<<>>, WriteAddress) = <<WriteAddress>>
  /\ Append(<<>>, Commands) = Asked /\ Append(Asked, <<ReadAddress>>) = Both
  /\ WriteAddress \in Bytes /\ ReadAddress \in Bytes /\ LearnedAt \in Bytes
  /\ WriteAddress # ReadAddress
<1>1. WriteAddress \in Bytes /\ ReadAddress \in Bytes /\ LearnedAt \in Bytes /\ WriteAddress # ReadAddress
  BY DEF WriteAddress, ReadAddress, LearnedAt, Bytes
<1>2. <<WriteAddress>> \in Seq(Bytes) /\ Commands = Append(<<WriteAddress>>, LearnedAt)
  BY <1>1 DEF Commands
<1>3. Commands \in Seq(Bytes)
  BY <1>1 DEF Commands
<1>4. Asked \in Seq(Seq(Bytes))
  BY <1>3 DEF Asked
<1>5. Append(<<>>, Commands) = Asked
  BY <1>3 DEF Asked
<1>6. Append(Asked, <<ReadAddress>>) = Both
  <2>1. PICK r \in Seq(Bytes) : r = <<ReadAddress>>
    <3>1. PICK b \in Bytes : b = ReadAddress
      BY <1>1
    <3>2. <<b>> \in Seq(Bytes)
      OBVIOUS
    <3>3. QED
      BY <3>1, <3>2
  <2>2. PICK c \in Seq(Bytes) : c = Commands
    BY <1>3
  <2>3. Append(<<c>>, r) = <<c, r>>
    BY PairIs
  <2>4. QED
    BY <2>1, <2>2, <2>3 DEF Asked, Both
<1>7. QED
  BY <1>1, <1>2, <1>4, <1>5, <1>6

LEMMA PinAsking ==
  ASSUME TwoWireAssumption, WireTypes, Short, ~fought, transfer.kind = "read",
         NEW at \in 1 .. 9, Asking(at), PinOperation
  PROVE  Asking(at)' /\ Short' /\ ~fought'
<1>. ReadLen \in Nat /\ Answers \subseteq Bytes
  BY DEF TwoWireAssumption
<1>1. PICK t : t = transfer
  OBVIOUS
<1>2. t.kind = "read" /\ ~refused /\ transfer' = t
  BY <1>1, PinDoes DEF Asking
<1>3. PICK all \in Seq(AllCalls) :
        /\ all = Calls(t) /\ Len(all) = 9
        /\ all[1] = Call("open") /\ all[2] = Call("wake") /\ all[3] = Call("start")
        /\ all[4] = Write(WriteAddress) /\ all[5] = Write(LearnedAt)
        /\ all[6] = Call("start") /\ all[7] = Write(ReadAddress)
        /\ all[8] = Call("read") /\ all[9] = Call("fcs")
  BY <1>2, ReadListIs
<1>4. /\ at \in 1 .. 3 => AtOpening(at)
      /\ Addresses(at)
  BY DEF Asking
<1>5. calls[1] = all[at]
  <2>1. at \in 1 .. Len(all) + 1 /\ calls = Rest(all, at) /\ calls # <<>>
    BY <1>1, <1>3, PinDoes DEF Asking
  <2>2. QED
    BY ONLY all \in Seq(AllCalls), <2>1, AtCall
<1>6. step < Len(Script[all[at]]) /\ Does(Script[all[at]][step + 1]) /\ calls' = calls
  BY <1>5, PinDoes
<1>7. ASSUME at \in 1 .. 3 => AtOpening(at)', Addresses(at)', ~refused'
      PROVE  Asking(at)'
  <2>1. calls' = Rest(Calls(t), at)
    BY <1>1, <1>6 DEF Asking
  <2>2. QED
    BY <1>2, <1>7, <2>1 DEF Asking
<1>8. CASE at = 1
  <2>1. InOpen /\ Knows(<<>>) /\ gave = <<>> /\ got = <<>>
    BY <1>4, <1>8 DEF AtOpening
  <2>2. step < 3 /\ Does(OpenPins[step + 1])
    <3>1. Script[all[at]] = OpenPins
      BY <1>3, <1>8, ScriptIs
    <3>2. Len(OpenPins) = 3
      BY ONLY LengthsAre
    <3>3. QED
      BY ONLY <1>6, <3>1, <3>2
  <2>3. InOpen' /\ Short' /\ UNCHANGED <<Told, fought>>
    BY <2>1, <2>2, InOpenStep
  <2>4. AtOpening(at)' /\ Addresses(at)' /\ ~refused'
    BY <1>2, <1>8, <2>1, <2>3 DEF AtOpening, Addresses, Told, Knows
  <2>5. QED
    BY <1>7, <2>3, <2>4
<1>9. CASE at = 2
  <2>1. InWake /\ Knows(<<>>) /\ gave = <<>> /\ got = <<>>
    BY <1>4, <1>9 DEF AtOpening
  <2>2. step < 5 /\ Does(WakePins[step + 1])
    <3>1. Script[all[at]] = WakePins
      BY <1>3, <1>9, ScriptIs
    <3>2. Len(WakePins) = 5
      BY ONLY LengthsAre
    <3>3. QED
      BY ONLY <1>6, <3>1, <3>2
  <2>3. InWake' /\ Short' /\ UNCHANGED <<Told, fought>>
    BY <2>1, <2>2, InWakeStep
  <2>4. AtOpening(at)' /\ Addresses(at)' /\ ~refused'
    BY <1>2, <1>9, <2>1, <2>3 DEF AtOpening, Addresses, Told, Knows
  <2>5. QED
    BY <1>7, <2>3, <2>4
<1>10. CASE at = 3
  <2>1. InStart(<<>>) /\ gave = <<>> /\ got = <<>>
    BY <1>4, <1>10 DEF AtOpening
  <2>2. step < 8 /\ Does(StartPins[step + 1])
    <3>1. Script[all[at]] = StartPins
      BY <1>3, <1>10, ScriptIs
    <3>2. Len(StartPins) = 8
      BY ONLY LengthsAre
    <3>3. QED
      BY ONLY <1>6, <3>1, <3>2
  <2>3. InStart(<<>>)' /\ Short' /\ UNCHANGED <<gave, nacked, got, refused, fought>>
    BY <2>1, <2>2, InStartStep, AskedIs
  <2>4. AtOpening(at)' /\ Addresses(at)' /\ ~refused'
    BY <1>2, <1>10, <2>1, <2>3 DEF AtOpening, Addresses
  <2>5. QED
    BY <1>7, <2>3, <2>4
<1>11. CASE at = 6
  <2>1. InStart(Asked) /\ gave = <<>> /\ got = <<>>
    BY <1>4, <1>11 DEF Addresses
  <2>2. step < 8 /\ Does(StartPins[step + 1])
    <3>1. Script[all[at]] = StartPins
      BY <1>3, <1>11, ScriptIs
    <3>2. Len(StartPins) = 8
      BY ONLY LengthsAre
    <3>3. QED
      BY ONLY <1>6, <3>1, <3>2
  <2>3. InStart(Asked)' /\ Short' /\ UNCHANGED <<gave, nacked, got, refused, fought>>
    BY <2>1, <2>2, InStartStep, AskedIs
  <2>4. Addresses(at)' /\ ~refused' /\ ~(at \in 1 .. 3)
    BY <1>2, <1>11, <2>1, <2>3 DEF Addresses
  <2>5. QED
    BY <1>7, <2>3, <2>4
<1>12. ASSUME NEW before \in Seq(Seq(Bytes)), NEW cur \in Seq(Bytes), NEW b \in Bytes,
              all[at] = Write(b), InWrite(before, cur, b)
       PROVE  InWrite(before, cur, b)' /\ Short' /\ ~refused' /\ ~fought'
  <2>1. step < 60 /\ Does(WriteData(b)[step + 1])
    <3>1. Script[all[at]] = WriteData(b)
      BY <1>12, ScriptIs
    <3>2. Len(WriteData(b)) = 60
      BY LengthsAre
    <3>3. QED
      BY ONLY <1>6, <3>1, <3>2
  <2>2. InWrite(before, cur, b)' /\ Short' /\ UNCHANGED <<refused, fought>>
    BY <1>12, <2>1, InWriteStep
  <2>3. QED
    BY <1>2, <2>2
<1>13. CASE at = 4
  <2>1. InWrite(<<>>, <<>>, WriteAddress) /\ all[at] = Write(WriteAddress)
    BY <1>3, <1>4, <1>13 DEF Addresses
  <2>2. InWrite(<<>>, <<>>, WriteAddress)' /\ Short' /\ ~refused' /\ ~fought'
    BY <1>12, <2>1, AskedIs
  <2>3. Addresses(at)' /\ ~(at \in 1 .. 3)
    BY <1>13, <2>2 DEF Addresses
  <2>4. QED
    BY <1>7, <2>2, <2>3
<1>14. CASE at = 5
  <2>1. InWrite(<<>>, <<WriteAddress>>, LearnedAt) /\ all[at] = Write(LearnedAt)
    BY <1>3, <1>4, <1>14 DEF Addresses
  <2>2. InWrite(<<>>, <<WriteAddress>>, LearnedAt)' /\ Short' /\ ~refused' /\ ~fought'
    BY <1>12, <2>1, AskedIs
  <2>3. Addresses(at)' /\ ~(at \in 1 .. 3)
    BY <1>14, <2>2 DEF Addresses
  <2>4. QED
    BY <1>7, <2>2, <2>3
<1>15. CASE at = 7
  <2>1. InWrite(Asked, <<>>, ReadAddress) /\ all[at] = Write(ReadAddress)
    BY <1>3, <1>4, <1>15 DEF Addresses
  <2>2. InWrite(Asked, <<>>, ReadAddress)' /\ Short' /\ ~refused' /\ ~fought'
    BY <1>12, <2>1, AskedIs
  <2>3. Addresses(at)' /\ ~(at \in 1 .. 3)
    BY <1>15, <2>2 DEF Addresses
  <2>4. QED
    BY <1>7, <2>2, <2>3
<1>16. CASE at = 8
  <2>1. InRead(1) /\ Knows(Both)
    BY <1>4, <1>16 DEF Addresses
  <2>2. step < 52 /\ Does(ReadData[step + 1])
    <3>1. Script[all[at]] = ReadData
      BY <1>3, <1>16, ScriptIs
    <3>2. Len(ReadData) = 52
      BY ONLY LengthsAre
    <3>3. QED
      BY ONLY <1>6, <3>1, <3>2
  <2>3. ReadHolds(1)
    BY DEF ReadHolds
  <2>4. InRead(1)' /\ Short' /\ UNCHANGED <<frames, nacked, refused, fought>>
    BY <2>1, <2>2, <2>3, InReadStep
  <2>5. Addresses(at)' /\ ~(at \in 1 .. 3) /\ ~refused' /\ ~fought'
    BY <1>2, <1>16, <2>1, <2>4 DEF Addresses, Knows
  <2>6. QED
    BY <1>7, <2>4, <2>5
<1>17. CASE at = 9
  <2>1. Script[all[at]] = <<>>
    BY <1>3, <1>17, ScriptIs
  <2>2. QED
    BY <1>6, <2>1 DEF WireTypes
<1>18. QED
  BY <1>8, <1>9, <1>10, <1>11, <1>13, <1>14, <1>15, <1>16, <1>17

LEMMA NextAsking ==
  ASSUME TwoWireAssumption, WireTypes, transfer.kind = "read",
         NEW at \in 1 .. 9, Asking(at), NextCall
  PROVE  at \in 1 .. 8 /\ Asking(at + 1)'
<1>1. PICK t : t = transfer
  OBVIOUS
<1>2. Goes /\ t.kind = "read" /\ ~refused' /\ transfer' = t
  BY <1>1, NextGoes DEF Asking, Goes
<1>3. PICK all \in Seq(AllCalls) :
        /\ all = Calls(t) /\ Len(all) = 9
        /\ all[1] = Call("open") /\ all[2] = Call("wake") /\ all[3] = Call("start")
        /\ all[4] = Write(WriteAddress) /\ all[5] = Write(LearnedAt)
        /\ all[6] = Call("start") /\ all[7] = Write(ReadAddress)
        /\ all[8] = Call("read") /\ all[9] = Call("fcs")
  BY <1>2, ReadListIs
<1>4. /\ at \in 1 .. 3 => AtOpening(at)
      /\ Addresses(at)
  BY DEF Asking
<1>5. calls[1] = all[at] /\ calls' = Rest(all, at + 1)
  <2>1. at \in 1 .. Len(all) + 1 /\ calls = Rest(all, at) /\ calls # <<>>
    BY <1>1, <1>3, NextGoes DEF Asking
  <2>2. calls[1] = all[at] /\ Tail(calls) = Rest(all, at + 1)
    BY ONLY all \in Seq(AllCalls), <2>1, AtCall
  <2>3. QED
    BY <2>2, NextGoes
<1>6. ~(step < Len(Script[all[at]])) /\ step \in Nat /\ scl \in {0, 1}
  BY <1>5, NextGoes DEF WireTypes
<1>7. at \in 1 .. 8
  <2>1. at # 9
    BY <1>3, <1>5, NextGoes
  <2>2. QED
    BY <2>1
<1>8. ASSUME at + 1 \in 1 .. 3 => AtOpening(at + 1)', Addresses(at + 1)'
      PROVE  Asking(at + 1)'
  BY <1>2, <1>3, <1>5, <1>8 DEF Asking
<1>9. UNCHANGED <<frames, gave, nacked, got>> /\ step' = 0
  BY <1>2 DEF Goes, slave
<1>10. \A k : Knows(k) => Knows(k)'
  BY <1>9 DEF Knows
<1>11. CASE at = 1
  <2>1. InOpen /\ Knows(<<>>) /\ gave = <<>> /\ got = <<>>
    BY <1>4, <1>11 DEF AtOpening
  <2>2. InWake' /\ Knows(<<>>)'
    BY <1>2, <1>10, <2>1, OpenThenWake
  <2>3. AtOpening(at + 1)' /\ Addresses(at + 1)'
    BY <1>9, <1>11, <2>1, <2>2 DEF AtOpening, Addresses
  <2>4. QED
    BY <1>7, <1>8, <2>3
<1>12. CASE at = 2
  <2>1. InWake /\ Knows(<<>>) /\ gave = <<>> /\ got = <<>>
    BY <1>4, <1>12 DEF AtOpening
  <2>2. step = 5
    <3>1. ~(step < 5)
      BY <1>3, <1>6, <1>12, ScriptIs, LengthsAre
    <3>2. QED
      BY <1>6, <2>1, <3>1 DEF InWake
  <2>3. InStart(<<>>)'
    BY <1>2, <2>1, <2>2, WakeThenStart
  <2>4. AtOpening(at + 1)' /\ Addresses(at + 1)'
    BY <1>9, <1>12, <2>1, <2>3 DEF AtOpening, Addresses
  <2>5. QED
    BY <1>7, <1>8, <2>4
<1>13. ASSUME NEW before, InStart(before), at \in {3, 6} PROVE step = 8
  <2>1. Script[all[at]] = StartPins
    BY <1>3, <1>13, ScriptIs
  <2>2. ~(step < 8)
    BY <1>6, <2>1, LengthsAre
  <2>3. QED
    BY <1>6, <1>13, <2>2 DEF InStart
<1>14. CASE at = 3
  <2>1. InStart(<<>>) /\ gave = <<>> /\ got = <<>>
    BY <1>4, <1>14 DEF AtOpening
  <2>2. InWrite(<<>>, <<>>, WriteAddress)'
    BY <1>2, <1>13, <1>14, <2>1, StartThenWrite
  <2>3. Addresses(at + 1)' /\ ~(at + 1 \in 1 .. 3)
    BY <1>14, <2>2 DEF Addresses
  <2>4. QED
    BY <1>7, <1>8, <2>3
<1>15. ASSUME NEW before, NEW cur, NEW b \in Bytes, InWrite(before, cur, b), all[at] = Write(b)
       PROVE  step = 60
  <2>1. ~(step < 60)
    <3>1. Script[all[at]] = WriteData(b)
      BY <1>15, ScriptIs
    <3>2. Len(WriteData(b)) = 60
      BY LengthsAre
    <3>3. QED
      BY ONLY <1>6, <3>1, <3>2
  <2>2. \A j \in 1 .. Width, i \in 0 .. 5 : ~SendsBit(before, cur, b, j, i)
    BY <2>1 DEF SendsBit, Width
  <2>3. step <= 60
    BY <1>15, <2>1, <2>2 DEF InWrite, Leads, AwaitsAck, Acked
  <2>4. QED
    BY <1>6, <2>1, <2>3
<1>16. CASE at = 4
  <2>1. InWrite(<<>>, <<>>, WriteAddress) /\ all[at] = Write(WriteAddress)
    BY <1>3, <1>4, <1>16 DEF Addresses
  <2>2. step = 60
    BY <1>15, <2>1, AskedIs
  <2>3. InWrite(<<>>, Append(<<>>, WriteAddress), LearnedAt)'
    BY <1>2, <1>6, <2>1, <2>2, AskedIs, WriteThen
  <2>4. Addresses(at + 1)' /\ ~(at + 1 \in 1 .. 3)
    BY <1>16, <2>3, AskedIs DEF Addresses
  <2>5. QED
    BY <1>7, <1>8, <2>4
<1>17. CASE at = 5
  <2>1. InWrite(<<>>, <<WriteAddress>>, LearnedAt) /\ all[at] = Write(LearnedAt)
    BY <1>3, <1>4, <1>17 DEF Addresses
  <2>2. step = 60
    BY <1>15, <2>1, AskedIs
  <2>3. ~(<<WriteAddress>> = <<>> /\ LearnedAt = ReadAddress)
    BY DEF LearnedAt, ReadAddress
  <2>4. /\ InStart(Append(<<>>, Append(<<WriteAddress>>, LearnedAt)))'
        /\ gave' = <<>> /\ got' = <<>>
    BY <1>2, <1>6, <2>1, <2>2, <2>3, WriteThen
  <2>5. InStart(Asked)'
    BY <2>4, AskedIs
  <2>6. Addresses(at + 1)' /\ ~(at + 1 \in 1 .. 3)
    BY <1>17, <2>4, <2>5 DEF Addresses
  <2>7. QED
    BY <1>7, <1>8, <2>6
<1>18. CASE at = 6
  <2>1. InStart(Asked) /\ gave = <<>> /\ got = <<>>
    BY <1>4, <1>18 DEF Addresses
  <2>2. InWrite(Asked, <<>>, ReadAddress)'
    BY <1>2, <1>13, <1>18, <2>1, StartThenWrite
  <2>3. Addresses(at + 1)' /\ ~(at + 1 \in 1 .. 3)
    BY <1>18, <2>2 DEF Addresses
  <2>4. QED
    BY <1>7, <1>8, <2>3
<1>19. CASE at = 7
  <2>1. InWrite(Asked, <<>>, ReadAddress) /\ all[at] = Write(ReadAddress)
    BY <1>3, <1>4, <1>19 DEF Addresses
  <2>2. step = 60
    BY <1>15, <2>1, AskedIs
  <2>3. InRead(1)' /\ Knows(Both)'
    BY <1>2, <2>1, <2>2, AskedIs, AddressThenRead
  <2>4. Addresses(at + 1)' /\ ~(at + 1 \in 1 .. 3)
    BY <1>19, <2>3 DEF Addresses
  <2>5. QED
    BY <1>7, <1>8, <2>4
<1>20. CASE at = 8
  <2>1. InRead(1) /\ Knows(Both)
    BY <1>4, <1>20 DEF Addresses
  <2>2. step = 52
    <3>1. Script[all[at]] = ReadData
      BY <1>3, <1>20, ScriptIs
    <3>2. ~(step < 52)
      <4>1. Len(ReadData) = 52
        BY LengthsAre
      <4>2. QED
        BY ONLY <1>6, <3>1, <4>1
    <3>3. QED
      BY <1>6, <2>1, <3>2, ReadLasts
  <2>3. step' = 0 /\ scl' = 0 /\ Drives(0)' /\ Still' /\ Giving(1)' /\ ReadSoFar(1)'
    BY <1>2, <2>1, <2>2, ReadThen
  <2>4. Addresses(at + 1)' /\ ~(at + 1 \in 1 .. 3)
    BY <1>10, <1>20, <2>1, <2>3 DEF Addresses
  <2>5. QED
    BY <1>7, <1>8, <2>4
<1>21. QED
  BY <1>7, <1>11, <1>12, <1>14, <1>16, <1>17, <1>18, <1>19, <1>20

\* One byte read, or the rest.
LEMMA PinReading ==
  ASSUME TwoWireAssumption, WireTypes, Short, ~fought, transfer.kind = "read",
         NEW at \in 1 .. ReadLen + 3, Reading(at), PinOperation
  PROVE  Reading(at)' /\ Short' /\ ~fought'
<1>. ReadLen \in Nat /\ Answers \subseteq Bytes
  BY DEF TwoWireAssumption
<1>1. PICK all \in Seq(AllCalls) :
        /\ all = Remaining /\ Len(all) = ReadLen + 2
        /\ \A k \in 1 .. ReadLen : all[k] = Call("read")
        /\ all[ReadLen + 1] = Call("stop") /\ all[ReadLen + 2] = Call("open")
  BY RemainingIs
<1>2. Reads(at) /\ ~refused
  BY DEF Reading
<1>3. at \in 1 .. ReadLen + 2 /\ calls[1] = all[at]
  <2>1. at \in 1 .. Len(all) + 1 /\ calls = Rest(all, at) /\ calls # <<>>
    BY <1>1, PinDoes DEF Reading
  <2>2. at \in 1 .. Len(all) /\ calls[1] = all[at]
    BY ONLY all \in Seq(AllCalls), <2>1, AtCall
  <2>3. QED
    BY <1>1, <2>2
<1>4. step < Len(Script[all[at]]) /\ Does(Script[all[at]][step + 1]) /\ calls' = calls
  BY <1>3, PinDoes
<1>5. ASSUME Reads(at)', ~refused' PROVE Reading(at)'
  BY <1>4, <1>5 DEF Reading
<1>6. Knows(Both)
  BY <1>2 DEF Reads
<1>7. CASE at \in 1 .. ReadLen
  <2>1. gave # <<>> /\ InRead(at + 1)
    BY <1>2, <1>7 DEF Reads
  <2>2. step < 52 /\ Does(ReadData[step + 1])
    <3>1. Script[all[at]] = ReadData
      BY <1>1, <1>7, ScriptIs
    <3>2. Len(ReadData) = 52
      BY ONLY LengthsAre
    <3>3. QED
      BY ONLY <1>4, <3>1, <3>2
  <2>3. ReadHolds(at + 1)
    BY <1>7, <2>1 DEF ReadHolds
  <2>4. InRead(at + 1)' /\ Short' /\ UNCHANGED <<frames, nacked, refused, fought>> /\ gave' # <<>>
    BY <2>1, <2>2, <2>3, InReadStep
  <2>5. Reads(at)' /\ ~refused' /\ ~fought'
    BY <1>2, <1>6, <1>7, <2>4 DEF Reads, Knows
  <2>6. QED
    BY <1>5, <2>4, <2>5
<1>8. CASE at = ReadLen + 1
  <2>1. InStop /\ Whole
    BY <1>2, <1>8 DEF Reads
  <2>2. step < 8 /\ Does(StopPins[step + 1])
    <3>1. Script[all[at]] = StopPins
      BY <1>1, <1>8, ScriptIs
    <3>2. Len(StopPins) = 8
      BY ONLY LengthsAre
    <3>3. QED
      BY ONLY <1>4, <3>1, <3>2
  <2>3. InStop' /\ ~fought' /\ Short' /\ UNCHANGED Told
    BY <1>2, <2>1, <2>2, InStopStep
  <2>4. Whole' /\ Knows(Both)' /\ ~refused'
    BY <1>2, <1>6, <2>1, <2>3 DEF Told, Whole, ReadSoFar, Knows
  <2>5. Reads(at)'
    BY <1>8, <2>3, <2>4 DEF Reads
  <2>6. QED
    BY <1>5, <2>3, <2>4, <2>5
<1>9. CASE at = ReadLen + 2
  <2>1. InOpen /\ Whole
    BY <1>2, <1>9 DEF Reads
  <2>2. step < 3 /\ Does(OpenPins[step + 1])
    <3>1. Script[all[at]] = OpenPins
      BY <1>1, <1>9, ScriptIs
    <3>2. Len(OpenPins) = 3
      BY ONLY LengthsAre
    <3>3. QED
      BY ONLY <1>4, <3>1, <3>2
  <2>3. InOpen' /\ Short' /\ UNCHANGED <<Told, fought>>
    BY <2>1, <2>2, InOpenStep
  <2>4. Whole' /\ Knows(Both)' /\ ~refused'
    BY <1>2, <1>6, <2>1, <2>3 DEF Told, Whole, ReadSoFar, Knows
  <2>5. Reads(at)'
    BY <1>9, <2>3, <2>4 DEF Reads
  <2>6. QED
    BY <1>5, <2>3, <2>4, <2>5
<1>10. QED
  BY <1>3, <1>7, <1>8, <1>9

LEMMA NextReading ==
  ASSUME TwoWireAssumption, WireTypes,
         NEW at \in 1 .. ReadLen + 3, Reading(at), NextCall
  PROVE  at \in 1 .. ReadLen + 2 /\ Reading(at + 1)'
<1>. ReadLen \in Nat
  BY DEF TwoWireAssumption
<1>1. PICK all \in Seq(AllCalls) :
        /\ all = Remaining /\ Len(all) = ReadLen + 2
        /\ \A k \in 1 .. ReadLen : all[k] = Call("read")
        /\ all[ReadLen + 1] = Call("stop") /\ all[ReadLen + 2] = Call("open")
  BY RemainingIs
<1>2. Reads(at) /\ ~refused /\ Goes /\ ~refused'
  BY NextGoes DEF Reading, Goes
<1>3. at \in 1 .. ReadLen + 2 /\ calls[1] = all[at] /\ calls' = Rest(all, at + 1)
  <2>1. at \in 1 .. Len(all) + 1 /\ calls = Rest(all, at) /\ calls # <<>>
    BY <1>1, NextGoes DEF Reading
  <2>2. at \in 1 .. Len(all) /\ calls[1] = all[at] /\ Tail(calls) = Rest(all, at + 1)
    BY ONLY all \in Seq(AllCalls), <2>1, AtCall
  <2>3. QED
    BY <1>1, <2>2, NextGoes
<1>4. ~(step < Len(Script[all[at]])) /\ step \in Nat
  BY <1>3, NextGoes DEF WireTypes
<1>5. ASSUME Reads(at + 1)' PROVE Reading(at + 1)'
  BY <1>1, <1>2, <1>3, <1>5 DEF Reading
<1>6. Knows(Both)'
  BY <1>2 DEF Reads, Knows, Goes, slave
<1>7. CASE at \in 1 .. ReadLen
  <2>1. gave # <<>> /\ InRead(at + 1)
    BY <1>2, <1>7 DEF Reads
  <2>2. step = 52
    <3>1. Script[all[at]] = ReadData
      BY <1>1, <1>7, ScriptIs
    <3>2. ~(step < 52)
      <4>1. Len(ReadData) = 52
        BY LengthsAre
      <4>2. QED
        BY ONLY <1>4, <3>1, <4>1
    <3>3. QED
      BY <1>4, <2>1, <3>2, ReadLasts
  <2>3. PICK n \in Nat : n = at + 1
    OBVIOUS
  <2>4. /\ step' = 0 /\ scl' = 0 /\ Drives(0)' /\ Still' /\ Giving(n)' /\ ReadSoFar(n)'
        /\ InRead(n + 1)'
    BY <1>2, <2>1, <2>2, <2>3, ReadThen
  <2>5. gave' # <<>>
    BY <1>2, <2>1 DEF Goes, slave
  <2>6. CASE at = ReadLen
    <3>1. InStop' /\ Whole'
      BY <2>3, <2>4, <2>5, <2>6, LastThenStop
    <3>2. Reads(at + 1)'
      BY <1>6, <2>6, <3>1 DEF Reads
    <3>3. QED
      BY <1>3, <1>5, <3>2
  <2>7. CASE at < ReadLen
    <3>1. InRead((at + 1) + 1)'
      BY <2>3, <2>4
    <3>2. Reads(at + 1)'
      BY <1>6, <1>7, <2>5, <2>7, <3>1 DEF Reads
    <3>3. QED
      BY <1>3, <1>5, <3>2
  <2>8. QED
    BY <1>7, <2>6, <2>7
<1>8. CASE at = ReadLen + 1
  <2>1. InStop /\ Whole
    BY <1>2, <1>8 DEF Reads
  <2>2. step = 8
    <3>1. Script[all[at]] = StopPins
      BY <1>1, <1>8, ScriptIs
    <3>2. ~(step < 8)
      <4>1. Len(StopPins) = 8
        BY LengthsAre
      <4>2. QED
        BY ONLY <1>4, <3>1, <4>1
    <3>3. QED
      BY <1>4, <2>1, <3>2 DEF InStop
  <2>3. InOpen' /\ Whole'
    <3>1. InOpen'
      BY <1>2, <2>1, <2>2, StopThenOpen
    <3>2. QED
      BY <1>2, <2>1, <3>1 DEF Whole, ReadSoFar, Goes, slave
  <2>4. Reads(at + 1)'
    BY <1>6, <1>8, <2>3 DEF Reads
  <2>5. QED
    BY <1>3, <1>5, <2>4
<1>9. CASE at = ReadLen + 2
  <2>1. InOpen /\ Whole
    BY <1>2, <1>9 DEF Reads
  <2>2. step' = 0 /\ Quiet'
    BY <1>2, <2>1, OpenThenEnd
  <2>3. Whole'
    BY <1>2, <2>1 DEF Whole, ReadSoFar, Goes, slave
  <2>4. Reads(at + 1)'
    BY <1>6, <1>9, <2>2, <2>3 DEF Reads
  <2>5. QED
    BY <1>3, <1>5, <2>4
<1>10. QED
  BY <1>3, <1>7, <1>8, <1>9

LEMMA ClosingIs ==
  /\ Closing \in Seq(AllCalls) /\ Len(Closing) = 2
  /\ Closing[1] = Call("stop") /\ Closing[2] = Call("open")
  /\ Rest(Closing, 1) = Closing /\ Rest(Closing, 2) = <<Call("open")>> /\ Rest(Closing, 3) = <<>>
  /\ Tail(Closing) = <<Call("open")>> /\ Tail(<<Call("open")>>) = <<>>
<1>1. Call("stop") \in AllCalls /\ Call("open") \in AllCalls
  BY ScriptIs DEF Names
<1>2. PICK o \in AllCalls : o = Call("open")
  BY <1>1
<1>3. PICK s \in AllCalls : s = Call("stop")
  BY <1>1
<1>4. PICK c : c = <<s, o>>
  OBVIOUS
<1>5. c = Closing
  BY <1>2, <1>3, <1>4 DEF Closing
<1>6. c \in Seq(AllCalls) /\ Len(c) = 2 /\ c[1] = s /\ c[2] = o
  BY <1>4
<1>7. Rest(c, 1) = c /\ Rest(c, 3) = <<>>
  <2>1. c \in Seq(AllCalls)
    BY <1>6
  <2>2. Rest(c, 1) = c /\ Rest(c, Len(c) + 1) = <<>>
    BY ONLY <2>1, NoRest
  <2>3. Len(c) + 1 = 3
    BY <1>6
  <2>4. QED
    BY <2>2, <2>3
<1>8. Tail(c) = <<o>> /\ Tail(<<o>>) = <<>>
  BY <1>4
<1>9. Rest(c, 2) = <<o>>
  <2>1. 1 \in 1 .. Len(c) /\ 1 + 1 = 2
    BY <1>6
  <2>2. Tail(Rest(c, 1)) = Rest(c, 2)
    BY <1>6, <2>1, RestIs
  <2>3. QED
    BY <1>7, <1>8, <2>2
<1>10. QED
  BY <1>2, <1>3, <1>5, <1>6, <1>7, <1>8, <1>9

LEMMA PinLeaving ==
  ASSUME TwoWireAssumption, WireTypes, Short, ~fought, transfer.kind = "read",
         NEW at \in 1 .. 3, Leaving(at), PinOperation
  PROVE  Short' /\ ((Leaving(at)' /\ ~fought') \/ (Lost' /\ fought'))
<1>1. Leaves(at) /\ refused /\ Knows(Both) /\ calls = Rest(Closing, at)
  BY DEF Leaving, Leaves
<1>2. at \in 1 .. 2 /\ calls[1] = Closing[at]
  <2>1. calls # <<>>
    BY PinDoes
  <2>2. at # 3
    BY <1>1, <2>1, ClosingIs
  <2>3. calls[1] = Closing[at]
    BY <1>1, <2>2, ClosingIs
  <2>4. QED
    BY <2>2, <2>3
<1>3. step < Len(Script[Closing[at]]) /\ Does(Script[Closing[at]][step + 1]) /\ calls' = calls
  BY <1>2, PinDoes
<1>4. ASSUME Leaves(at)', refused' PROVE Leaving(at)'
  BY <1>1, <1>3, <1>4 DEF Leaving
<1>5. CASE at = 1
  <2>1. InStop
    BY <1>1, <1>5 DEF Leaves
  <2>2. step < 8 /\ Does(StopPins[step + 1])
    <3>1. Script[Closing[at]] = StopPins
      BY <1>5, ClosingIs, ScriptIs
    <3>2. Len(StopPins) = 8
      BY ONLY LengthsAre
    <3>3. QED
      BY ONLY <1>3, <3>1, <3>2
  <2>3. /\ \/ InStop' /\ ~fought'
           \/ refused /\ step' = 8 /\ scl' = 1 /\ Drives(1)' /\ fought'
        /\ Short' /\ UNCHANGED Told
    BY <2>1, <2>2, InStopStep
  <2>4. Knows(Both)' /\ refused'
    BY <1>1, <2>3 DEF Told, Knows
  <2>5. CASE InStop' /\ ~fought'
    <3>1. Leaves(at)'
      BY <1>5, <2>4, <2>5 DEF Leaves
    <3>2. QED
      BY <1>4, <2>3, <2>4, <2>5, <3>1
  <2>6. CASE step' = 8 /\ scl' = 1 /\ Drives(1)' /\ fought'
    <3>1. calls' = Closing
      BY <1>1, <1>3, <1>5, ClosingIs
    <3>2. Lost'
      BY <2>4, <2>6, <3>1 DEF Lost, Excused
    <3>3. QED
      BY <2>3, <2>6, <3>2
  <2>7. QED
    BY <2>3, <2>5, <2>6
<1>6. CASE at = 2
  <2>1. InOpen
    BY <1>1, <1>6 DEF Leaves
  <2>2. step < 3 /\ Does(OpenPins[step + 1])
    <3>1. Script[Closing[at]] = OpenPins
      BY <1>6, ClosingIs, ScriptIs
    <3>2. Len(OpenPins) = 3
      BY ONLY LengthsAre
    <3>3. QED
      BY ONLY <1>3, <3>1, <3>2
  <2>3. InOpen' /\ Short' /\ UNCHANGED <<Told, fought>>
    BY <2>1, <2>2, InOpenStep
  <2>4. Leaves(at)' /\ refused' /\ ~fought'
    BY <1>1, <1>6, <2>3 DEF Leaves, Told, Knows
  <2>5. QED
    BY <1>4, <2>3, <2>4
<1>7. QED
  BY <1>2, <1>5, <1>6

LEMMA NextLeaving ==
  ASSUME WireTypes, NEW at \in 1 .. 3, Leaving(at), NextCall
  PROVE  at \in 1 .. 2 /\ Leaving(at + 1)'
<1>1. Leaves(at) /\ refused /\ Knows(Both) /\ calls = Rest(Closing, at)
  BY DEF Leaving, Leaves
<1>2. Goes /\ refused' /\ Knows(Both)'
  BY <1>1, NextGoes DEF Goes, Knows, slave
<1>3. at \in 1 .. 2 /\ calls[1] = Closing[at] /\ calls' = Rest(Closing, at + 1)
  <2>1. calls # <<>> /\ calls' = Tail(calls)
    BY NextGoes
  <2>2. at # 3
    BY <1>1, <2>1, ClosingIs
  <2>3. CASE at = 1
    BY <1>1, <2>1, <2>3, ClosingIs
  <2>4. CASE at = 2
    BY <1>1, <2>1, <2>4, ClosingIs
  <2>5. QED
    BY <2>2, <2>3, <2>4
<1>4. ~(step < Len(Script[Closing[at]])) /\ step \in Nat
  BY <1>3, NextGoes DEF WireTypes
<1>5. ASSUME Leaves(at + 1)' PROVE Leaving(at + 1)'
  BY <1>2, <1>3, <1>5 DEF Leaving
<1>6. CASE at = 1
  <2>1. InStop
    BY <1>1, <1>6 DEF Leaves
  <2>2. step = 8
    <3>1. Script[Closing[at]] = StopPins
      BY <1>6, ClosingIs, ScriptIs
    <3>2. ~(step < 8)
      <4>1. Len(StopPins) = 8
        BY LengthsAre
      <4>2. QED
        BY ONLY <1>4, <3>1, <4>1
    <3>3. QED
      BY <1>4, <2>1, <3>2 DEF InStop
  <2>3. InOpen'
    BY <1>2, <2>1, <2>2, StopThenOpen
  <2>4. Leaves(at + 1)'
    BY <1>2, <1>6, <2>3 DEF Leaves
  <2>5. QED
    BY <1>3, <1>5, <2>4
<1>7. CASE at = 2
  <2>1. InOpen
    BY <1>1, <1>7 DEF Leaves
  <2>2. step' = 0 /\ Quiet'
    BY <1>2, <2>1, OpenThenEnd
  <2>3. Leaves(at + 1)'
    BY <1>2, <1>7, <2>2 DEF Leaves
  <2>4. QED
    BY <1>3, <1>5, <2>3
<1>8. QED
  BY <1>3, <1>6, <1>7

LEMMA NotFcs ==
  /\ \A name \in Names : Call(name) = Call("fcs") => name = "fcs"
  /\ \A b \in Bytes : Write(b) # Call("fcs")
<1>1. "fcs" \in Names
  BY DEF Names
<1>2. Call("fcs")[1] = "fcs"
  BY <1>1, ScriptIs
<1>3. ASSUME NEW name \in Names, Call(name) = Call("fcs") PROVE name = "fcs"
  BY <1>2, <1>3, ScriptIs
<1>4. ASSUME NEW b \in Bytes PROVE Write(b) # Call("fcs")
  <2>1. Write(b)[1] = "write"
    BY ScriptIs
  <2>2. QED
    BY <1>2, <2>1
<1>5. QED
  BY <1>3, <1>4

LEMMA NoOtherFcs ==
  /\ Call("open") # Call("fcs") /\ Call("wake") # Call("fcs") /\ Call("start") # Call("fcs")
  /\ Call("stop") # Call("fcs") /\ Call("read") # Call("fcs")
BY NotFcs DEF Names

LEMMA CheckIsAsked ==
  ASSUME TwoWireAssumption, WireTypes, CheckFcs, OnWrite \/ OnRead
  PROVE  transfer.kind = "read" /\ Asking(9)
<1>. ReadLen \in Nat
  BY DEF TwoWireAssumption
<1>1. calls # <<>> /\ calls[1] = Call("fcs")
  BY DEF CheckFcs
<1>2. ~OnWrite
  <2>1. SUFFICES ASSUME OnWrite PROVE FALSE
    OBVIOUS
  <2>2. PICK t : t = transfer /\ t.kind = "write"
    BY <2>1 DEF OnWrite
  <2>3. PICK bytes \in Seq(Bytes), n \in Nat : bytes = t.bytes /\ n = Len(bytes)
    <3>1. t \in Transfers \cup {NoTransfer}
      BY <2>2 DEF WireTypes
    <3>2. t.bytes \in Seq(Bytes)
      BY <2>2, <3>1, TransferIs
    <3>3. QED
      BY <3>2
  <2>4. PICK at \in 1 .. n + 6 : calls = Rest(Calls(t), at)
    BY <2>1, <2>2, <2>3 DEF OnWrite
  <2>5. PICK all \in Seq(AllCalls) :
          /\ all = Calls(t) /\ Len(all) = n + 5
          /\ all[1] = Call("open") /\ all[2] = Call("wake") /\ all[3] = Call("start")
          /\ \A k \in 1 .. n : all[k + 3] = Write(bytes[k])
          /\ all[n + 4] = Call("stop") /\ all[n + 5] = Call("open")
    BY <2>2, <2>3, WriteListIs
  <2>6. at \in 1 .. n + 5 /\ all[at] = Call("fcs")
    <3>1. at \in 1 .. Len(all) + 1 /\ calls = Rest(all, at)
      BY <2>3, <2>4, <2>5
    <3>2. at \in 1 .. Len(all) /\ calls[1] = all[at]
      BY ONLY all \in Seq(AllCalls), <3>1, <1>1, AtCall
    <3>3. QED
      BY <1>1, <2>3, <2>5, <3>2
  <2>7. at \in 4 .. n + 3
    <3>1. at # 1 /\ at # 2 /\ at # 3
      BY <2>5, <2>6, NoOtherFcs
    <3>2. at # n + 4 /\ at # n + 5
      BY <2>5, <2>6, NoOtherFcs
    <3>3. QED
      BY ONLY <2>6, n \in Nat, <3>1, <3>2
  <2>8. PICK k \in 1 .. n : at = k + 3
    BY <2>3, <2>7
  <2>9. bytes[k] \in Bytes
    BY <2>3, <2>8, ElementsAre
  <2>10. QED
    BY <2>5, <2>6, <2>8, <2>9, NotFcs
<1>3. ASSUME NEW at \in 1 .. ReadLen + 3, Reading(at) PROVE FALSE
  <2>1. PICK all \in Seq(AllCalls) :
          /\ all = Remaining /\ Len(all) = ReadLen + 2
          /\ \A k \in 1 .. ReadLen : all[k] = Call("read")
          /\ all[ReadLen + 1] = Call("stop") /\ all[ReadLen + 2] = Call("open")
    BY RemainingIs
  <2>2. at \in 1 .. ReadLen + 2 /\ all[at] = Call("fcs")
    <3>1. at \in 1 .. Len(all) + 1 /\ calls = Rest(all, at)
      BY <1>3, <2>1 DEF Reading
    <3>2. at \in 1 .. Len(all) /\ calls[1] = all[at]
      BY ONLY all \in Seq(AllCalls), <3>1, <1>1, AtCall
    <3>3. QED
      BY <1>1, <2>1, <3>2
  <2>3. QED
    BY <2>1, <2>2, NoOtherFcs
<1>4. ASSUME NEW at \in 1 .. 3, Leaving(at) PROVE FALSE
  <2>1. calls = Rest(Closing, at)
    BY <1>4 DEF Leaving
  <2>2. at = 1 \/ at = 2
    BY <1>1, <2>1, ClosingIs
  <2>3. QED
    BY <1>1, <2>1, <2>2, ClosingIs, NoOtherFcs
<1>5. OnRead /\ transfer.kind = "read"
  BY <1>2 DEF OnRead
<1>6. PICK at \in 1 .. 9 : Asking(at)
  BY <1>3, <1>4, <1>5 DEF OnRead
<1>7. at = 9
  <2>1. PICK all \in Seq(AllCalls) :
          /\ all = Calls(transfer) /\ Len(all) = 9
          /\ all[1] = Call("open") /\ all[2] = Call("wake") /\ all[3] = Call("start")
          /\ all[4] = Write(WriteAddress) /\ all[5] = Write(LearnedAt)
          /\ all[6] = Call("start") /\ all[7] = Write(ReadAddress)
          /\ all[8] = Call("read") /\ all[9] = Call("fcs")
    BY <1>5, ReadListIs
  <2>2. all[at] = Call("fcs")
    <3>1. at \in 1 .. Len(all) + 1 /\ calls = Rest(all, at)
      BY <1>6, <2>1 DEF Asking
    <3>2. calls[1] = all[at]
      BY ONLY all \in Seq(AllCalls), <3>1, <1>1, AtCall
    <3>3. QED
      BY <1>1, <3>2
  <2>3. /\ Write(WriteAddress) # Call("fcs") /\ Write(LearnedAt) # Call("fcs")
        /\ Write(ReadAddress) # Call("fcs")
    BY NotFcs, AskedIs
  <2>4. QED
    BY <2>1, <2>2, <2>3, NoOtherFcs
<1>8. QED
  BY <1>5, <1>6, <1>7

LEMMA CheckOnTrack ==
  ASSUME TwoWireAssumption, WireTypes, transfer.kind = "read", Asking(9), CheckFcs
  PROVE  OnRead' /\ WireTypes'
<1>. ReadLen \in Nat
  BY DEF TwoWireAssumption
<1>1. /\ step = 0 /\ scl = 0 /\ Drives(0) /\ Still /\ Giving(1) /\ ReadSoFar(1) /\ Knows(Both)
  BY DEF Asking, Addresses
<1>2. /\ UNCHANGED <<step, got, scl, out, latch, sda, pull, hxd, frames, gave, nacked>>
      /\ UNCHANGED <<transfer, fought, transfers>>
      /\ calls' = (IF FirstByteGood THEN ReadCalls ELSE <<>>) \o Closing
      /\ refused' = ~FirstByteGood
  BY DEF CheckFcs, lines, slave, ReadCalls
<1>3. /\ step' = 0 /\ scl' = 0 /\ Drives(0)' /\ Still' /\ Giving(1)' /\ ReadSoFar(1)' /\ Knows(Both)'
  BY <1>1, <1>2 DEF Drives, Still, Wants, Giving, ReadSoFar, Knows
<1>4. WireTypes'
  BY <1>2 DEF WireTypes, Levelled, ChipTyped
<1>5. CASE FirstByteGood
  <2>1. gave # <<>>
    <3>1. SUFFICES ASSUME gave = <<>> PROVE FALSE
      OBVIOUS
    <3>2. got[1] = Ones
      BY <1>1, <3>1 DEF ReadSoFar
    <3>3. Value(Ones) = 255
      BY DEF Value, Ones, Width
    <3>4. QED
      BY <1>5, <3>2, <3>3 DEF FirstByteGood
  <2>2. calls' = Remaining /\ ~refused' /\ gave' # <<>>
    BY <1>2, <1>5, <2>1 DEF Remaining
  <2>3. calls' = Rest(Remaining, 1)
    <3>1. Remaining \in Seq(AllCalls)
      BY RemainingIs
    <3>2. QED
      BY <2>2, <3>1, NoRest
  <2>4. CASE ReadLen = 0
    <3>1. ReadLen + 1 = 1
      BY <2>4
    <3>2. InStop' /\ Whole'
      BY <1>3, <2>2, <3>1, LastThenStop
    <3>3. Reads(1)'
      BY <1>3, <2>4, <3>2 DEF Reads
    <3>4. 1 \in 1 .. ReadLen + 3
      BY <2>4
    <3>5. QED
      BY <1>2, <1>4, <2>2, <2>3, <3>3, <3>4 DEF OnRead, Reading
  <2>5. CASE ReadLen > 0
    <3>1. InRead(2)'
      <4>1. ReadsOn(2)'
        BY <1>3 DEF ReadsOn
      <4>2. QED
        BY <4>1 DEF InRead
    <3>2. Reads(1)'
      BY <1>3, <2>2, <2>5, <3>1 DEF Reads
    <3>3. 1 \in 1 .. ReadLen + 3
      BY <2>5
    <3>4. QED
      BY <1>2, <1>4, <2>2, <2>3, <3>2, <3>3 DEF OnRead, Reading
  <2>6. QED
    BY <2>4, <2>5
<1>6. CASE ~FirstByteGood
  <2>1. refused' /\ calls' = <<>> \o Closing
    BY <1>2, <1>6
  <2>2. calls' = Rest(Closing, 1)
    BY <2>1, ClosingIs
  <2>3. InStop'
    BY <1>3, <2>1 DEF InStop, Sends, Giving
  <2>4. Leaving(1)'
    BY <1>3, <2>1, <2>2, <2>3 DEF Leaving, Leaves
  <2>5. QED
    BY <1>2, <1>4, <2>4 DEF OnRead
<1>7. QED
  BY <1>5, <1>6

-----------------------------------------------------------------------------
(* Behind a fight                                                          *)

LEMMA PinLost ==
  ASSUME WireTypes, Short, fought, Lost, PinOperation
  PROVE  Lost' /\ Short' /\ fought'
<1>1. Excused /\ scl = 1 /\ out = TRUE /\ latch = 1 /\ ChipTyped /\ sda \in {0, 1}
  BY DEF Lost, Drives, WireTypes, Levelled, Levels
<1>2. calls # Closing
  <2>1. SUFFICES ASSUME calls = Closing PROVE FALSE
    OBVIOUS
  <2>2. step = 8
    BY <2>1, ClosingIs DEF Lost
  <2>3. Script[calls[1]] = StopPins
    BY <2>1, ClosingIs, ScriptIs
  <2>4. QED
    BY <2>2, <2>3, PinDoes, LengthsAre
<1>3. calls = <<Call("open")>> /\ step \in 0 .. 3
  BY <1>2, PinDoes DEF Lost
<1>4. Script[calls[1]] = OpenPins
  <2>1. calls[1] = Call("open")
    BY <1>3
  <2>2. QED
    BY <2>1, ScriptIs
<1>5. step < 3 /\ Does(OpenPins[step + 1]) /\ calls' = calls
  BY <1>4, PinDoes, LengthsAre
<1>6. PICK p : p = OpenPins
  OBVIOUS
<1>7. p[1] = "out" /\ p[2] = "scl1" /\ p[3] = "sda1"
  BY <1>6 DEF OpenPins
<1>8. Moves(1, TRUE, 1)
  <2>1. CASE step = 0
    <3>1. Does("out")
      BY <1>5, <1>6, <1>7, <2>1
    <3>2. Moves(scl, TRUE, latch)
      BY <3>1, DrivesOut
    <3>3. QED
      BY <1>1, <3>2
  <2>2. CASE step = 1
    <3>1. Does("scl1")
      BY <1>5, <1>6, <1>7, <2>2
    <3>2. Moves(1, out, latch)
      BY <3>1, DrivesScl1
    <3>3. QED
      BY <1>1, <3>2
  <2>3. CASE step = 2
    <3>1. Does("sda1")
      BY <1>5, <1>6, <1>7, <2>3
    <3>2. Moves(scl, out, 1)
      BY <3>1, DrivesSda1
    <3>3. QED
      BY <1>1, <3>2
  <2>4. step = 0 \/ step = 1 \/ step = 2
    <3>1. step \in 0 .. 3 /\ step < 3
      BY <1>3, <1>5
    <3>2. QED
      BY ONLY <3>1
  <2>5. QED
    BY <2>1, <2>2, <2>3, <2>4
<1>9. /\ Driven(TRUE, 1) /\ scl' = 1
      /\ sda = 1 /\ sda' = 0 => ChipStarts
      /\ sda = 0 /\ sda' = 1 => ChipStops
      /\ sda' = sda => UNCHANGED slave
  BY ONLY <1>1, <1>8, StaysHigh
<1>10. sda' \in {0, 1} /\ refused' = refused /\ got' = got /\ fought' = fought /\ step' = step + 1
       /\ out' = TRUE /\ latch' = 1
  BY <1>9 DEF Driven, Held, Levels
<1>11. Lost'
  <2>1. Excused'
    BY <1>1, <1>10, PinDoes DEF Excused
  <2>2. QED
    BY <1>3, <1>5, <1>9, <1>10, <2>1 DEF Lost, Drives
<1>12. hxd' = hxd \/ hxd'.bits = <<>>
  <2>1. CASE sda' = sda
    BY <1>9, <2>1 DEF slave
  <2>2. CASE sda' # sda
    <3>1. ChipStarts \/ ChipStops
      BY <1>1, <1>9, <1>10, <2>2
    <3>2. QED
      BY <3>1 DEF ChipStarts, ChipStops
  <2>3. QED
    BY <2>1, <2>2
<1>13. Short'
  <2>1. Len(hxd'.bits) <= Width
    <3>1. CASE hxd' = hxd
      BY <3>1 DEF Short
    <3>2. CASE hxd'.bits = <<>>
      BY <3>2 DEF Width
    <3>3. QED
      BY <1>12, <3>1, <3>2
  <2>2. QED
    BY <1>10, <2>1 DEF Short
<1>14. QED
  BY <1>10, <1>11, <1>13

LEMMA NextLost ==
  ASSUME Lost, NextCall
  PROVE  Lost'
<1>1. Goes /\ calls # <<>> /\ calls' = Tail(calls)
  BY NextGoes
<1>2. step' = 0 /\ Excused' /\ scl' = 1 /\ Drives(1)'
  BY <1>1 DEF Lost, Goes, Drives, Excused, lines
<1>3. calls' = <<Call("open")>> \/ calls' = <<>>
  BY <1>1, ClosingIs DEF Lost
<1>4. QED
  BY <1>2, <1>3 DEF Lost

LEMMA CheckNotLost ==
  ASSUME Lost, CheckFcs
  PROVE  FALSE
<1>1. calls # <<>> /\ calls[1] = Call("fcs")
  BY DEF CheckFcs
<1>2. calls = Closing \/ calls = <<Call("open")>>
  BY <1>1 DEF Lost
<1>3. calls # Closing
  BY <1>1, ClosingIs, NoOtherFcs
<1>4. calls[1] = Call("open")
  BY <1>2, <1>3
<1>5. QED
  BY <1>1, <1>4, NoOtherFcs

-----------------------------------------------------------------------------
(* A code that asks                                                        *)

LEMMA DriftClocks ==
  ASSUME ChipTyped, Adrift, NEW bit, ChipClocks(bit)
  PROVE  Adrift' /\ hxd'.bits = hxd.bits /\ Wants' = Wants /\ UNCHANGED <<frames, nacked>>
<1>1. hxd' = hxd \/ (hxd.mode = "acked" /\ hxd' = [hxd EXCEPT !.mode = "ignore"])
  BY DEF ChipClocks, Adrift
<1>2. UNCHANGED <<frames, nacked>>
  BY DEF ChipClocks
<1>3. CASE hxd' = hxd
  BY <1>2, <1>3 DEF Adrift, Wants
<1>4. CASE hxd.mode = "acked" /\ hxd' = [hxd EXCEPT !.mode = "ignore"]
  BY <1>2, <1>4 DEF Adrift, Wants, ChipTyped
<1>5. QED
  BY <1>1, <1>3, <1>4

LEMMA DriftFalls ==
  ASSUME WireTypes, Short, Answers \subseteq Bytes, Adrift, ChipFalls
  PROVE  Adrift' /\ Len(hxd'.bits) <= Width /\ UNCHANGED <<frames, nacked>>
<1>1. /\ ChipTyped /\ Len(hxd.bits) <= Width
      /\ hxd.mode = "give" => hxd.bits \in Seq({0, 1}) /\ Len(hxd.bits) >= 1
  BY NotNothing DEF WireTypes, ChipTyped, Short
<1>2. CASE hxd.mode = "give"
  <2>1. ChipShifts
    BY <1>2 DEF ChipFalls
  <2>2. CASE Len(hxd.bits) = 1
    <3>1. hxd'.mode = "acked" /\ hxd'.bits = <<>>
      BY <1>1, <2>1, <2>2 DEF ChipShifts, ChipTyped
    <3>2. Len(hxd'.bits) = 0
      BY <3>1
    <3>3. Len(hxd'.bits) <= Width
      BY <3>2 DEF Width
    <3>4. QED
      BY <2>1, <3>1, <3>3 DEF ChipShifts, Adrift
  <2>3. CASE Len(hxd.bits) # 1
    <3>1. hxd'.mode = "give" /\ hxd'.bits = Tail(hxd.bits)
      BY <1>1, <1>2, <2>1, <2>3 DEF ChipShifts, ChipTyped
    <3>2. Len(Tail(hxd.bits)) = Len(hxd.bits) - 1
      BY <1>1, <1>2
    <3>3. QED
      BY <1>1, <2>1, <3>1, <3>2 DEF ChipShifts, Adrift, Width
  <2>4. QED
    BY <2>2, <2>3
<1>3. CASE hxd.mode = "acked"
  <2>1. ChipGivesNext
    BY <1>3 DEF ChipFalls
  <2>2. CASE hxd' = [hxd EXCEPT !.mode = "ignore"]
    <3>1. hxd'.mode = "ignore" /\ hxd'.bits = hxd.bits
      BY <1>1, <2>2 DEF ChipTyped
    <3>2. QED
      BY <1>1, <2>1, <3>1 DEF ChipGivesNext, Adrift
  <2>3. ASSUME NEW a \in Bytes, hxd' = Gives(a) PROVE Adrift' /\ Len(hxd'.bits) <= Width
    <3>1. hxd'.mode = "give" /\ hxd'.bits = Bits(a)
      BY <1>1, <2>3 DEF Gives, ChipTyped
    <3>2. Len(Bits(a)) = 8
      BY BitsAre
    <3>3. QED
      BY <3>1, <3>2 DEF Adrift, Width
  <2>4. Adrift' /\ Len(hxd'.bits) <= Width
    BY <2>1, <2>2, <2>3 DEF ChipGivesNext
  <2>5. QED
    BY <2>1, <2>4 DEF ChipGivesNext
<1>4. CASE hxd.mode = "ignore"
  BY <1>1, <1>4 DEF ChipFalls, Adrift, slave
<1>5. QED
  BY <1>2, <1>3, <1>4 DEF Adrift

\* In a byte written SCL is high over delays only.
Parts(act, at) ==
  \/ act \in {"out", "in", "sda0", "sda1"} /\ ~High(at) /\ ~High(at + 1)
  \/ act \in {"wait", "getack"} /\ (High(at) <=> High(at + 1))
  \/ act = "scl1" /\ ~High(at) /\ High(at + 1)
  \/ act = "scl0" /\ ~High(at + 1)

LEMMA PartsAre ==
  ASSUME NEW b \in Bytes, NEW at \in 0 .. 59
  PROVE  Parts(WriteData(b)[at + 1], at)
<1>1. PICK p : p = WriteData(b) /\ WriteTable(p, b)
  BY WriteIs
<1>2. CASE at \in 0 .. 2
  <2>1. \/ at + 1 = 1 /\ p[1] = "out"
        \/ at + 1 = 2 /\ p[2] = "scl0"
        \/ at + 1 = 3 /\ p[3] = "wait"
    BY <1>1, <1>2 DEF WriteTable
  <2>2. ~High(at) /\ ~High(at + 1)
    BY <1>2 DEF High
  <2>3. QED
    BY <1>1, <2>1, <2>2 DEF Parts
<1>3. CASE at \in 51 .. 59
  <2>1. /\ p[52] = "in" /\ p[53] = "wait" /\ p[54] = "scl1" /\ p[55] = "wait" /\ p[56] = "getack"
        /\ p[57] = "wait" /\ p[58] = "scl0" /\ p[59] = "wait" /\ p[60] = "wait"
    BY <1>1 DEF WriteTable
  <2>2. at \in {51, 52, 53, 54, 55, 56, 57, 58, 59}
    BY <1>3
  <2>3. QED
    BY <1>1, <2>1, <2>2 DEF Parts, High
<1>4. ASSUME NEW k \in 1 .. 8, NEW j \in 0 .. 5, at = 6 * k - 3 + j
      PROVE  Parts(WriteData(b)[at + 1], at)
  <2>1. /\ j \in {0, 2, 4} => WriteData(b)[at + 1] = "wait"
        /\ j = 1 => WriteData(b)[at + 1] = (IF Bits(b)[k] = 1 THEN "sda1" ELSE "sda0")
        /\ j = 3 => WriteData(b)[at + 1] = "scl1"
        /\ j = 5 => WriteData(b)[at + 1] = "scl0"
    BY <1>4, BitOps
  <2>2. /\ j \in {0, 1, 2} => ~High(at) /\ ~High(at + 1)
        /\ j = 3 => ~High(at) /\ High(at + 1)
        /\ j = 4 => High(at) /\ High(at + 1)
        /\ j = 5 => ~High(at + 1)
    <3>1. k \in {1, 2, 3, 4, 5, 6, 7, 8} /\ j \in {0, 1, 2, 3, 4, 5}
      OBVIOUS
    <3>2. QED
      BY ONLY <1>4, <3>1 DEF High
  <2>3. QED
    BY <2>1, <2>2 DEF Parts
<1>5. at \in 3 .. 50 => \E k \in 1 .. 8, j \in 0 .. 5 : at = 6 * k - 3 + j
  <2>1. SUFFICES ASSUME at \in 3 .. 50 PROVE \E k \in 1 .. 8, j \in 0 .. 5 : at = 6 * k - 3 + j
    OBVIOUS
  <2>2. (at + 3) \div 6 \in 1 .. 8 /\ (at - 3) % 6 \in 0 .. 5
    BY <2>1
  <2>3. at = 6 * ((at + 3) \div 6) - 3 + ((at - 3) % 6)
    BY <2>1
  <2>4. QED
    BY <2>2, <2>3
<1>6. QED
  BY <1>2, <1>3, <1>4, <1>5

LEMMA StraysStep ==
  ASSUME WireTypes, Short, Answers \subseteq Bytes, got = <<>>,
         NEW b \in Bytes, Strays, step < 60, Does(WriteData(b)[step + 1])
  PROVE  Strays' /\ Short' /\ UNCHANGED <<frames, nacked, got, refused>>
<1>1. PICK act : act = WriteData(b)[step + 1]
  OBVIOUS
<1>2. step \in 0 .. 59 /\ Does(act) /\ Parts(act, step)
  <2>1. step \in 0 .. 60 /\ step < 60
    BY DEF Strays
  <2>2. PICK at \in 0 .. 59 : at = step
    BY ONLY <2>1
  <2>3. Parts(WriteData(b)[at + 1], at)
    BY PartsAre
  <2>4. QED
    BY <1>1, <2>2, <2>3
<1>3. ChipTyped /\ Len(hxd.bits) <= Width
  BY DEF WireTypes, Short
<1>4. step + 1 \in 0 .. 60
  BY <1>2
<1>5. ASSUME step' = step + 1, scl' = (IF High(step + 1) THEN 1 ELSE 0), Adrift',
             Len(hxd'.bits) <= Width, UNCHANGED <<frames, nacked, got, refused>>
      PROVE  Strays' /\ Short' /\ UNCHANGED <<frames, nacked, got, refused>>
  BY <1>4, <1>5 DEF Strays, Short
<1>6. CASE act \in {"out", "in", "sda0", "sda1"} /\ ~High(step) /\ ~High(step + 1)
  <2>1. scl = 0
    BY <1>6 DEF Strays
  <2>2. PICK o, l : Moves(0, o, l)
    BY <1>2, <1>6, <2>1, DrivesOut, DrivesIn, DrivesSda0, DrivesSda1
  <2>3. Driven(o, l) /\ scl' = 0 /\ UNCHANGED slave
    BY <2>1, <2>2, StaysLow
  <2>4. QED
    BY <1>3, <1>5, <1>6, <2>3 DEF Driven, Held, slave, Adrift, Strays
<1>7. CASE act \in {"wait", "getack"} /\ (High(step) <=> High(step + 1))
  <2>1. Held /\ UNCHANGED <<lines, slave, got>> /\ step' = step + 1
    BY <1>2, <1>7, Waits, Looks
  <2>2. QED
    BY <1>3, <1>5, <1>7, <2>1 DEF Held, lines, slave, Adrift, Strays
<1>8. CASE act = "scl1" /\ ~High(step) /\ High(step + 1)
  <2>1. scl = 0 /\ Moves(1, out, latch)
    BY <1>2, <1>8, DrivesScl1 DEF Strays
  <2>2. Driven(out, latch) /\ scl' = 1 /\ ChipClocks(sda')
    BY <2>1, Rises
  <2>3. Adrift' /\ hxd'.bits = hxd.bits /\ UNCHANGED <<frames, nacked>>
    BY <1>3, <2>2, DriftClocks DEF Strays
  <2>4. QED
    BY <1>3, <1>5, <1>8, <2>2, <2>3 DEF Driven, Held
<1>9. CASE act = "scl0" /\ ~High(step + 1)
  <2>1. Moves(0, out, latch)
    BY <1>2, <1>9, DrivesScl0
  <2>2. CASE scl = 0
    <3>1. Driven(out, latch) /\ scl' = 0 /\ UNCHANGED slave
      BY <2>1, <2>2, StaysLow
    <3>2. QED
      BY <1>3, <1>5, <1>9, <3>1 DEF Driven, Held, slave, Adrift, Strays
  <2>3. CASE scl = 1
    <3>1. Driven(out, latch) /\ scl' = 0 /\ ChipFalls
      BY <2>1, <2>3, Falls
    <3>2. Adrift' /\ Len(hxd'.bits) <= Width /\ UNCHANGED <<frames, nacked>>
      BY <3>1, DriftFalls DEF Strays
    <3>3. QED
      BY <1>5, <1>9, <3>1, <3>2 DEF Driven, Held
  <2>4. QED
    BY <2>2, <2>3 DEF WireTypes
<1>10. QED
  BY <1>2, <1>6, <1>7, <1>8, <1>9 DEF Parts

\* The stop behind such a code: the chip sees it, or holds SDA low against it.
LEMMA StraysOffStep ==
  ASSUME WireTypes, Short, got = <<>>, StraysOff, Does(StopPins[step + 1])
  PROVE  /\ Short' /\ UNCHANGED <<frames, nacked, got, refused>>
         /\ \/ StraysOff'
            \/ step' = 8 /\ scl' = 1 /\ Drives(1)' /\ (fought' \/ InStop')
<1>1. PICK p : p = StopPins
  OBVIOUS
<1>2. /\ p[1] = "out" /\ p[2] = "scl0" /\ p[3] = "sda0" /\ p[4] = "wait" /\ p[5] = "scl1"
      /\ p[6] = "wait" /\ p[7] = "sda1" /\ p[8] = "wait"
  BY <1>1 DEF StopPins
<1>3. /\ step \in 0 .. 7 /\ ChipTyped /\ out \in BOOLEAN /\ latch \in {0, 1} /\ pull \in BOOLEAN
      /\ sda \in Levels(out, latch, pull) /\ Len(hxd.bits) <= Width
      /\ scl = (IF step >= 5 THEN 1 ELSE 0) /\ (step >= 1 => out = TRUE)
      /\ step \in 3 .. 6 => latch = 0
      /\ step = 7 => latch = 1
      /\ step <= 6 => Adrift
      /\ step = 6 => Still
      /\ step = 7 => hxd.mode = "idle" \/ Wants
  BY DEF WireTypes, Levelled, StraysOff, Short
<1>4. ASSUME UNCHANGED <<got, refused>>, UNCHANGED slave
      PROVE  /\ Short' /\ UNCHANGED <<frames, nacked, got, refused>> /\ Wants' = Wants /\ hxd' = hxd
             /\ Adrift' = Adrift
  BY <1>3, <1>4 DEF Short, slave, Wants, Adrift
<1>5. CASE step \in {0, 1, 2}
  <2>1. scl = 0 /\ (step >= 1 => out = TRUE)
    BY <1>3, <1>5
  <2>2. /\ step' = step + 1 /\ out' = TRUE /\ (step = 2 => latch' = 0) /\ scl' = 0
        /\ UNCHANGED <<got, refused>> /\ UNCHANGED slave
    <3>1. CASE step = 0
      <4>1. Does("out")
        BY <1>1, <1>2, <3>1
      <4>2. Moves(0, TRUE, latch)
        BY <2>1, <4>1, DrivesOut
      <4>3. Driven(TRUE, latch) /\ scl' = 0 /\ UNCHANGED slave
        BY <2>1, <4>2, StaysLow
      <4>4. QED
        BY <2>1, <3>1, <4>3 DEF Driven, Held
    <3>2. CASE step = 1
      <4>1. Does("scl0")
        BY <1>1, <1>2, <3>2
      <4>2. Moves(0, out, latch)
        BY <2>1, <4>1, DrivesScl0
      <4>3. Driven(out, latch) /\ scl' = 0 /\ UNCHANGED slave
        BY <2>1, <4>2, StaysLow
      <4>4. QED
        BY <2>1, <3>2, <4>3 DEF Driven, Held
    <3>3. CASE step = 2
      <4>1. Does("sda0")
        BY <1>1, <1>2, <3>3
      <4>2. Moves(0, out, 0)
        BY <2>1, <4>1, DrivesSda0
      <4>3. Driven(out, 0) /\ scl' = 0 /\ UNCHANGED slave
        BY <2>1, <4>2, StaysLow
      <4>4. QED
        BY <2>1, <3>3, <4>3 DEF Driven, Held
    <3>4. QED
      BY <1>5, <3>1, <3>2, <3>3
  <2>3. StraysOff'
    BY <1>3, <1>4, <1>5, <2>2 DEF StraysOff
  <2>4. QED
    BY <1>4, <2>2, <2>3
<1>6. CASE step \in {3, 5}
  <2>1. Does("wait")
    BY <1>1, <1>2, <1>6
  <2>2. Held /\ UNCHANGED <<lines, slave, got>> /\ step' = step + 1 /\ pull = Wants
    BY <2>1, Waits
  <2>3. /\ Still' /\ out' = TRUE /\ latch' = 0 /\ scl' = scl /\ refused' = refused
        /\ scl = (IF step' >= 5 THEN 1 ELSE 0)
    BY <1>3, <1>4, <1>6, <2>2 DEF Held, lines, Still
  <2>4. StraysOff'
    BY <1>3, <1>4, <1>6, <2>2, <2>3 DEF StraysOff
  <2>5. QED
    BY <1>4, <2>2, <2>3, <2>4
<1>7. CASE step = 4
  <2>1. Does("scl1") /\ scl = 0
    BY <1>1, <1>2, <1>3, <1>7
  <2>2. Driven(out, latch) /\ scl' = 1 /\ ChipClocks(sda')
    BY <2>1, DrivesScl1, Rises
  <2>3. Adrift' /\ hxd'.bits = hxd.bits /\ UNCHANGED <<frames, nacked>>
    BY <1>3, <1>7, <2>2, DriftClocks
  <2>4. step' = 5 /\ out' = TRUE /\ latch' = 0 /\ UNCHANGED <<got, refused>>
    BY <1>3, <1>7, <2>2 DEF Driven, Held
  <2>5. Short'
    BY <1>3, <2>3, <2>4 DEF Short
  <2>6. StraysOff'
    BY <2>2, <2>3, <2>4 DEF StraysOff
  <2>7. QED
    BY <2>3, <2>4, <2>5, <2>6
<1>8. CASE step = 6
  <2>1. Does("sda1") /\ scl = 1 /\ out = TRUE /\ sda = 0 /\ Still
    BY <1>1, <1>2, <1>3, <1>8 DEF Levels
  <2>2. Moves(1, out, 1)
    BY <2>1, DrivesSda1
  <2>3. /\ Driven(out, 1) /\ scl' = 1
        /\ sda = 0 /\ sda' = 1 => ChipStops
        /\ sda' = sda => UNCHANGED slave
    BY <2>1, <2>2, StaysHigh
  <2>4. step' = 7 /\ out' = TRUE /\ latch' = 1 /\ UNCHANGED <<got, refused>>
    BY <1>8, <2>1, <2>3 DEF Driven, Held
  <2>5. CASE sda' = 1
    <3>1. ChipStops
      BY <2>1, <2>3, <2>5
    <3>2. hxd'.mode = "idle" /\ hxd'.bits = <<>> /\ UNCHANGED <<frames, nacked>>
      BY <3>1 DEF ChipStops
    <3>3. Len(hxd'.bits) = 0
      BY <3>2
    <3>4. Short'
      BY <1>3, <2>4, <3>3 DEF Short, Width
    <3>5. StraysOff'
      BY <2>3, <2>4, <3>2 DEF StraysOff
    <3>6. QED
      BY <2>4, <3>2, <3>4, <3>5
  <2>6. CASE sda' # 1
    <3>1. sda' = 0 /\ pull
      <4>1. sda' \in Levels(out, 1, pull)
        BY <2>3 DEF Driven
      <4>2. QED
        BY <1>3, <2>1, <2>6, <4>1 DEF Levels
    <3>2. UNCHANGED slave
      BY <2>1, <2>3, <3>1
    <3>3. Wants
      <4>1. pull = Wants
        BY <2>1 DEF Still
      <4>2. QED
        BY <3>1, <4>1, Zenon
    <3>4. StraysOff'
      BY <1>4, <2>3, <2>4, <3>2, <3>3 DEF StraysOff
    <3>5. QED
      BY <1>4, <2>4, <3>2, <3>4
  <2>7. QED
    BY <2>5, <2>6
<1>9. CASE step = 7
  <2>1. Does("wait") /\ scl = 1 /\ out = TRUE /\ latch = 1
    BY <1>1, <1>2, <1>3, <1>9
  <2>2. /\ fought' = (fought \/ Fight) /\ step' = 8 /\ UNCHANGED <<got, lines, slave>> /\ Held
        /\ pull = Wants
    BY <1>9, <2>1, Waits
  <2>3. /\ scl' = 1 /\ out' = TRUE /\ latch' = 1 /\ pull' = pull /\ hxd' = hxd
        /\ UNCHANGED <<got, refused>>
    BY <2>1, <2>2 DEF Held, lines, slave
  <2>4. Drives(1)'
    BY <2>3 DEF Drives
  <2>5. CASE Wants
    <3>1. pull
      BY <2>2, <2>5, Zenon
    <3>2. Fight
      BY <2>1, <3>1 DEF Fight
    <3>3. fought'
      BY <2>2, <3>2, Zenon
    <3>4. QED
      BY <1>4, <2>2, <2>3, <2>4, <3>3
  <2>6. CASE ~Wants
    <3>1. ~pull
      BY <2>2, <2>6, Zenon
    <3>2. hxd'.mode = "idle" /\ ~pull'
      BY <1>3, <1>9, <2>3, <2>6, <3>1
    <3>3. InStop'
      BY <2>2, <2>3, <3>2 DEF InStop
    <3>4. QED
      BY <1>4, <2>2, <2>3, <2>4, <3>3
  <2>7. QED
    BY <2>5, <2>6
<1>10. QED
  BY <1>3, <1>5, <1>6, <1>7, <1>8, <1>9

\* The list of calls behind the first byte of such a code.
LEMMA StrayingIs ==
  ASSUME TwoWireAssumption, WireTypes, Straying
  PROVE  \E t \in {transfer}, bytes \in Seq(Bytes), n \in Nat, at \in Nat :
           /\ at \in 5 .. n + 4 /\ t.kind = "write" /\ bytes = t.bytes /\ n = Len(bytes)
           /\ calls = Rest(Calls(t), at) /\ calls # <<>>
           /\ Calls(t) \in Seq(AllCalls) /\ Len(Calls(t)) = n + 5
           /\ calls[1] = Calls(t)[at] /\ Tail(calls) = Rest(Calls(t), at + 1)
           /\ at = n + 4 => StraysOff /\ calls[1] = Call("stop") /\ calls = Closing
           /\ at # n + 4 => Strays /\ \E b \in Bytes : calls[1] = Write(b)
<1>1. PICK t : t = transfer /\ t.kind = "write"
  BY DEF Straying
<1>2. PICK bytes \in Seq(Bytes), n \in Nat : bytes = t.bytes /\ n = Len(bytes)
  <2>1. t \in Transfers \cup {NoTransfer}
    BY <1>1 DEF WireTypes
  <2>2. t.bytes \in Seq(Bytes)
    BY <1>1, <2>1, TransferIs
  <2>3. QED
    BY <2>2
<1>3. PICK at \in 5 .. n + 4 :
        calls = Rest(Calls(t), at) /\ (IF at = n + 4 THEN StraysOff ELSE Strays)
  BY <1>1, <1>2 DEF Straying
<1>4. PICK all \in Seq(AllCalls) :
        /\ all = Calls(t) /\ Len(all) = n + 5
        /\ \A k \in 1 .. n : all[k + 3] = Write(bytes[k])
        /\ all[n + 4] = Call("stop") /\ all[n + 5] = Call("open")
  BY <1>1, <1>2, WriteListIs
<1>5. /\ calls = Rest(all, at) /\ calls # <<>> /\ calls[1] = all[at]
      /\ Tail(calls) = Rest(all, at + 1)
  <2>1. at \in 1 .. Len(all)
    BY <1>2, <1>3, <1>4
  <2>2. Rest(all, at) # <<>> /\ Rest(all, at)[1] = all[at] /\ Tail(Rest(all, at)) = Rest(all, at + 1)
    BY ONLY all \in Seq(AllCalls), <2>1, RestIs
  <2>3. QED
    BY <1>3, <1>4, <2>2
<1>6. at = n + 4 => calls = Closing
  <2>1. SUFFICES ASSUME at = n + 4 PROVE calls = Closing
    OBVIOUS
  <2>2. Len(all) = at + 1 /\ at \in Nat
    BY <1>2, <1>4, <2>1
  <2>3. /\ calls \in Seq(AllCalls) /\ Len(calls) = 2
        /\ \A i \in 1 .. 2 : calls[i] = all[at - 1 + i]
    BY ONLY <1>5, <2>2, all \in Seq(AllCalls) DEF Rest
  <2>4. calls[1] = Call("stop") /\ calls[2] = Call("open")
    BY <1>4, <2>1, <2>3
  <2>5. Closing \in Seq(AllCalls) /\ Len(Closing) = 2
        /\ \A i \in 1 .. 2 : Closing[i] = calls[i]
    BY <2>4, ClosingIs
  <2>6. QED
    BY ONLY <2>3, <2>5, SameElements
<1>7. at # n + 4 => \E b \in Bytes : calls[1] = Write(b)
  <2>1. SUFFICES ASSUME at # n + 4 PROVE \E b \in Bytes : calls[1] = Write(b)
    OBVIOUS
  <2>2. PICK k \in 1 .. n : at = k + 3
    BY <1>2, <1>3, <2>1
  <2>3. bytes[k] \in Bytes
    BY <1>2, <2>2, ElementsAre
  <2>4. QED
    BY <1>4, <1>5, <2>2, <2>3
<1>8. at = n + 4 => StraysOff /\ calls[1] = Call("stop")
  BY <1>3, <1>4, <1>5
<1>9. at # n + 4 => Strays
  BY <1>3
<1>10. at \in Nat /\ at \in 5 .. n + 4 /\ t \in {transfer}
  BY <1>1, <1>2, <1>3
<1>11. Calls(t) \in Seq(AllCalls) /\ Len(Calls(t)) = n + 5 /\ calls[1] = Calls(t)[at]
       /\ calls = Rest(Calls(t), at) /\ Tail(calls) = Rest(Calls(t), at + 1) /\ calls # <<>>
  BY <1>4, <1>5
<1>12. QED
  BY <1>1, <1>2, <1>6, <1>7, <1>8, <1>9, <1>10, <1>11

LEMMA PinStraying ==
  ASSUME TwoWireAssumption, WireTypes, Short, Straying, PinOperation
  PROVE  Short' /\ (Straying' \/ (IF fought' THEN Lost' ELSE OnWrite'))
<1>. Answers \subseteq Bytes
  BY DEF TwoWireAssumption
<1>1. PICK t \in {transfer}, bytes \in Seq(Bytes), n \in Nat, at \in Nat :
           /\ at \in 5 .. n + 4 /\ t.kind = "write" /\ bytes = t.bytes /\ n = Len(bytes)
           /\ calls = Rest(Calls(t), at) /\ calls # <<>>
           /\ at = n + 4 => StraysOff /\ calls[1] = Call("stop") /\ calls = Closing
           /\ at # n + 4 => Strays /\ \E b \in Bytes : calls[1] = Write(b)
  BY StrayingIs
<1>2. /\ transfer.kind = "write" /\ ~refused /\ AsksToRead(bytes) /\ got = <<>>
      /\ Knows(<<Taken(bytes)>>)
  BY <1>1 DEF Straying
<1>3. /\ step < Len(Script[calls[1]]) /\ Does(Script[calls[1]][step + 1])
      /\ calls' = calls /\ transfer' = transfer
  BY PinDoes
<1>4. ASSUME UNCHANGED <<frames, nacked, got, refused>>,
             IF at = n + 4 THEN StraysOff' ELSE Strays'
      PROVE  Straying'
  <2>1. Knows(<<Taken(bytes)>>)'
    BY <1>2, <1>4 DEF Knows
  <2>2. /\ transfer'.kind = "write" /\ ~refused' /\ AsksToRead(transfer'.bytes) /\ got' = <<>>
        /\ transfer'.bytes = bytes /\ calls' = Rest(Calls(transfer'), at)
    BY <1>1, <1>2, <1>3, <1>4
  <2>3. QED
    BY <1>1, <1>4, <2>1, <2>2 DEF Straying
<1>5. CASE at # n + 4
  <2>1. PICK b \in Bytes : calls[1] = Write(b)
    BY <1>1, <1>5
  <2>2. Strays /\ step < 60 /\ Does(WriteData(b)[step + 1])
    <3>1. Script[calls[1]] = WriteData(b) /\ Len(WriteData(b)) = 60
      BY <2>1, ScriptIs, LengthsAre
    <3>2. Strays
      BY <1>1, <1>5
    <3>3. QED
      BY <1>3, <3>1, <3>2
  <2>3. Strays' /\ Short' /\ UNCHANGED <<frames, nacked, got, refused>>
    BY <1>2, <2>2, StraysStep
  <2>4. QED
    BY <1>4, <1>5, <2>3
<1>6. CASE at = n + 4
  <2>1. StraysOff /\ Does(StopPins[step + 1])
    BY <1>1, <1>3, <1>6, ScriptIs
  <2>2. /\ Short' /\ UNCHANGED <<frames, nacked, got, refused>>
        /\ \/ StraysOff'
           \/ step' = 8 /\ scl' = 1 /\ Drives(1)' /\ (fought' \/ InStop')
    BY <1>2, <2>1, StraysOffStep
  <2>3. CASE StraysOff'
    BY <1>4, <1>6, <2>2, <2>3
  <2>4. CASE fought' /\ step' = 8 /\ scl' = 1 /\ Drives(1)'
    <3>1. Excused'
      BY <1>1, <1>2, <1>3 DEF Excused
    <3>2. calls' = Closing
      BY <1>1, <1>3, <1>6
    <3>3. Lost'
      BY <2>4, <3>1, <3>2 DEF Lost
    <3>4. QED
      BY <2>2, <2>4, <3>3
  <2>5. CASE ~fought' /\ InStop'
    <3>1. Knows(<<Taken(bytes)>>)'
      BY <1>2, <2>2 DEF Knows
    <3>2. at \in 1 .. Len(bytes) + 6 /\ ~(at \in 1 .. 3) /\ at = Len(bytes) + 4
      BY <1>1, <1>6
    <3>3. Writes(bytes, at)'
      BY <2>5, <3>1, <3>2 DEF Writes
    <3>4. /\ transfer'.kind = "write" /\ ~refused' /\ transfer'.bytes = bytes
          /\ calls' = Rest(Calls(transfer'), at)
      BY <1>1, <1>2, <1>3, <2>2
    <3>5. OnWrite'
      BY <3>2, <3>3, <3>4 DEF OnWrite
    <3>6. QED
      BY <2>2, <2>5, <3>5
  <2>6. QED
    BY <2>2, <2>3, <2>4, <2>5
<1>7. QED
  BY <1>5, <1>6

LEMMA NextStraying ==
  ASSUME TwoWireAssumption, WireTypes, Straying, NextCall
  PROVE  Straying'
<1>1. PICK t \in {transfer}, bytes \in Seq(Bytes), n \in Nat, at \in Nat :
           /\ at \in 5 .. n + 4 /\ t.kind = "write" /\ bytes = t.bytes /\ n = Len(bytes)
           /\ Tail(calls) = Rest(Calls(t), at + 1)
           /\ at = n + 4 => StraysOff /\ calls[1] = Call("stop") /\ calls = Closing
           /\ at # n + 4 => Strays /\ \E b \in Bytes : calls[1] = Write(b)
  BY StrayingIs
<1>2. /\ transfer.kind = "write" /\ ~refused /\ AsksToRead(bytes) /\ got = <<>>
      /\ Knows(<<Taken(bytes)>>)
  BY <1>1 DEF Straying
<1>3. Goes /\ ~(step < Len(Script[calls[1]])) /\ calls' = Tail(calls)
  BY NextGoes
<1>4. at # n + 4
  <2>1. SUFFICES ASSUME at = n + 4 PROVE FALSE
    OBVIOUS
  <2>2. step \in 0 .. 7 /\ Script[calls[1]] = StopPins
    BY <1>1, <2>1, ScriptIs DEF StraysOff
  <2>3. QED
    BY <1>3, <2>2, LengthsAre
<1>5. Strays /\ step = 60
  <2>1. PICK b \in Bytes : calls[1] = Write(b)
    BY <1>1, <1>4
  <2>2. ~(step < 60)
    BY <1>3, <2>1, ScriptIs, LengthsAre
  <2>3. Strays
    BY <1>1, <1>4
  <2>4. step \in 0 .. 60
    BY <2>3 DEF Strays
  <2>5. QED
    BY <2>2, <2>3, <2>4
<1>6. scl = 0 /\ Adrift
  BY <1>5 DEF Strays, High
<1>7. /\ step' = 0 /\ scl' = 0 /\ Adrift' /\ got' = <<>> /\ refused' = refused
      /\ Knows(<<Taken(bytes)>>)' /\ transfer' = transfer
  BY <1>2, <1>3, <1>6 DEF Goes, lines, slave, Adrift, Knows
<1>8. Strays' /\ StraysOff'
  BY <1>7 DEF Strays, StraysOff, High
<1>9. at + 1 \in 5 .. Len(bytes) + 4
  BY <1>1, <1>4
<1>10. /\ transfer'.kind = "write" /\ ~refused' /\ AsksToRead(transfer'.bytes)
       /\ transfer'.bytes = bytes /\ calls' = Rest(Calls(transfer'), at + 1)
  BY <1>1, <1>2, <1>3, <1>7
<1>11. QED
  BY <1>7, <1>8, <1>9, <1>10 DEF Straying

LEMMA StrayingGoesOn ==
  ASSUME TwoWireAssumption, WireTypes, Straying
  PROVE  ~CheckFcs /\ ~Idle
<1>1. calls # <<>> /\ (calls[1] = Call("stop") \/ \E b \in Bytes : calls[1] = Write(b))
  BY StrayingIs
<1>2. calls[1] # Call("fcs")
  BY <1>1, NotFcs, NoOtherFcs
<1>3. QED
  BY <1>1, <1>2 DEF CheckFcs, Idle

-----------------------------------------------------------------------------
(* The chip's hold follows                                                 *)

LEMMA HoldFollows ==
  ASSUME WireTypes, Short, ChipDrives
  PROVE  /\ WireTypes' /\ Short'
         /\ UNCHANGED <<calls, step, got, refused, scl, out, latch, hxd, frames, gave, nacked>>
         /\ UNCHANGED <<transfer, fought, transfers>>
<1>1. /\ UNCHANGED <<calls, step, got, refused, scl, out, latch, hxd, frames, gave, nacked>>
      /\ UNCHANGED <<transfer, fought, transfers>>
  BY DEF ChipDrives, driver, slave
<1>2. pull' = Wants /\ sda' \in Levels(out, latch, Wants) /\ Wants \in BOOLEAN
  BY DEF ChipDrives, Wants
<1>3. Levelled' /\ pull' \in BOOLEAN
  BY <1>1, <1>2 DEF Levelled
<1>4. WireTypes'
  BY <1>1, <1>3 DEF WireTypes, ChipTyped
<1>5. Short'
  BY <1>1 DEF Short
<1>6. QED
  BY <1>1, <1>4, <1>5

LEMMA NothingFollows ==
  ASSUME WireTypes, ChipDrives
  PROVE  /\ ~Still /\ ~(~Wants /\ ~pull)
         /\ ~Quiet /\ ~InWake
         /\ \A all : ~InStart(all)
<1>1. ~Still /\ ~(~Wants /\ ~pull)
  BY DEF ChipDrives, Still, WireTypes, Wants
<1>2. ~Quiet /\ ~InWake
  BY <1>1 DEF Quiet, InWake, Wants
<1>3. ASSUME NEW all, InStart(all) PROVE FALSE
  <2>1. ~pull /\ hxd = [mode |-> "take", bits |-> <<>>, reads |-> FALSE]
    BY <1>1, <1>3 DEF InStart
  <2>2. ~Wants
    BY <2>1 DEF Wants
  <2>3. QED
    BY <1>1, <2>1, <2>2
<1>4. QED
  BY <1>1, <1>2, <1>3

LEMMA WriteFollows ==
  ASSUME WireTypes, Short, ChipDrives, NEW before, NEW cur, NEW b, InWrite(before, cur, b)
  PROVE  InWrite(before, cur, b)'
<1>1. ~Still /\ ~(~Wants /\ ~pull)
  BY NothingFollows
<1>2. UNCHANGED <<calls, step, got, refused, scl, out, latch, hxd, frames, gave, nacked>>
  BY HoldFollows
<1>3. \A word : Hears(word) => ~Wants
  BY DEF Hears, Wants
<1>4. ~Leads(before, cur)
  BY <1>1, <1>3 DEF Leads
<1>5. \A k \in 1 .. Width, j \in 0 .. 5 : ~SendsBit(before, cur, b, k, j)
  BY <1>1, <1>3 DEF SendsBit
<1>6. CASE AwaitsAck(before, cur, b)
  <2>1. step \in 51 .. 52
    BY <1>1, <1>6 DEF AwaitsAck
  <2>2. AwaitsAck(before, cur, b)'
    BY <1>2, <1>6, <2>1 DEF AwaitsAck, Asks, Took
  <2>3. QED
    BY <1>2, <2>1, <2>2 DEF InWrite
<1>7. CASE Acked(before, cur, b)
  <2>1. step = 58
    BY <1>1, <1>7 DEF Acked
  <2>2. (IF cur = <<>> /\ b = ReadAddress THEN Giving(0) ELSE Hears(<<>>) /\ gave = <<>>)'
    BY <1>2, <1>7 DEF Acked, Giving, Hears
  <2>3. Acked(before, cur, b)'
    BY <1>2, <1>7, <2>1, <2>2 DEF Acked, Took
  <2>4. QED
    BY <1>2, <2>1, <2>3 DEF InWrite
<1>8. QED
  BY <1>4, <1>5, <1>6, <1>7 DEF InWrite

LEMMA ReadFollows ==
  ASSUME WireTypes, Short, ChipDrives, NEW n, InRead(n)
  PROVE  InRead(n)'
<1>1. ~Still /\ ~(~Wants /\ ~pull)
  BY NothingFollows
<1>2. UNCHANGED <<calls, step, got, refused, scl, out, latch, hxd, frames, gave, nacked>>
  BY HoldFollows
<1>3. ~ReadsOn(n)
  BY <1>1 DEF ReadsOn
<1>4. CASE \E k \in 1 .. Width, j \in 0 .. 4 : ReadsBit(n, k, j)
  <2>1. PICK k \in 1 .. Width, j \in 0 .. 4 : ReadsBit(n, k, j)
    BY <1>4
  <2>2. j = 4
    BY <1>1, <2>1 DEF ReadsBit
  <2>3. ReadsBit(n, k, 4)'
    BY <1>2, <2>1, <2>2 DEF ReadsBit, Holds, ReadPart, Part
  <2>4. 4 \in 0 .. 4
    OBVIOUS
  <2>5. QED
    BY <2>3, <2>4 DEF InRead
<1>5. ~Acks(n)
  <2>1. SUFFICES ASSUME Acks(n) PROVE FALSE
    OBVIOUS
  <2>2. hxd.mode \in {"acked", "ignore"} /\ ~pull
    BY <2>1 DEF Acks, Holds, Width
  <2>3. ~Wants
    BY <2>2 DEF Wants
  <2>4. QED
    BY <1>1, <2>2, <2>3
<1>6. CASE HasAcked(n)
  <2>1. step = 51
    BY <1>1, <1>6 DEF HasAcked
  <2>2. HasAcked(n)'
    BY <1>2, <1>6, <2>1 DEF HasAcked, Drives, Giving, ReadSoFar
  <2>3. QED
    BY <2>2 DEF InRead
<1>7. QED
  BY <1>3, <1>4, <1>5, <1>6 DEF InRead

LEMMA StopFollows ==
  ASSUME WireTypes, Short, ChipDrives, InStop
  PROVE  InStop'
<1>1. ~Still /\ ~(~Wants /\ ~pull)
  BY NothingFollows
<1>2. UNCHANGED <<calls, step, got, refused, scl, out, latch, hxd, frames, gave, nacked>>
  BY HoldFollows
<1>3. step = 7
  <2>1. step # 8
    <3>1. SUFFICES ASSUME step = 8 PROVE FALSE
      OBVIOUS
    <3>2. hxd.mode = "idle" /\ ~pull
      BY <3>1 DEF InStop
    <3>3. QED
      BY <1>1, <3>2 DEF Wants
  <2>2. QED
    BY <1>1, <2>1 DEF InStop
<1>4. QED
  BY <1>2, <1>3 DEF InStop, Sends, Wants

LEMMA TrackFollows ==
  ASSUME WireTypes, Short, ChipDrives, OnTrack
  PROVE  OnTrack'
<1>1. /\ UNCHANGED <<calls, step, got, refused, scl, out, latch, hxd, frames, gave, nacked>>
      /\ UNCHANGED <<transfer, fought, transfers>>
  BY HoldFollows
<1>2. ~Still /\ ~Quiet /\ ~InWake /\ (\A all : ~InStart(all)) /\ ~InOpen
  BY NothingFollows DEF InOpen
<1>3. \A before, cur, b : InWrite(before, cur, b) => InWrite(before, cur, b)'
  BY WriteFollows
<1>4. \A n : InRead(n) => InRead(n)'
  BY ReadFollows
<1>5. InStop => InStop'
  BY StopFollows
<1>6. \A all : Knows(all) => Knows(all)'
  BY <1>1 DEF Knows
<1>7. ~OnNone
  BY <1>2 DEF OnNone
<1>8. \A at \in 1 .. 3 : ~AtOpening(at)
  BY <1>2 DEF AtOpening
<1>9. CASE OnWrite
  <2>1. PICK at \in 1 .. Len(transfer.bytes) + 6 :
          /\ calls = Rest(Calls(transfer), at)
          /\ at \in 1 .. 3 => AtOpening(at)
          /\ Writes(transfer.bytes, at)
    BY <1>9 DEF OnWrite
  <2>2. PICK bytes : bytes = transfer.bytes
    OBVIOUS
  <2>3. Writes(bytes, at)'
    BY <1>2, <1>3, <1>5, <1>6, <2>1, <2>2 DEF Writes, Ended
  <2>4. ~(at \in 1 .. 3)
    BY <1>8, <2>1
  <2>5. OnWrite'
    BY <1>1, <1>9, <2>1, <2>2, <2>3, <2>4 DEF OnWrite
  <2>6. QED
    BY <1>1, <1>7, <2>5 DEF OnTrack
<1>10. CASE OnRead
  <2>1. ASSUME NEW at \in 1 .. 9, Asking(at) PROVE Asking(at)'
    <3>1. Addresses(at) /\ ~(at \in 1 .. 3)
      BY <1>8, <2>1 DEF Asking
    <3>2. Addresses(at)'
      BY <1>2, <1>3, <1>4, <1>6, <3>1 DEF Addresses
    <3>3. QED
      BY <1>1, <2>1, <3>1, <3>2 DEF Asking
  <2>2. Whole => Whole'
    BY <1>1 DEF Whole, ReadSoFar
  <2>3. ASSUME NEW at \in 1 .. ReadLen + 3, Reading(at) PROVE Reading(at)'
    <3>1. Reads(at)'
      BY <1>1, <1>2, <1>4, <1>5, <1>6, <2>2, <2>3 DEF Reading, Reads
    <3>2. QED
      BY <1>1, <2>3, <3>1 DEF Reading
  <2>4. ASSUME NEW at \in 1 .. 3, Leaving(at) PROVE Leaving(at)'
    <3>1. Leaves(at)'
      BY <1>2, <1>5, <1>6, <2>4 DEF Leaving, Leaves
    <3>2. QED
      BY <1>1, <2>4, <3>1 DEF Leaving
  <2>5. OnRead'
    BY <1>1, <1>10, <2>1, <2>3, <2>4 DEF OnRead
  <2>6. QED
    BY <1>1, <1>7, <2>5 DEF OnTrack
<1>11. QED
  BY <1>7, <1>9, <1>10 DEF OnTrack

LEMMA StrayingFollows ==
  ASSUME WireTypes, Short, ChipDrives, Straying
  PROVE  Straying'
<1>1. /\ UNCHANGED <<calls, step, got, refused, scl, out, latch, hxd, frames, gave, nacked>>
      /\ UNCHANGED <<transfer, fought, transfers>>
  BY HoldFollows
<1>2. ~Still
  BY NothingFollows
<1>3. Strays => Strays'
  BY <1>1 DEF Strays, Adrift
<1>4. StraysOff => StraysOff'
  BY <1>1, <1>2 DEF StraysOff, Adrift, Wants
<1>5. \A all : Knows(all) => Knows(all)'
  BY <1>1 DEF Knows
<1>6. QED
  BY <1>1, <1>3, <1>4, <1>5 DEF Straying

-----------------------------------------------------------------------------
(* The end of a transfer                                                   *)

\* What an ended transfer has brought about.
EndedWrite ==
  transfer.kind = "write" /\ ~refused /\ Knows(<<Taken(transfer.bytes)>>)
EndedRead == transfer.kind = "read" /\ Knows(Both) /\ (refused \/ Whole)

LEMMA IdleIs ==
  ASSUME TwoWireAssumption, WireTypes, OnTrack, Idle
  PROVE  /\ step = 0 /\ Quiet
         /\ transfers > 0 => EndedWrite \/ EndedRead
<1>. ReadLen \in Nat
  BY DEF TwoWireAssumption
<1>1. calls = <<>>
  BY DEF Idle
<1>2. CASE OnNone
  BY <1>2 DEF OnNone
<1>3. CASE OnWrite
  <2>1. PICK t : t = transfer /\ t.kind = "write"
    BY <1>3 DEF OnWrite
  <2>2. PICK bytes \in Seq(Bytes), n \in Nat : bytes = t.bytes /\ n = Len(bytes)
    <3>1. t \in Transfers \cup {NoTransfer}
      BY <2>1 DEF WireTypes
    <3>2. t.bytes \in Seq(Bytes)
      BY <2>1, <3>1, TransferIs
    <3>3. QED
      BY <3>2
  <2>3. PICK at \in 1 .. n + 6 : calls = Rest(Calls(t), at) /\ Writes(bytes, at)
    BY <1>3, <2>1, <2>2 DEF OnWrite
  <2>4. PICK all \in Seq(AllCalls) : all = Calls(t) /\ Len(all) = n + 5
    BY <2>1, <2>2, WriteListIs
  <2>5. ~(at \in 1 .. Len(all))
    <3>1. SUFFICES ASSUME at \in 1 .. Len(all) PROVE FALSE
      OBVIOUS
    <3>2. Rest(all, at) # <<>>
      BY ONLY all \in Seq(AllCalls), <3>1, RestIs
    <3>3. QED
      BY <1>1, <2>3, <2>4, <3>2
  <2>6. at = Len(bytes) + 6
    BY <2>2, <2>4, <2>5
  <2>7. Ended(<<Taken(bytes)>>)
    BY <2>3, <2>6 DEF Writes
  <2>8. QED
    BY <1>3, <2>1, <2>2, <2>7 DEF Ended, EndedWrite, OnWrite
<1>4. CASE OnRead
  <2>1. transfer.kind = "read"
    BY <1>4 DEF OnRead
  <2>2. ASSUME NEW at \in 1 .. 9, Asking(at) PROVE FALSE
    <3>1. PICK all \in Seq(AllCalls) : all = Calls(transfer) /\ Len(all) = 9
      BY <2>1, ReadListIs
    <3>2. at \in 1 .. Len(all)
      BY <3>1
    <3>3. Rest(all, at) # <<>>
      BY ONLY all \in Seq(AllCalls), <3>2, RestIs
    <3>4. QED
      BY <1>1, <2>2, <3>1, <3>3 DEF Asking
  <2>3. ASSUME NEW at \in 1 .. ReadLen + 3, Reading(at) PROVE step = 0 /\ Quiet /\ EndedRead
    <3>1. PICK all \in Seq(AllCalls) : all = Remaining /\ Len(all) = ReadLen + 2
      BY RemainingIs
    <3>2. ~(at \in 1 .. Len(all))
      <4>1. SUFFICES ASSUME at \in 1 .. Len(all) PROVE FALSE
        OBVIOUS
      <4>2. Rest(all, at) # <<>>
        BY ONLY all \in Seq(AllCalls), <4>1, RestIs
      <4>3. QED
        BY <1>1, <2>3, <3>1, <4>2 DEF Reading
    <3>3. at = ReadLen + 3
      BY <3>1, <3>2
    <3>4. step = 0 /\ Quiet /\ Whole /\ Knows(Both)
      BY <2>3, <3>3 DEF Reading, Reads
    <3>5. QED
      BY <2>1, <3>4 DEF EndedRead
  <2>4. ASSUME NEW at \in 1 .. 3, Leaving(at) PROVE step = 0 /\ Quiet /\ EndedRead
    <3>1. PICK all \in Seq(AllCalls) : all = Closing /\ Len(all) = 2
      BY ClosingIs
    <3>2. ~(at \in 1 .. Len(all))
      <4>1. SUFFICES ASSUME at \in 1 .. Len(all) PROVE FALSE
        OBVIOUS
      <4>2. Rest(all, at) # <<>>
        BY ONLY all \in Seq(AllCalls), <4>1, RestIs
      <4>3. QED
        BY <1>1, <2>4, <3>1, <4>2 DEF Leaving
    <3>3. at = 3
      BY <3>1, <3>2
    <3>4. step = 0 /\ Quiet /\ refused /\ Knows(Both)
      BY <2>4, <3>3 DEF Leaving, Leaves
    <3>5. QED
      BY <2>1, <3>4 DEF EndedRead
  <2>5. QED
    BY <1>4, <2>2, <2>3, <2>4 DEF OnRead
<1>5. QED
  BY <1>2, <1>3, <1>4 DEF OnTrack, OnNone

LEMMA BeginOnTrack ==
  ASSUME TwoWireAssumption, WireTypes, Short, ~fought, OnTrack,
         NEW t \in Transfers, Begin(t)
  PROVE  WireTypes' /\ Short' /\ OnTrack' /\ ~fought'
<1>. ReadLen \in Nat /\ MaxTransfers \in Nat
  BY DEF TwoWireAssumption
<1>1. step = 0 /\ Quiet
  BY IdleIs DEF Begin
<1>2. /\ UNCHANGED <<step, scl, out, latch, sda, hxd, pull, fought>>
      /\ transfers < MaxTransfers /\ transfers' = transfers + 1 /\ transfer' = t
      /\ calls' = Calls(t) /\ got' = <<>> /\ refused' = FALSE
      /\ frames' = <<>> /\ gave' = <<>> /\ nacked' = FALSE
  BY DEF Begin, lines
<1>3. transfers \in 0 .. MaxTransfers
  BY DEF WireTypes
<1>4. transfers' \in 0 .. MaxTransfers /\ transfers' > 0
  BY <1>2, <1>3
<1>5. hxd.mode = "idle"
  BY <1>1 DEF Quiet
<1>6. WireTypes'
  <2>1. frames' \in Seq(Seq(Bytes)) /\ gave' \in Seq(Bytes) /\ got' \in Seq(Seq({0, 1}))
    BY <1>2
  <2>2. transfer' \in Transfers \cup {NoTransfer}
    BY <1>2
  <2>3. QED
    BY <1>2, <1>4, <1>5, <2>1, <2>2 DEF WireTypes, Levelled, ChipTyped
<1>7. Short'
  BY <1>2 DEF Short
<1>8. InOpen' /\ Knows(<<>>)'
  BY <1>1, <1>2 DEF InOpen, Quiet, Drives, Knows
<1>9. AtOpening(1)'
  BY <1>2, <1>8 DEF AtOpening
<1>10. t.kind = "write" \/ t.kind = "read"
  BY DEF Transfers
<1>11. CASE t.kind = "write"
  <2>1. PICK bytes \in Seq(Bytes) : bytes = t.bytes
    BY <1>11, TransferIs
  <2>2. calls' = Rest(Calls(t), 1)
    <3>1. Calls(t) \in Seq(AllCalls)
      BY <1>11, <2>1, WriteListIs
    <3>2. QED
      BY <1>2, <3>1, NoRest
  <2>3. Len(bytes) \in Nat
    OBVIOUS
  <2>4. Writes(bytes, 1)'
    BY <2>3 DEF Writes
  <2>5. 1 \in 1 .. Len(bytes) + 6
    BY <2>3
  <2>6. OnWrite'
    BY <1>2, <1>9, <1>11, <2>1, <2>2, <2>4, <2>5 DEF OnWrite
  <2>7. QED
    BY <1>2, <1>4, <1>6, <1>7, <2>6 DEF OnTrack
<1>12. CASE t.kind = "read"
  <2>1. calls' = Rest(Calls(t), 1)
    <3>1. Calls(t) \in Seq(AllCalls)
      BY <1>12, ReadListIs
    <3>2. QED
      BY <1>2, <3>1, NoRest
  <2>2. Addresses(1)'
    BY DEF Addresses
  <2>3. Asking(1)'
    BY <1>2, <1>9, <2>1, <2>2 DEF Asking
  <2>4. OnRead'
    BY <1>2, <1>12, <2>3 DEF OnRead
  <2>5. QED
    BY <1>2, <1>4, <1>6, <1>7, <2>4 DEF OnTrack
<1>13. QED
  BY <1>10, <1>11, <1>12

-----------------------------------------------------------------------------
(* The invariant, and what it says                                         *)

LEMMA WireInitInv ==
  ASSUME TwoWireAssumption, WireInit
  PROVE  WireInv
<1>1. MaxTransfers \in Nat
  BY DEF TwoWireAssumption
<1>2. /\ calls = <<>> /\ step = 0 /\ scl = 1 /\ out = TRUE /\ latch = 1 /\ sda = 1 /\ pull = FALSE
      /\ hxd = [mode |-> "idle", bits |-> <<>>, reads |-> FALSE] /\ got = <<>>
      /\ transfer = NoTransfer /\ frames = <<>> /\ gave = <<>> /\ nacked = FALSE
      /\ refused = FALSE /\ fought = FALSE /\ transfers = 0
  BY DEF WireInit
<1>3. ChipTyped
  <2>1. <<>> \in Seq({0, 1})
    OBVIOUS
  <2>2. QED
    BY <1>2, <2>1 DEF ChipTyped, Modes
<1>4. Levelled
  BY <1>2 DEF Levelled, Levels
<1>5. got \in Seq(Seq({0, 1})) /\ frames \in Seq(Seq(Bytes)) /\ gave \in Seq(Bytes)
  BY <1>2
<1>6. WireTypes
  <2>1. hxd.mode = "idle"
    BY <1>2
  <2>2. transfer \in Transfers \cup {NoTransfer} /\ transfers \in 0 .. MaxTransfers
    BY <1>1, <1>2
  <2>3. /\ scl \in {0, 1} /\ out \in BOOLEAN /\ latch \in {0, 1} /\ pull \in BOOLEAN
        /\ refused \in BOOLEAN /\ fought \in BOOLEAN /\ nacked \in BOOLEAN /\ step \in Nat
    BY <1>2
  <2>4. QED
    BY <1>3, <1>4, <1>5, <2>1, <2>2, <2>3 DEF WireTypes
<1>7. Short
  BY <1>2 DEF Short, Width
<1>8. OnNone
  BY <1>2 DEF OnNone, Quiet, Drives
<1>9. QED
  BY <1>2, <1>6, <1>7, <1>8 DEF WireInv, Found, OnTrack

LEMMA PinInv ==
  ASSUME TwoWireAssumption, WireInv, PinOperation
  PROVE  WireInv'
<1>1. WireTypes /\ Short
  BY DEF WireInv
<1>2. WireTypes'
  <2>1. Answers \subseteq Bytes /\ Does(Script[calls[1]][step + 1])
    BY PinDoes DEF TwoWireAssumption
  <2>2. QED
    BY <1>1, <2>1, PinTyped
<1>3. CASE fought /\ Found
  BY <1>1, <1>2, <1>3, PinLost DEF WireInv, Found
<1>4. CASE ~fought /\ Found
  <2>1. OnTrack /\ ~OnNone
    BY <1>4, PinDoes DEF Found, OnNone
  <2>2. transfers > 0 /\ UNCHANGED <<transfer, transfers>>
    BY <2>1, PinDoes DEF OnTrack
  <2>3. CASE OnWrite
    BY <1>1, <1>2, <1>4, <2>2, <2>3, PinOnWrite DEF WireInv, Found, OnTrack
  <2>4. CASE OnRead
    <3>1. transfer.kind = "read" /\ transfer'.kind = "read"
      BY <2>2, <2>4 DEF OnRead
    <3>2. CASE \E at \in 1 .. 9 : Asking(at)
      <4>1. (\E at \in 1 .. 9 : Asking(at)') /\ Short' /\ ~fought'
        BY <1>1, <1>4, <3>1, <3>2, PinAsking
      <4>2. OnRead'
        BY <3>1, <4>1 DEF OnRead
      <4>3. QED
        BY <1>2, <2>2, <4>1, <4>2 DEF WireInv, Found, OnTrack
    <3>3. CASE \E at \in 1 .. ReadLen + 3 : Reading(at)
      <4>1. (\E at \in 1 .. ReadLen + 3 : Reading(at)') /\ Short' /\ ~fought'
        BY <1>1, <1>4, <3>1, <3>3, PinReading
      <4>2. OnRead'
        BY <3>1, <4>1 DEF OnRead
      <4>3. QED
        BY <1>2, <2>2, <4>1, <4>2 DEF WireInv, Found, OnTrack
    <3>4. CASE \E at \in 1 .. 3 : Leaving(at)
      <4>1. PICK at \in 1 .. 3 : Leaving(at)
        BY <3>4
      <4>2. Short' /\ ((Leaving(at)' /\ ~fought') \/ (Lost' /\ fought'))
        BY <1>1, <1>4, <3>1, <4>1, PinLeaving
      <4>3. Leaving(at)' => OnRead'
        BY <3>1 DEF OnRead
      <4>4. QED
        BY <1>2, <2>2, <4>2, <4>3 DEF WireInv, Found, OnTrack
    <3>5. QED
      BY <2>4, <3>2, <3>3, <3>4 DEF OnRead
  <2>5. QED
    BY <2>1, <2>3, <2>4 DEF OnTrack
<1>5. CASE transfers > 0 /\ Straying
  <2>1. Short' /\ (Straying' \/ (IF fought' THEN Lost' ELSE OnWrite')) /\ transfers' = transfers
    BY <1>1, <1>5, PinStraying, PinDoes
  <2>2. QED
    BY <1>2, <1>5, <2>1 DEF WireInv, Found, OnTrack
<1>6. QED
  BY <1>3, <1>4, <1>5 DEF WireInv

LEMMA NextInv ==
  ASSUME TwoWireAssumption, WireInv, NextCall
  PROVE  WireInv'
<1>1. WireTypes /\ Short
  BY DEF WireInv
<1>2. Goes /\ calls # <<>>
  BY NextGoes
<1>3. WireTypes' /\ Short'
  BY <1>1, <1>2 DEF WireTypes, Levelled, ChipTyped, Short, Goes, lines, slave
<1>4. UNCHANGED <<transfer, transfers, fought>>
  BY <1>2 DEF Goes
<1>5. CASE fought /\ Found
  BY <1>3, <1>4, <1>5, NextLost DEF WireInv, Found
<1>6. CASE ~fought /\ Found
  <2>1. OnTrack /\ ~OnNone
    BY <1>2, <1>6 DEF Found, OnNone
  <2>2. transfers > 0
    BY <2>1 DEF OnTrack
  <2>3. CASE OnWrite
    BY <1>1, <1>3, <1>4, <1>6, <2>2, <2>3, NextOnWrite DEF WireInv, Found, OnTrack
  <2>4. CASE OnRead
    <3>1. transfer.kind = "read" /\ transfer'.kind = "read"
      BY <1>4, <2>4 DEF OnRead
    <3>2. ASSUME NEW at \in 1 .. 9, Asking(at) PROVE OnRead'
      <4>1. at \in 1 .. 8 /\ Asking(at + 1)'
        BY <1>1, <3>1, <3>2, NextAsking
      <4>2. at + 1 \in 1 .. 9
        BY <4>1
      <4>3. QED
        BY <3>1, <4>1, <4>2 DEF OnRead
    <3>3. ASSUME NEW at \in 1 .. ReadLen + 3, Reading(at) PROVE OnRead'
      <4>1. at \in 1 .. ReadLen + 2 /\ Reading(at + 1)'
        BY <1>1, <3>3, NextReading
      <4>2. at + 1 \in 1 .. ReadLen + 3
        BY <4>1 DEF TwoWireAssumption
      <4>3. QED
        BY <3>1, <4>1, <4>2 DEF OnRead
    <3>4. ASSUME NEW at \in 1 .. 3, Leaving(at) PROVE OnRead'
      <4>1. at \in 1 .. 2 /\ Leaving(at + 1)'
        BY <1>1, <3>4, NextLeaving
      <4>2. at + 1 \in 1 .. 3
        BY <4>1
      <4>3. QED
        BY <3>1, <4>1, <4>2 DEF OnRead
    <3>5. OnRead'
      BY <2>4, <3>2, <3>3, <3>4 DEF OnRead
    <3>6. QED
      BY <1>3, <1>4, <1>6, <2>2, <3>5 DEF WireInv, Found, OnTrack
  <2>5. QED
    BY <2>1, <2>3, <2>4 DEF OnTrack
<1>7. CASE transfers > 0 /\ Straying
  BY <1>1, <1>3, <1>4, <1>7, NextStraying DEF WireInv
<1>8. QED
  BY <1>5, <1>6, <1>7 DEF WireInv

LEMMA CheckInv ==
  ASSUME TwoWireAssumption, WireInv, CheckFcs
  PROVE  WireInv'
<1>1. WireTypes /\ Short /\ calls # <<>>
  BY DEF WireInv, CheckFcs
<1>2. UNCHANGED <<got, hxd, transfer, transfers, fought>>
  BY DEF CheckFcs, slave
<1>3. Short'
  BY <1>1, <1>2 DEF Short
<1>4. ~fought /\ Found
  BY <1>1, CheckNotLost, StrayingGoesOn DEF WireInv, Found
<1>5. OnTrack /\ ~OnNone
  BY <1>1, <1>4 DEF Found, OnNone
<1>6. OnWrite \/ OnRead
  BY <1>5 DEF OnTrack
<1>7. transfers > 0
  BY <1>5 DEF OnTrack
<1>8. transfer.kind = "read" /\ Asking(9)
  BY <1>1, <1>6, CheckIsAsked
<1>9. OnRead' /\ WireTypes'
  BY <1>1, <1>8, CheckOnTrack
<1>10. QED
  BY <1>2, <1>3, <1>4, <1>7, <1>9 DEF WireInv, Found, OnTrack

LEMMA FollowsInv ==
  ASSUME WireInv, ChipDrives
  PROVE  WireInv'
<1>1. WireTypes /\ Short
  BY DEF WireInv
<1>2. /\ WireTypes' /\ Short'
      /\ UNCHANGED <<calls, step, refused, scl, out, latch, fought, transfer, transfers>>
  BY <1>1, HoldFollows
<1>3. CASE fought /\ Found
  BY <1>2, <1>3 DEF WireInv, Found, Lost, Excused, Drives
<1>4. CASE ~fought /\ Found
  <2>1. OnTrack'
    BY <1>1, <1>4, TrackFollows DEF Found
  <2>2. QED
    BY <1>2, <1>4, <2>1 DEF WireInv, Found
<1>5. CASE transfers > 0 /\ Straying
  BY <1>1, <1>2, <1>5, StrayingFollows DEF WireInv
<1>6. QED
  BY <1>3, <1>4, <1>5 DEF WireInv

LEMMA BeginInv ==
  ASSUME TwoWireAssumption, WireInv, NEW t \in Transfers, Begin(t)
  PROVE  WireInv'
<1>1. ~fought
  BY DEF Begin
<1>2. WireTypes /\ Short /\ OnTrack
  BY <1>1, StrayingGoesOn DEF WireInv, Found, Begin
<1>3. QED
  BY <1>1, <1>2, BeginOnTrack DEF WireInv, Found

LEMMA NothingInv ==
  ASSUME WireInv, UNCHANGED wireVars
  PROVE  WireInv'
<1>1. /\ UNCHANGED <<calls, step, got, refused, scl, out, latch, sda, pull, hxd, frames, gave, nacked>>
      /\ UNCHANGED <<transfer, fought, transfers>>
  BY DEF wireVars, driver, lines, slave
<1>2. WireTypes' /\ Short'
  BY <1>1 DEF WireInv, WireTypes, Levelled, ChipTyped, Short
<1>3. Lost => Lost'
  BY <1>1 DEF Lost, Excused, Drives
<1>4. OnTrack => OnTrack'
  <2>1. (Wants <=> Wants') /\ (Still <=> Still') /\ (Quiet <=> Quiet')
    BY <1>1 DEF Wants, Still, Quiet, Drives
  <2>2. /\ InOpen => InOpen'
        /\ InWake => InWake'
        /\ InStop => InStop'
    BY <1>1, <2>1 DEF InOpen, InWake, InStop, Drives, Sends
  <2>3. ASSUME NEW all PROVE Knows(all) => Knows(all)'
    BY <1>1 DEF Knows
  <2>4. ASSUME NEW all PROVE InStart(all) => InStart(all)'
    BY <1>1, <2>1, <2>3 DEF InStart, Took, Drives
  <2>5. ASSUME NEW n PROVE Giving(n) => Giving(n)'
    BY <1>1 DEF Giving
  <2>6. ASSUME NEW before, NEW cur, NEW b PROVE InWrite(before, cur, b) => InWrite(before, cur, b)'
    <3>1. ASSUME NEW word PROVE Hears(word) => Hears(word)'
      BY <1>1 DEF Hears
    <3>2. ASSUME NEW c PROVE Took(before, c) => Took(before, c)'
      BY <1>1 DEF Took
    <3>3. Leads(before, cur) => Leads(before, cur)'
      BY <1>1, <3>1, <3>2 DEF Leads
    <3>4. ASSUME NEW k \in 1 .. Width, NEW j \in 0 .. 5
          PROVE  SendsBit(before, cur, b, k, j) => SendsBit(before, cur, b, k, j)'
      BY <1>1, <3>1, <3>2 DEF SendsBit
    <3>5. AwaitsAck(before, cur, b) => AwaitsAck(before, cur, b)'
      BY <1>1, <2>1, <3>2 DEF AwaitsAck, Asks
    <3>6. Acked(before, cur, b) => Acked(before, cur, b)'
      BY <1>1, <2>1, <2>5, <3>1, <3>2 DEF Acked
    <3>7. QED
      BY <1>1, <3>3, <3>4, <3>5, <3>6 DEF InWrite
  <2>7. ASSUME NEW n PROVE ReadSoFar(n) => ReadSoFar(n)'
    BY <1>1 DEF ReadSoFar
  <2>8. ASSUME NEW n PROVE InRead(n) => InRead(n)'
    <3>1. ASSUME NEW k PROVE Holds(n, k) => Holds(n, k)'
      BY <1>1 DEF Holds
    <3>2. ReadsOn(n) => ReadsOn(n)'
      BY <1>1, <2>1, <2>5, <2>7 DEF ReadsOn
    <3>3. ASSUME NEW k \in 1 .. Width, NEW j \in 0 .. 4
          PROVE  ReadsBit(n, k, j) => ReadsBit(n, k, j)'
      BY <1>1, <2>1, <3>1 DEF ReadsBit, ReadPart, Part
    <3>4. Acks(n) => Acks(n)'
      BY <1>1, <2>7, <3>1 DEF Acks
    <3>5. HasAcked(n) => HasAcked(n)'
      BY <1>1, <2>1, <2>5, <2>7 DEF HasAcked, Drives
    <3>6. QED
      BY <3>2, <3>3, <3>4, <3>5 DEF InRead
  <2>9. OnNone => OnNone'
    BY <1>1, <2>1 DEF OnNone
  <2>10. \A at : AtOpening(at) => AtOpening(at)'
    BY <1>1, <2>2, <2>3, <2>4 DEF AtOpening
  <2>11. OnWrite => OnWrite'
    <3>1. SUFFICES ASSUME OnWrite PROVE OnWrite'
      OBVIOUS
    <3>2. PICK at \in 1 .. Len(transfer.bytes) + 6 :
            /\ calls = Rest(Calls(transfer), at)
            /\ at \in 1 .. 3 => AtOpening(at)
            /\ Writes(transfer.bytes, at)
      BY <3>1 DEF OnWrite
    <3>3. PICK bytes : bytes = transfer.bytes
      OBVIOUS
    <3>4. Writes(bytes, at)'
      BY <1>1, <2>1, <2>2, <2>3, <2>6, <3>2, <3>3 DEF Writes, Ended
    <3>5. QED
      BY <1>1, <2>10, <3>1, <3>2, <3>3, <3>4 DEF OnWrite
  <2>12. ASSUME NEW at, Asking(at) PROVE Asking(at)'
    <3>1. Addresses(at)'
      BY <1>1, <2>1, <2>3, <2>4, <2>5, <2>6, <2>7, <2>8, <2>12 DEF Asking, Addresses, Drives
    <3>2. QED
      BY <1>1, <2>10, <2>12, <3>1 DEF Asking
  <2>13. Whole => Whole'
    BY <1>1, <2>7 DEF Whole
  <2>14. ASSUME NEW at, Reading(at) PROVE Reading(at)'
    <3>1. Reads(at)'
      BY <1>1, <2>1, <2>2, <2>3, <2>8, <2>13, <2>14 DEF Reading, Reads
    <3>2. QED
      BY <1>1, <2>14, <3>1 DEF Reading
  <2>15. ASSUME NEW at, Leaving(at) PROVE Leaving(at)'
    <3>1. Leaves(at)'
      BY <1>1, <2>1, <2>2, <2>3, <2>15 DEF Leaving, Leaves
    <3>2. QED
      BY <1>1, <2>15, <3>1 DEF Leaving
  <2>16. OnRead => OnRead'
    BY <1>1, <2>12, <2>14, <2>15 DEF OnRead
  <2>17. QED
    BY <1>1, <2>9, <2>11, <2>16 DEF OnTrack
<1>5. Straying => Straying'
  <2>1. (Strays => Strays') /\ (StraysOff => StraysOff')
    BY <1>1 DEF Strays, StraysOff, Adrift, Still, Wants
  <2>2. \A all : Knows(all) => Knows(all)'
    BY <1>1 DEF Knows
  <2>3. QED
    BY <1>1, <2>1, <2>2 DEF Straying
<1>6. QED
  BY <1>1, <1>2, <1>3, <1>4, <1>5 DEF WireInv, Found

LEMMA WireStepInv ==
  ASSUME TwoWireAssumption, WireInv, [WireNext]_wireVars
  PROVE  WireInv'
<1>1. CASE PinOperation
  BY <1>1, PinInv
<1>2. CASE NextCall
  BY <1>2, NextInv
<1>3. CASE CheckFcs
  BY <1>3, CheckInv
<1>4. CASE ChipDrives
  BY <1>4, FollowsInv
<1>5. ASSUME NEW t \in Transfers, Begin(t) PROVE WireInv'
  BY <1>5, BeginInv
<1>6. CASE Done
  BY <1>6, NothingInv DEF Done
<1>7. CASE UNCHANGED wireVars
  BY <1>7, NothingInv
<1>8. QED
  BY <1>1, <1>2, <1>3, <1>4, <1>5, <1>6, <1>7 DEF WireNext

LEMMA WireTypesRight ==
  ASSUME WireInv
  PROVE  WireTypeOK /\ (fought => refused \/ AsksToRead(transfer.bytes))
<1>1. WireTypes /\ Short
  BY DEF WireInv
<1>2. {scl, latch, sda} \subseteq {0, 1} /\ {out, pull, nacked, refused, fought} \subseteq BOOLEAN
  BY <1>1 DEF WireTypes, Levelled, Levels
<1>3. /\ hxd.mode \in Modes /\ hxd.bits \in Seq({0, 1}) /\ Len(hxd.bits) <= Width /\ hxd.reads \in BOOLEAN
  BY <1>1 DEF WireTypes, ChipTyped, Short
<1>4. \A k \in DOMAIN frames : frames[k] \in Seq(Bytes)
  BY <1>1 DEF WireTypes
<1>5. WireTypeOK
  BY <1>1, <1>2, <1>3, <1>4 DEF WireTypeOK, WireTypes, Short
<1>6. fought => refused \/ AsksToRead(transfer.bytes)
  BY DEF WireInv, Found, Lost, Excused, Straying
<1>7. QED
  BY <1>5, <1>6

LEMMA ReadAsSent ==
  ASSUME gave \in Seq(Bytes), Len(gave) = Len(got), got \in Seq(Seq({0, 1})),
         \A k \in 1 .. Len(gave) : got[k] = Bits(gave[k])
  PROVE  [k \in DOMAIN got |-> Value(got[k])] = gave
<1>1. PICK n \in Nat : n = Len(gave) /\ DOMAIN got = 1 .. n /\ DOMAIN gave = 1 .. n
  OBVIOUS
<1>2. ASSUME NEW k \in 1 .. n PROVE Value(got[k]) = gave[k]
  <2>1. gave[k] \in Bytes
    BY <1>1, ElementsAre
  <2>2. got[k] = Bits(gave[k])
    BY <1>1
  <2>3. QED
    BY <2>1, <2>2, ValueOfBits
<1>3. gave = [k \in 1 .. n |-> gave[k]]
  BY <1>1
<1>4. QED
  BY <1>1, <1>2, <1>3

LEMMA TransferRight ==
  ASSUME TwoWireAssumption, WireInv
  PROVE  TransferExact
<1>1. SUFFICES ASSUME Idle, ~fought, transfers > 0
               PROVE  /\ hxd.mode = "idle" /\ ~pull
                      /\ ~nacked => frames = Expected
                      /\ transfer.kind = "read" /\ ~refused =>
                           /\ Len(gave) = ReadLen + 1
                           /\ [k \in DOMAIN got |-> Value(got[k])] = gave
  BY DEF TransferExact
<1>2. WireTypes /\ OnTrack
  BY <1>1, StrayingGoesOn DEF WireInv, Found
<1>3. Quiet /\ (EndedWrite \/ EndedRead)
  BY <1>1, <1>2, IdleIs
<1>4. ~nacked => frames = Expected
  <2>1. CASE EndedWrite
    BY <2>1 DEF EndedWrite, Knows, Expected
  <2>2. CASE EndedRead
    BY <2>2 DEF EndedRead, Knows, Expected, Both, Commands
  <2>3. QED
    BY <1>3, <2>1, <2>2
<1>5. ASSUME transfer.kind = "read", ~refused
      PROVE  Len(gave) = ReadLen + 1 /\ [k \in DOMAIN got |-> Value(got[k])] = gave
  <2>1. Whole
    BY <1>3, <1>5 DEF EndedWrite, EndedRead
  <2>2. Len(gave) = ReadLen + 1 /\ Len(got) = ReadLen + 1 /\ \A k \in 1 .. ReadLen + 1 : got[k] = Bits(gave[k])
    BY <2>1 DEF Whole, ReadSoFar
  <2>3. gave \in Seq(Bytes) /\ got \in Seq(Seq({0, 1}))
    BY <1>2 DEF WireTypes
  <2>4. QED
    BY <2>2, <2>3, ReadAsSent
<1>6. QED
  BY <1>3, <1>4, <1>5 DEF Quiet

\* Every pin operation of writeI2C2, Learn_start2 and readI2C2 finds the wires, the chip
\* and the bits so far where the call list and the step say.
THEOREM WireInvariant == WireSpec => []WireInv
<1>1. WireInit => WireInv
  BY WireInitInv, TwoWireAssumption
<1>2. WireInv /\ [WireNext]_wireVars => WireInv'
  BY WireStepInv, TwoWireAssumption
<1>3. QED
  BY <1>1, <1>2, PTL DEF WireSpec

\* Driver and chip hold SDA against each other over a delay only behind a first byte that
\* readI2C2 refused, or behind the first byte of a code that is the address for reading,
\* whatever is sent, answered or left without acknowledgement.
THEOREM WireHasNoFight == WireSpec => []NoFight
<1>1. WireInv => NoFight
  BY WireTypesRight DEF NoFight
<1>2. QED
  BY <1>1, WireInvariant, PTL

\* A transfer that met no fight leaves the chip waiting for a start, brought every byte
\* across in the frames meant (of a code that asks the chip to send, the first) and, when readI2C2 succeeded, read what the chip sent.
THEOREM WireTransfersExactly == WireSpec => []TransferExact
<1>1. WireInv => TransferExact
  BY TransferRight, TwoWireAssumption
<1>2. QED
  BY <1>1, WireInvariant, PTL

=============================================================================
