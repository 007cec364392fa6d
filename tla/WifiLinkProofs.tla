---------------------------- MODULE WifiLinkProofs ----------------------------
(***************************************************************************)
(* Safety of WifiLink for any set of SmartConfig tasks and any bounds.     *)
(***************************************************************************)
EXTENDS WifiLink, TLAPS

(***************************************************************************)
(* Types. The Boolean variables are kept apart from the rest of TypeOK.    *)
(***************************************************************************)
FlagsOK ==
  /\ wifi_connected \in BOOLEAN /\ ssid \in BOOLEAN
  /\ config \in BOOLEAN /\ scanning \in BOOLEAN
  /\ lost_timer \in BOOLEAN /\ inRange \in BOOLEAN
  /\ slipped \in BOOLEAN

TasksOK ==
  /\ bits \subseteq {"CONNECTED", "DONE", "WORKING"}
  /\ pc \in [Tasks -> Labels]
  /\ seen \in [Tasks -> SUBSET {"CONNECTED", "DONE"}]

OthersOK ==
  /\ mirror \in {"idle", "set", "clear"}
  /\ sta \in {"idle", "joining", "up"}
  /\ esptouch \in {"off", "listening", "linked", "over"}
  /\ presses \in 0 .. MaxPresses /\ faults \in 0 .. MaxFaults

QueueOK == events \in Seq(Events)

LEMMA TypeParts == TypeOK <=> FlagsOK /\ TasksOK /\ OthersOK /\ QueueOK
BY Zenon DEF TypeOK, FlagsOK, TasksOK, OthersOK, QueueOK

\* What a step may be, by the part of the state it is about.
Outside == Handler \/ Driver \/ JoinSucceeds \/ ApLeaves \/ ApReturns \/ PressThree

\* A failed check, of SmartConfig's start or another.
Restarted == Restart /\ (UNCHANGED faults \/ (faults < MaxFaults /\ faults' = faults + 1))

LEMMA StepCases ==
  ASSUME [Next]_vars
  PROVE  \/ Restarted \/ Outside \/ MirrorReads \/ MirrorWrites \/ ScLink \/ ScLinkOver
         \/ \E t \in Tasks : PressFive(t) \/ Smart(t)
         \/ UNCHANGED vars
<1>1. Abort \/ CheckFails => Restarted
  BY Zenon DEF Abort, CheckFails, Restarted
<1>2. QED
  BY <1>1 DEF Next, Outside, Mirror, Callback

LEMMA FlagsStep == FlagsOK /\ [Next]_vars => FlagsOK'
<1> SUFFICES ASSUME FlagsOK, [Next]_vars PROVE FlagsOK'
  OBVIOUS
<1>1. CASE Restarted
  BY <1>1, Zenon DEF FlagsOK, Restarted, Restart
<1>2. CASE Handler
  BY <1>2, Zenon DEF FlagsOK, Handler, OnStart, OnGotIP, OnLostIP, OnDisconnected, OnScanDone,
     FlagAfterLoss, ScanStarted, driver, history
<1>3. CASE Driver \/ JoinSucceeds
  BY <1>3, Zenon DEF FlagsOK, Driver, JoinSucceeds, JoinFails, LinkBreaks, AddressExpires,
     ScanEnds, history
<1>4. CASE ApLeaves \/ ApReturns \/ PressThree
  BY <1>4, Zenon DEF FlagsOK, ApLeaves, ApReturns, PressThree, driver, history
<1>5. CASE MirrorReads \/ MirrorWrites
  BY <1>5, Zenon DEF FlagsOK, MirrorReads, MirrorWrites, driver, history
<1>6. CASE ScLink \/ ScLinkOver
  BY <1>6, Zenon DEF FlagsOK, ScLink, ScLinkOver, ScanStarted, history
<1>7. ASSUME NEW t \in Tasks, PressFive(t) \/ Smart(t) PROVE FlagsOK'
  BY <1>7, Zenon DEF FlagsOK, PressFive, Smart, Refused, Granted, SetWorking, StartSmart,
     WaitBits, Look, StopSmart, ClearWorking, driver, history
<1>8. CASE UNCHANGED vars
  BY <1>8, Zenon DEF FlagsOK, vars, driver, history
<1>9. QED
  BY <1>1, <1>2, <1>3, <1>4, <1>5, <1>6, <1>7, <1>8, StepCases DEF Outside

\* What xEventGroupSetBits does to the tasks: it wakes those that wait.
LEMMA SetBitsEffect ==
  ASSUME TasksOK, NEW b \in {"CONNECTED", "DONE"}, SetBits(b)
  PROVE  /\ TasksOK'
         /\ "WORKING" \in bits' <=> "WORKING" \in bits
         /\ \A t \in Tasks : pc'[t] = pc[t] \/ (pc[t] = "blocked" /\ pc'[t] = "look")
<1> DEFINE now == (bits \cup {b}) \cap Awaited
           woken == {t \in Tasks : pc[t] = "blocked" /\ now # {}}
<1>1. now \subseteq {"CONNECTED", "DONE"}
  BY DEF Awaited
<1>2. CASE woken = {}
  <2>1. bits' = bits \cup {b} /\ UNCHANGED tasks
    BY <1>2 DEF SetBits
  <2>2. QED
    BY <2>1 DEF TasksOK, tasks
<1>3. CASE woken # {}
  <2> HIDE DEF now
  <2>1. /\ bits' = (bits \cup {b}) \ Awaited
        /\ pc' = [t \in Tasks |-> IF t \in woken THEN "look" ELSE pc[t]]
        /\ seen' = [t \in Tasks |-> IF t \in woken THEN now ELSE seen[t]]
    BY <1>3 DEF SetBits, now
  <2>2. /\ pc' \in [Tasks -> Labels]
        /\ \A t \in Tasks : pc'[t] = pc[t] \/ (pc[t] = "blocked" /\ pc'[t] = "look")
    BY <2>1 DEF TasksOK, Labels
  <2>3. seen' \in [Tasks -> SUBSET {"CONNECTED", "DONE"}]
    BY <2>1, <1>1 DEF TasksOK
  <2>4. /\ bits' \subseteq {"CONNECTED", "DONE", "WORKING"}
        /\ "WORKING" \in bits' <=> "WORKING" \in bits
    BY <2>1 DEF TasksOK, Awaited
  <2>5. QED
    BY <2>2, <2>3, <2>4 DEF TasksOK
<1>4. QED
  BY <1>2, <1>3

\* The tasks and the bits are not touched from outside.
LEMMA OutsideEffect ==
  ASSUME Outside \/ MirrorReads \/ ScLink \/ UNCHANGED vars
  PROVE  UNCHANGED <<bits, pc, seen>>
BY DEF Outside, Handler, OnStart, OnGotIP, OnLostIP, OnDisconnected, OnScanDone, Driver,
   JoinSucceeds, JoinFails, LinkBreaks, AddressExpires, ScanEnds, ApLeaves, ApReturns,
   PressThree, MirrorReads, ScLink, vars, tasks

\* MirrorWrites and ScLinkOver wake tasks and leave WORKING alone.
LEMMA WakingEffect ==
  ASSUME TasksOK, MirrorWrites \/ ScLinkOver
  PROVE  /\ TasksOK'
         /\ "WORKING" \in bits' <=> "WORKING" \in bits
         /\ \A t \in Tasks : pc'[t] = pc[t] \/ (pc[t] = "blocked" /\ pc'[t] = "look")
<1>1. CASE MirrorWrites /\ mirror = "set"
  BY <1>1, SetBitsEffect DEF MirrorWrites
<1>2. CASE MirrorWrites /\ mirror # "set"
  BY <1>2 DEF MirrorWrites, WithoutConnected, TasksOK, tasks
<1>3. CASE ScLinkOver
  BY <1>3, SetBitsEffect DEF ScLinkOver
<1>4. QED
  BY <1>1, <1>2, <1>3

LEMMA TasksStep == TasksOK /\ [Next]_vars => TasksOK'
<1> SUFFICES ASSUME TasksOK, [Next]_vars PROVE TasksOK'
  OBVIOUS
<1>1. CASE Restarted
  BY <1>1 DEF TasksOK, Restarted, Restart, Labels
<1>2. CASE MirrorWrites \/ ScLinkOver
  BY <1>2, WakingEffect
<1>3. CASE Outside \/ MirrorReads \/ ScLink \/ UNCHANGED vars
  BY <1>3, OutsideEffect DEF TasksOK
<1>4. ASSUME NEW t \in Tasks, PressFive(t) \/ Smart(t) PROVE TasksOK'
  <2>1. CASE PressFive(t) \/ Refused(t) \/ Granted(t) \/ SetWorking(t)
    BY <2>1 DEF PressFive, Refused, Granted, SetWorking, Goto, TasksOK, Labels
  <2>2. CASE StartSmart(t)
    BY <2>2 DEF StartSmart, Goto, TasksOK, Labels
  <2>3. CASE WaitBits(t)
    <3>1. bits \cap Awaited \subseteq {"CONNECTED", "DONE"}
      BY DEF Awaited
    <3>2. CASE bits \cap Awaited # {}
      <4>1. /\ pc' = [pc EXCEPT ![t] = "look"] /\ bits' = bits \ Awaited
            /\ seen' = [seen EXCEPT ![t] = bits \cap Awaited]
        BY <2>3, <3>2 DEF WaitBits, Goto
      <4>2. QED
        BY <3>1, <4>1 DEF TasksOK, Labels
    <3>3. CASE bits \cap Awaited = {}
      BY <2>3, <3>3 DEF WaitBits, Goto, TasksOK, Labels
    <3>4. QED
      BY <3>2, <3>3
  <2>4. CASE Look(t)
    BY <2>4 DEF Look, Goto, TasksOK, Labels
  <2>5. CASE StopSmart(t) \/ ClearWorking(t)
    BY <2>5 DEF StopSmart, ClearWorking, WorkingCleared, Goto, TasksOK, Labels
  <2>6. QED
    BY <1>4, <2>1, <2>2, <2>3, <2>4, <2>5 DEF Smart
<1>5. QED
  BY <1>1, <1>2, <1>3, <1>4, StepCases

LEMMA OthersStep == OthersOK /\ [Next]_vars => OthersOK'
<1> SUFFICES ASSUME OthersOK, [Next]_vars PROVE OthersOK'
  OBVIOUS
<1> USE WifiLinkAssumption DEF OthersOK, driver, history
<1>1. CASE Restarted
  BY <1>1 DEF Restarted, Restart
<1>2. CASE Handler
  BY <1>2 DEF Handler, OnStart, OnGotIP, OnLostIP, OnDisconnected, OnScanDone, Connected, Again
<1>3. CASE Driver \/ JoinSucceeds
  BY <1>3 DEF Driver, JoinSucceeds, JoinFails, LinkBreaks, AddressExpires, ScanEnds
<1>4. CASE ApLeaves \/ ApReturns \/ PressThree
  BY <1>4 DEF ApLeaves, ApReturns, PressThree
<1>5. CASE MirrorReads \/ MirrorWrites
  BY <1>5 DEF MirrorReads, MirrorWrites
<1>6. CASE ScLink \/ ScLinkOver
  BY <1>6 DEF ScLink, ScLinkOver
<1>7. ASSUME NEW t \in Tasks, PressFive(t) \/ Smart(t) PROVE OthersOK'
  BY <1>7 DEF PressFive, Smart, Refused, Granted, SetWorking, StartSmart, WaitBits, Look,
     StopSmart, ClearWorking
<1>8. CASE UNCHANGED vars
  BY <1>8 DEF vars
<1>9. QED
  BY <1>1, <1>2, <1>3, <1>4, <1>5, <1>6, <1>7, <1>8, StepCases DEF Outside

\* The queue is only ever appended to, or handled from its front.
LEMMA QueueStep == QueueOK /\ [Next]_vars => QueueOK'
<1> SUFFICES ASSUME QueueOK, [Next]_vars PROVE QueueOK'
  OBVIOUS
<1>1. /\ {"START", "GOT_IP", "LOST_IP", "DISCONNECTED", "SCAN_DONE"} \subseteq Events
      /\ \A e \in Events : Append(events, e) \in Seq(Events)
  BY DEF QueueOK, Events
<1>2. ASSUME NEW e, Handle(e) PROVE Tail(events) \in Seq(Events)
  BY <1>2 DEF Handle, QueueOK
<1>3. CASE Restarted
  BY <1>3, <1>1 DEF Restarted, Restart, QueueOK
<1>4. CASE OnStart \/ OnGotIP \/ OnLostIP \/ OnDisconnected
  BY <1>4, <1>2 DEF OnStart, OnGotIP, OnLostIP, OnDisconnected, QueueOK
<1>5. CASE OnScanDone
  <2>1. Tail(events) \in Seq(Events)
    BY <1>5, <1>2 DEF OnScanDone
  <2>2. Append(Tail(events), "DISCONNECTED") \in Seq(Events)
    BY <2>1, <1>1
  <2>3. QED
    BY <1>5, <2>1, <2>2 DEF OnScanDone, AfterDisconnect, QueueOK
<1>6. CASE Driver \/ JoinSucceeds
  BY <1>6, <1>1 DEF Driver, JoinSucceeds, JoinFails, LinkBreaks, AddressExpires, ScanEnds, QueueOK
<1>7. CASE ApLeaves \/ ApReturns \/ PressThree
  BY <1>7, <1>1 DEF ApLeaves, ApReturns, PressThree, AfterDisconnect, QueueOK
<1>8. CASE MirrorReads \/ MirrorWrites \/ ScLink \/ ScLinkOver
  BY <1>8 DEF MirrorReads, MirrorWrites, ScLink, ScLinkOver, QueueOK
<1>9. ASSUME NEW t \in Tasks, PressFive(t) \/ Smart(t) PROVE QueueOK'
  BY <1>9 DEF PressFive, Smart, Refused, Granted, SetWorking, StartSmart, WaitBits, Look,
     StopSmart, ClearWorking, QueueOK
<1>10. CASE UNCHANGED vars
  BY <1>10 DEF vars, QueueOK
<1>11. QED
  BY <1>3, <1>4, <1>5, <1>6, <1>7, <1>8, <1>9, <1>10, StepCases DEF Outside, Handler

LEMMA TypeInit == Init => TypeOK
<1> SUFFICES ASSUME Init PROVE TypeOK
  OBVIOUS
<1>1. FlagsOK
  BY Zenon DEF Init, FlagsOK
<1>2. TasksOK
  BY DEF Init, TasksOK, Labels
<1>3. OthersOK
  BY WifiLinkAssumption DEF Init, OthersOK
<1>4. QueueOK
  BY DEF Init, QueueOK, Events
<1>5. QED
  BY <1>1, <1>2, <1>3, <1>4, TypeParts

LEMMA TypeStep == TypeOK /\ [Next]_vars => TypeOK'
<1>1. (TypeOK <=> FlagsOK /\ TasksOK /\ OthersOK /\ QueueOK)'
  BY Zenon DEF TypeOK, FlagsOK, TasksOK, OthersOK, QueueOK
<1>2. QED
  BY <1>1, TypeParts, FlagsStep, TasksStep, OthersStep, QueueStep

\* Every variable keeps its type.
THEOREM TypeCorrect == Spec => []TypeOK
BY TypeInit, TypeStep, PTL DEF Spec

-----------------------------------------------------------------------------
(* SMART_WIFI_WORKING and the task that will clear it                      *)

Owners == {"start", "wait", "blocked", "look", "stop", "clear", "abort"}

LEMMA OwnerStep ==
  ASSUME TasksOK, WorkingHasOwner, [Next]_vars
  PROVE  WorkingHasOwner'
<1> USE DEF WorkingHasOwner
<1>1. CASE Restarted
  BY <1>1 DEF Restarted, Restart
<1>2. CASE MirrorWrites \/ ScLinkOver
  <2>1. SUFFICES ASSUME "WORKING" \in bits' PROVE \E t \in Tasks : pc'[t] \in Owners
    BY DEF Owners
  <2>2. PICK t \in Tasks : pc[t] \in Owners
    BY <1>2, <2>1, WakingEffect DEF Owners
  <2>3. pc'[t] = pc[t] \/ pc'[t] = "look"
    BY <1>2, WakingEffect
  <2>4. QED
    BY <2>2, <2>3 DEF Owners
<1>3. CASE Outside \/ MirrorReads \/ ScLink \/ UNCHANGED vars
  BY <1>3, OutsideEffect
<1>4. ASSUME NEW t \in Tasks, PressFive(t) \/ Smart(t) PROVE WorkingHasOwner'
  <2> USE DEF TasksOK, Goto
  <2>1. CASE PressFive(t) \/ Refused(t) \/ Granted(t)
    BY <2>1 DEF PressFive, Refused, Granted
  <2>2. CASE SetWorking(t)
    BY <2>2 DEF SetWorking
  <2>3. CASE StartSmart(t)
    BY <2>3 DEF StartSmart
  <2>4. CASE WaitBits(t)
    BY <2>4 DEF WaitBits
  <2>5. CASE Look(t)
    BY <2>5 DEF Look
  <2>6. CASE StopSmart(t)
    BY <2>6 DEF StopSmart
  <2>7. CASE ClearWorking(t)
    BY <2>7 DEF ClearWorking, WorkingCleared
  <2>8. QED
    BY <1>4, <2>1, <2>2, <2>3, <2>4, <2>5, <2>6, <2>7 DEF Smart
<1>5. QED
  BY <1>1, <1>2, <1>3, <1>4, StepCases

\* The bit never outlives its owner: it is set on the way in, cleared by the task
\* that set it, and cleared with everything else when the device restarts.
THEOREM WorkingIsOwned == Spec => []WorkingHasOwner
<1>1. Init => TypeOK /\ WorkingHasOwner
  BY TypeInit DEF Init, WorkingHasOwner
<1>2. TypeOK /\ WorkingHasOwner /\ [Next]_vars => TypeOK' /\ WorkingHasOwner'
  BY TypeStep, OwnerStep, TypeParts
<1>3. QED
  BY <1>1, <1>2, PTL DEF Spec

-----------------------------------------------------------------------------
(* One task at a time, unless two slipped in                               *)

\* A task that has been let in, from the test to its return.
Inside == {"set"} \cup Owners

\* A task that keeps SmartConfig running in the driver.
Keeping == {"wait", "blocked", "look", "stop"}

OneInside ==
  ~slipped =>
    /\ \A t \in Tasks : pc[t] # "abort"
    /\ \A t, u \in Tasks : pc[t] \in Inside /\ pc[u] \in Inside => t = u
    /\ \A t \in Tasks : pc[t] \in Owners => "WORKING" \in bits
    /\ esptouch # "off" => \E t \in Tasks : pc[t] \in Keeping

LEMMA OneInsideStep ==
  ASSUME FlagsOK, TasksOK, OneInside, [Next]_vars
  PROVE  OneInside'
<1> USE DEF Inside, Owners, Keeping
<1>1. CASE Restarted
  BY <1>1 DEF Restarted, Restart, OneInside
<1>2. CASE MirrorWrites \/ ScLinkOver
  <2>1. /\ UNCHANGED slipped
        /\ esptouch' # "off" => esptouch # "off"
    BY <1>2 DEF MirrorWrites, ScLinkOver, driver, history
  <2>2. /\ "WORKING" \in bits' <=> "WORKING" \in bits
        /\ \A t \in Tasks : pc'[t] = pc[t] \/ (pc[t] = "blocked" /\ pc'[t] = "look")
    BY <1>2, WakingEffect
  <2>3. SUFFICES ASSUME ~slipped PROVE OneInside'
    BY <2>1 DEF OneInside
  <2>4. \A t \in Tasks : /\ pc'[t] \in Inside <=> pc[t] \in Inside
                         /\ pc'[t] \in Owners <=> pc[t] \in Owners
                         /\ pc'[t] \in Keeping <=> pc[t] \in Keeping
                         /\ pc'[t] = "abort" <=> pc[t] = "abort"
    BY <2>2
  <2>5. QED
    BY <2>1, <2>2, <2>3, <2>4 DEF OneInside
<1>3. CASE Outside \/ MirrorReads \/ ScLink \/ UNCHANGED vars
  <2>1. UNCHANGED <<bits, pc, seen>>
    BY <1>3, OutsideEffect
  <2>2. UNCHANGED slipped /\ (esptouch' # "off" => esptouch # "off")
    BY <1>3 DEF Outside, Handler, OnStart, OnGotIP, OnLostIP, OnDisconnected, OnScanDone,
       Driver, JoinSucceeds, JoinFails, LinkBreaks, AddressExpires, ScanEnds, ApLeaves,
       ApReturns, PressThree, MirrorReads, ScLink, vars, driver, history
  <2>3. QED
    BY <2>1, <2>2 DEF OneInside
<1>4. ASSUME NEW t \in Tasks, PressFive(t) \/ Smart(t) PROVE OneInside'
  <2> USE DEF TasksOK, Goto, driver, history
  <2>1. CASE PressFive(t)
    BY <2>1 DEF PressFive, OneInside
  <2>2. CASE Refused(t)
    BY <2>2 DEF Refused, OneInside
  <2>3. CASE Granted(t)
    BY <2>3 DEF Granted, Busy, OneInside
  <2>4. CASE SetWorking(t)
    BY <2>4 DEF SetWorking, OneInside
  <2>5. CASE StartSmart(t)
    BY <2>5 DEF StartSmart, OneInside
  <2>6. CASE WaitBits(t)
    BY <2>6 DEF WaitBits, Awaited, OneInside
  <2>7. CASE Look(t)
    BY <2>7 DEF Look, OneInside
  <2>8. CASE StopSmart(t)
    BY <2>8 DEF StopSmart, OneInside
  <2>9. CASE ClearWorking(t)
    BY <2>9 DEF ClearWorking, WorkingCleared, OneInside
  <2>10. QED
    BY <1>4, <2>1, <2>2, <2>3, <2>4, <2>5, <2>6, <2>7, <2>8, <2>9 DEF Smart
<1>5. QED
  BY <1>1, <1>2, <1>3, <1>4, StepCases

\* Without a slip between the test and the set of SMART_WIFI_WORKING,
\* esp_smartconfig_start is never called twice and the device never restarts,
\* however many tasks the key creates.
THEOREM NoSecondStartSafe == Spec => []NoSecondStart
<1>1. Init => TypeOK /\ OneInside
  BY TypeInit DEF Init, OneInside, Inside, Owners
<1>2. TypeOK /\ OneInside /\ [Next]_vars => TypeOK' /\ OneInside'
  BY TypeStep, OneInsideStep, TypeParts
<1>3. OneInside => NoSecondStart
  BY DEF OneInside, NoSecondStart
<1>4. QED
  BY <1>1, <1>2, <1>3, PTL DEF Spec

-----------------------------------------------------------------------------
(* The flag and the link                                                   *)

Downs == {"LOST_IP", "DISCONNECTED"}

\* The last event of q that is about the link is in S; those in N say the opposite.
EndsIn(q, S, N) ==
  \E k \in 1 .. Len(q) : q[k] \in S /\ \A j \in (k + 1) .. Len(q) : q[j] \notin N

Without(q, N) == \A k \in 1 .. Len(q) : q[k] \notin N

\* What the flag will say when the events of q are handled, given what it says now.
WillBeUp(q, flag) == EndsIn(q, {"GOT_IP"}, Downs) \/ (flag /\ Without(q, Downs))

WillBeDown(q, flag) == EndsIn(q, Downs, {"GOT_IP"}) \/ (~flag /\ Without(q, {"GOT_IP"}))

\* The queue and the flag together know the state of the link.
QueueKnows ==
  /\ sta = "up" => WillBeUp(events, wifi_connected)
  /\ sta # "up" => WillBeDown(events, wifi_connected)

\* An event that does not contradict S leaves its end as it is, from either side.
LEMMA AppendKeeps ==
  ASSUME NEW q \in Seq(Events), NEW e \in Events, NEW S, NEW N, e \notin N
  PROVE  /\ EndsIn(q, S, N) => EndsIn(Append(q, e), S, N)
         /\ Without(q, N) => Without(Append(q, e), N)
BY DEF EndsIn, Without

LEMMA AppendEnds ==
  ASSUME NEW q \in Seq(Events), NEW e \in Events, NEW S, NEW N, e \in S
  PROVE  EndsIn(Append(q, e), S, N)
BY DEF EndsIn

\* Handling the first event loses the end of the queue only when it was the end.
LEMMA TailKeeps ==
  ASSUME NEW q \in Seq(Events), q # <<>>, NEW S, NEW N
  PROVE  /\ EndsIn(q, S, N) => EndsIn(Tail(q), S, N) \/ (Head(q) \in S /\ Without(Tail(q), N))
         /\ Without(q, N) => Head(q) \notin N /\ Without(Tail(q), N)
<1>1. /\ Len(q) \in Nat \ {0} /\ Len(Tail(q)) = Len(q) - 1 /\ Head(q) = q[1]
      /\ \A k \in 1 .. Len(q) - 1 : Tail(q)[k] = q[k + 1]
  OBVIOUS
<1>2. ASSUME Without(q, N) PROVE Head(q) \notin N /\ Without(Tail(q), N)
  BY <1>1, <1>2 DEF Without
<1>3. ASSUME EndsIn(q, S, N)
      PROVE  EndsIn(Tail(q), S, N) \/ (Head(q) \in S /\ Without(Tail(q), N))
  <2>1. PICK k \in 1 .. Len(q) : q[k] \in S /\ \A j \in (k + 1) .. Len(q) : q[j] \notin N
    BY <1>3 DEF EndsIn
  <2>2. CASE k = 1
    BY <1>1, <2>1, <2>2 DEF Without
  <2>3. CASE k # 1
    <3>1. k - 1 \in 1 .. Len(Tail(q)) /\ Tail(q)[k - 1] \in S
      BY <1>1, <2>1, <2>3
    <3>2. \A j \in ((k - 1) + 1) .. Len(Tail(q)) : Tail(q)[j] \notin N
      BY <1>1, <2>1, <2>3
    <3>3. QED
      BY <3>1, <3>2 DEF EndsIn
  <2>4. QED
    BY <2>2, <2>3
<1>4. QED
  BY <1>2, <1>3

\* One event arrives: what the queue promised stays so unless the event says otherwise.
LEMMA Arrives ==
  ASSUME NEW q \in Seq(Events), NEW e \in Events, NEW flag \in BOOLEAN
  PROVE  /\ e = "GOT_IP" => WillBeUp(Append(q, e), flag)
         /\ e \in Downs => WillBeDown(Append(q, e), flag)
         /\ e \notin Downs /\ WillBeUp(q, flag) => WillBeUp(Append(q, e), flag)
         /\ e # "GOT_IP" /\ WillBeDown(q, flag) => WillBeDown(Append(q, e), flag)
<1>1. /\ e = "GOT_IP" => EndsIn(Append(q, e), {"GOT_IP"}, Downs)
      /\ e \in Downs => EndsIn(Append(q, e), Downs, {"GOT_IP"})
  BY AppendEnds
<1>2. ASSUME e \notin Downs
      PROVE  /\ EndsIn(q, {"GOT_IP"}, Downs) => EndsIn(Append(q, e), {"GOT_IP"}, Downs)
             /\ Without(q, Downs) => Without(Append(q, e), Downs)
  BY <1>2, AppendKeeps
<1>3. ASSUME e # "GOT_IP"
      PROVE  /\ EndsIn(q, Downs, {"GOT_IP"}) => EndsIn(Append(q, e), Downs, {"GOT_IP"})
             /\ Without(q, {"GOT_IP"}) => Without(Append(q, e), {"GOT_IP"})
  BY <1>3, AppendKeeps
<1>4. /\ e = "GOT_IP" => WillBeUp(Append(q, e), flag)
      /\ e \in Downs => WillBeDown(Append(q, e), flag)
  BY <1>1 DEF WillBeUp, WillBeDown
<1>5. ASSUME e \notin Downs, WillBeUp(q, flag) PROVE WillBeUp(Append(q, e), flag)
  BY <1>2, <1>5, Zenon DEF WillBeUp
<1>6. ASSUME e # "GOT_IP", WillBeDown(q, flag) PROVE WillBeDown(Append(q, e), flag)
  BY <1>3, <1>6, Zenon DEF WillBeDown
<1>7. QED
  BY <1>4, <1>5, <1>6

\* One event is handled: the flag takes over what it said.
LEMMA Handled ==
  ASSUME NEW q \in Seq(Events), q # <<>>, NEW flag \in BOOLEAN, NEW new \in BOOLEAN,
         Head(q) = "GOT_IP" => new, Head(q) \in Downs => ~new,
         Head(q) \notin Downs \cup {"GOT_IP"} => new = flag
  PROVE  /\ WillBeUp(q, flag) => WillBeUp(Tail(q), new)
         /\ WillBeDown(q, flag) => WillBeDown(Tail(q), new)
<1>1. /\ EndsIn(q, {"GOT_IP"}, Downs) =>
           EndsIn(Tail(q), {"GOT_IP"}, Downs) \/ (Head(q) = "GOT_IP" /\ Without(Tail(q), Downs))
      /\ Without(q, Downs) => Head(q) \notin Downs /\ Without(Tail(q), Downs)
  BY TailKeeps
<1>2. /\ EndsIn(q, Downs, {"GOT_IP"}) =>
           EndsIn(Tail(q), Downs, {"GOT_IP"}) \/ (Head(q) \in Downs /\ Without(Tail(q), {"GOT_IP"}))
      /\ Without(q, {"GOT_IP"}) => Head(q) # "GOT_IP" /\ Without(Tail(q), {"GOT_IP"})
  BY TailKeeps
<1>3. ASSUME WillBeUp(q, flag) PROVE WillBeUp(Tail(q), new)
  BY <1>1, <1>3, Zenon DEF WillBeUp
<1>4. ASSUME WillBeDown(q, flag) PROVE WillBeDown(Tail(q), new)
  BY <1>2, <1>4, Zenon DEF WillBeDown
<1>5. QED
  BY <1>3, <1>4

LEMMA QueueKnowsInit == ASSUME Init PROVE QueueKnows
<1>1. WillBeDown(<<"START">>, FALSE)
  BY DEF WillBeDown, Without
<1>2. QED
  BY <1>1 DEF Init, QueueKnows

LEMMA QueueKnowsStep ==
  ASSUME TypeOK, QueueKnows, [Next]_vars
  PROVE  QueueKnows'
<1>1. events \in Seq(Events) /\ wifi_connected \in BOOLEAN /\ sta \in {"idle", "joining", "up"}
  BY Zenon DEF TypeOK
<1> USE DEF QueueKnows
<1>2. CASE Restarted
  <2>1. WillBeDown(<<"START">>, FALSE)
    BY DEF WillBeDown, Without
  <2>2. QED
    BY <1>2, <2>1, Zenon DEF Restarted, Restart
<1>3. ASSUME NEW e, Handle(e), wifi_connected' \in BOOLEAN,
             e = "GOT_IP" => wifi_connected', e \in Downs => ~wifi_connected',
             e \notin Downs \cup {"GOT_IP"} => wifi_connected' = wifi_connected
      PROVE  /\ Tail(events) \in Seq(Events)
             /\ sta = "up" => WillBeUp(Tail(events), wifi_connected')
             /\ sta # "up" => WillBeDown(Tail(events), wifi_connected')
  <2>1. events # <<>> /\ Head(events) = e
    BY <1>3 DEF Handle
  <2>2. Tail(events) \in Seq(Events)
    BY <1>1, <2>1
  <2>3. /\ WillBeUp(events, wifi_connected) => WillBeUp(Tail(events), wifi_connected')
        /\ WillBeDown(events, wifi_connected) => WillBeDown(Tail(events), wifi_connected')
    BY <1>1, <1>3, <2>1, Handled, Zenon
  <2>4. QED
    BY <2>2, <2>3
<1>4. CASE OnStart
  <2>1. /\ Handle("START") /\ UNCHANGED wifi_connected
        /\ events' = Tail(events) /\ sta' = Connected(sta)
    BY <1>4 DEF OnStart
  <2>2. QED
    BY <1>1, <1>3, <2>1 DEF Connected, Downs
<1>5. CASE OnGotIP
  <2>1. /\ Handle("GOT_IP") /\ wifi_connected' = TRUE
        /\ events' = Tail(events) /\ UNCHANGED sta
    BY <1>5 DEF OnGotIP, driver
  <2>2. QED
    BY <1>3, <2>1 DEF Downs
<1>6. CASE OnLostIP
  <2>1. Handle("LOST_IP") /\ wifi_connected' = FALSE /\ events' = Tail(events) /\ UNCHANGED sta
    BY <1>6 DEF OnLostIP, driver
  <2>2. QED
    BY <1>3, <2>1 DEF Downs
<1>7. CASE OnDisconnected
  <2>1. /\ Handle("DISCONNECTED") /\ wifi_connected' = FALSE
        /\ events' = Tail(events) /\ sta' = Connected(sta)
    BY <1>7 DEF OnDisconnected, FlagAfterLoss, Again
  <2>2. QED
    BY <1>1, <1>3, <2>1 DEF Downs, Connected
<1>8. CASE OnScanDone
  <2>1. Handle("SCAN_DONE") /\ UNCHANGED wifi_connected
    BY <1>8 DEF OnScanDone
  <2>2. /\ Tail(events) \in Seq(Events)
        /\ sta = "up" => WillBeUp(Tail(events), wifi_connected')
        /\ sta # "up" => WillBeDown(Tail(events), wifi_connected')
    BY <1>1, <1>3, <2>1 DEF Downs
  <2>3. CASE ~(inRange /\ ssid)
    BY <1>8, <2>2, <2>3 DEF OnScanDone
  <2>4. CASE inRange /\ ssid
    <3>1. events' = AfterDisconnect(Tail(events)) /\ sta' = "joining"
      BY <1>8, <2>4 DEF OnScanDone
    <3>2. WillBeDown(Append(Tail(events), "DISCONNECTED"), wifi_connected')
      BY <1>1, <2>1, <2>2, Arrives DEF Events, Downs
    <3>3. QED
      BY <2>2, <3>1, <3>2 DEF AfterDisconnect
  <2>5. QED
    BY <2>3, <2>4
<1>9. ASSUME NEW e \in Events, events' = Append(events, e), UNCHANGED wifi_connected,
             e = "GOT_IP" => sta' = "up", e \in Downs => sta' # "up",
             e \notin Downs \cup {"GOT_IP"} => UNCHANGED sta
      PROVE  QueueKnows'
  <2>1. /\ e = "GOT_IP" => WillBeUp(events', wifi_connected')
        /\ e \in Downs => WillBeDown(events', wifi_connected')
        /\ e \notin Downs /\ WillBeUp(events, wifi_connected) => WillBeUp(events', wifi_connected')
        /\ e # "GOT_IP" /\ WillBeDown(events, wifi_connected) =>
             WillBeDown(events', wifi_connected')
    BY <1>1, <1>9, Arrives, Zenon
  <2>2. QED
    BY <1>9, <2>1 DEF Downs
<1>10. CASE Driver \/ JoinSucceeds
  <2>1. \/ events' = Append(events, "GOT_IP") /\ sta' = "up"
        \/ events' = Append(events, "DISCONNECTED") /\ sta' = "idle"
        \/ events' = Append(events, "LOST_IP") /\ sta # "up" /\ UNCHANGED sta
        \/ events' = Append(events, "SCAN_DONE") /\ UNCHANGED sta
    BY <1>10 DEF Driver, JoinSucceeds, JoinFails, LinkBreaks, AddressExpires, ScanEnds
  <2>2. UNCHANGED wifi_connected
    BY <1>10 DEF Driver, JoinSucceeds, JoinFails, LinkBreaks, AddressExpires, ScanEnds
  <2>3. QED
    BY <1>9, <2>1, <2>2 DEF Events, Downs
<1>11. CASE PressThree
  <2>1. events' = AfterDisconnect(events) /\ sta' = "idle" /\ UNCHANGED wifi_connected
    BY <1>11 DEF PressThree
  <2>2. CASE sta = "idle"
    BY <2>1, <2>2 DEF AfterDisconnect
  <2>3. CASE sta # "idle"
    BY <1>9, <2>1, <2>3 DEF AfterDisconnect, Events, Downs
  <2>4. QED
    BY <2>2, <2>3
<1>12. CASE MirrorReads \/ MirrorWrites \/ ScLink \/ ScLinkOver \/ ApLeaves \/ ApReturns
  BY <1>12 DEF MirrorReads, MirrorWrites, ScLink, ScLinkOver, ApLeaves, ApReturns, driver
<1>13. ASSUME NEW t \in Tasks, PressFive(t) \/ Smart(t) PROVE QueueKnows'
  BY <1>13 DEF PressFive, Smart, Refused, Granted, SetWorking, StartSmart, WaitBits, Look,
     StopSmart, ClearWorking, driver
<1>14. CASE UNCHANGED vars
  BY <1>14 DEF vars, driver
<1>15. QED
  BY <1>2, <1>4, <1>5, <1>6, <1>7, <1>8, <1>10, <1>11, <1>12, <1>13, <1>14, StepCases
     DEF Outside, Handler

\* A handler that is behind is only behind: with the queue empty, the flag is right.
LEMMA EmptyQueueTells ==
  ASSUME TypeOK, QueueKnows PROVE FlagFollowsLink
<1>1. SUFFICES ASSUME events = <<>> PROVE wifi_connected <=> sta = "up"
  BY DEF FlagFollowsLink
<1>2. ~EndsIn(events, {"GOT_IP"}, Downs) /\ ~EndsIn(events, Downs, {"GOT_IP"})
  BY <1>1 DEF EndsIn
<1>3. QED
  BY <1>2, Zenon DEF QueueKnows, WillBeUp, WillBeDown

\* Once every event is handled the flag is the link, in every order of joins, losses,
\* expired addresses, scans and disconnects on purpose.
THEOREM FlagFollows == Spec => []FlagFollowsLink
<1>1. Init => TypeOK /\ QueueKnows
  BY TypeInit, QueueKnowsInit
<1>2. TypeOK /\ QueueKnows /\ [Next]_vars => TypeOK' /\ QueueKnows'
  BY TypeStep, QueueKnowsStep
<1>3. TypeOK /\ QueueKnows => FlagFollowsLink
  BY EmptyQueueTells
<1>4. QED
  BY <1>1, <1>2, <1>3, PTL DEF Spec
=============================================================================
