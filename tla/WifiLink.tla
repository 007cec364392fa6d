------------------------------ MODULE WifiLink ------------------------------
(***************************************************************************)
(* The link to the access point: the WiFi event handler and SmartConfig    *)
(* (wifi.c), the key press that starts SmartConfig or drops the link, and  *)
(* the TCP task that mirrors wifi_connected into WIFI_CONNECTED_BIT        *)
(* (main.c).                                                               *)
(*                                                                         *)
(* Three tasks and the driver work on the same bits and the same station:  *)
(* events are handled one by one, in order, while the station moves on.    *)
(* A failing ESP_ERROR_CHECK restarts the device; the driver keeps its     *)
(* configuration in flash.                                                 *)
(***************************************************************************)
EXTENDS Naturals, Sequences

CONSTANTS
  Tasks,        \* SmartConfig tasks that may exist at a time
  MaxPresses,   \* bound: key presses that do something here
  MaxFaults,    \* bound: how often the access point goes away or a check fails
  MaxEvents     \* bound: events under way at a time

ASSUME WifiLinkAssumption ==
  /\ MaxPresses \in Nat /\ MaxFaults \in Nat
  /\ MaxEvents \in Nat \ {0}

VARIABLES
  wifi_connected,  \* of the wifi context
  bits,            \* wifi_event_group: CONNECTED, DONE (ESPTOUCH), WORKING (SMART)
  ssid,            \* the context holds an SSID to look for
  pc, seen,        \* SmartConfig tasks: next step, what their wait returned
  mirror,          \* the TCP task, between its read of the flag and its call
  events,          \* events the handler has not been given yet
  sta,             \* the station: "idle", "joining" or "up"
  config,          \* the driver has credentials
  scanning,
  lost_timer,      \* the address is given up some time after the link
  inRange,
  esptouch,        \* SmartConfig in the driver: "off", "listening", "linked", "over"
  presses, faults, \* history: how often either happened
  slipped          \* history: a SmartConfig task was let in while another one
                   \* had tested WORKING and not set it

tasks == <<pc, seen>>
driver == <<sta, config, scanning, lost_timer, esptouch>>
history == <<presses, faults, slipped>>
vars == <<wifi_connected, bits, ssid, tasks, mirror, events, driver, inRange, history>>

Events == {"START", "GOT_IP", "LOST_IP", "DISCONNECTED", "SCAN_DONE"}
Labels == {"none", "test", "set", "start", "wait", "blocked", "look", "stop", "clear", "abort"}

\* What a SmartConfig task waits for, and clears when it gets it.
Awaited == {"CONNECTED", "DONE"}

TypeOK ==
  /\ wifi_connected \in BOOLEAN
  /\ bits \subseteq {"CONNECTED", "DONE", "WORKING"}
  /\ ssid \in BOOLEAN
  /\ pc \in [Tasks -> Labels]
  /\ seen \in [Tasks -> SUBSET {"CONNECTED", "DONE"}]
  /\ mirror \in {"idle", "set", "clear"}
  /\ events \in Seq(Events)
  /\ sta \in {"idle", "joining", "up"}
  /\ config \in BOOLEAN /\ scanning \in BOOLEAN
  /\ lost_timer \in BOOLEAN /\ inRange \in BOOLEAN
  /\ esptouch \in {"off", "listening", "linked", "over"}
  /\ presses \in 0 .. MaxPresses /\ faults \in 0 .. MaxFaults
  /\ slipped \in BOOLEAN

\* app_main: new_wifi_context, initialise_wifi, esp_wifi_start.
Init ==
  /\ wifi_connected = FALSE /\ bits = {} /\ ssid = FALSE
  /\ pc = [t \in Tasks |-> "none"] /\ seen = [t \in Tasks |-> {}]
  /\ mirror = "idle"
  /\ events = <<"START">>
  /\ sta = "idle" /\ scanning = FALSE /\ lost_timer = FALSE /\ esptouch = "off"
  /\ config \in BOOLEAN /\ inRange = TRUE
  /\ presses = 0 /\ faults = 0 /\ slipped = FALSE

-----------------------------------------------------------------------------
(* The driver's calls, as effects on its state and on the queue of events  *)

Room == Len(events) < MaxEvents

Connected(s) == IF s = "up" THEN "up" ELSE "joining"

\* A scan that is asked for while the station joins is refused, and nobody looks
\* at the result.
ScanStarted(s) == scanning \/ s # "joining"

\* The events a disconnect leaves behind q.
AfterDisconnect(q) == IF sta = "idle" THEN q ELSE Append(q, "DISCONNECTED")

-----------------------------------------------------------------------------
(* wifi_event_handler: one event at a time, in order                       *)

Handle(e) == events # <<>> /\ Head(events) = e

OnStart ==
  /\ Handle("START")
  /\ events' = Tail(events)
  /\ sta' = Connected(sta)
  /\ UNCHANGED <<wifi_connected, bits, ssid, tasks, mirror, config, scanning, lost_timer,
                 esptouch, inRange, history>>

OnGotIP ==
  /\ Handle("GOT_IP")
  /\ events' = Tail(events)
  /\ wifi_connected' = TRUE
  /\ UNCHANGED <<bits, ssid, tasks, mirror, driver, inRange, history>>

OnLostIP ==
  /\ Handle("LOST_IP")
  /\ events' = Tail(events)
  /\ wifi_connected' = FALSE
  /\ UNCHANGED <<bits, ssid, tasks, mirror, driver, inRange, history>>

\* Seeded bug: the flag is left to SYSTEM_EVENT_STA_LOST_IP.
FlagKept == wifi_connected

FlagAfterLoss == FALSE

\* Seeded bug: the handler does not try again.
NotAgain(s) == s

Again(s) == Connected(s)

OnDisconnected ==
  /\ Handle("DISCONNECTED")
  /\ events' = Tail(events)
  /\ wifi_connected' = FlagAfterLoss
  /\ sta' = Again(sta)
  /\ UNCHANGED <<bits, ssid, tasks, mirror, config, scanning, lost_timer, esptouch, inRange,
                 history>>

\* The access point SmartConfig named is there: leave the one there is and join
\* it; otherwise look again.
OnScanDone ==
  /\ Handle("SCAN_DONE")
  /\ IF inRange /\ ssid
     THEN /\ events' = AfterDisconnect(Tail(events))
          /\ sta' = "joining"
          /\ lost_timer' = (lost_timer \/ sta = "up")
          /\ UNCHANGED scanning
     ELSE /\ events' = Tail(events)
          /\ scanning' = ScanStarted(sta)
          /\ UNCHANGED <<sta, lost_timer>>
  /\ UNCHANGED <<wifi_connected, bits, ssid, tasks, mirror, config, esptouch, inRange, history>>

-----------------------------------------------------------------------------
(* Event bits                                                              *)

\* xEventGroupSetBits: whoever waits for one of the bits is woken with all of
\* them, and all of them are cleared.
SetBits(b) ==
  LET now == (bits \cup {b}) \cap Awaited
      woken == {t \in Tasks : pc[t] = "blocked" /\ now # {}}
  IN  IF woken = {}
      THEN bits' = bits \cup {b} /\ UNCHANGED tasks
      ELSE /\ bits' = (bits \cup {b}) \ Awaited
           /\ pc' = [t \in Tasks |-> IF t \in woken THEN "look" ELSE pc[t]]
           /\ seen' = [t \in Tasks |-> IF t \in woken THEN now ELSE seen[t]]

\* task_tcp_service reads the flag, and a moment later sets or clears the bit.
MirrorReads ==
  /\ mirror = "idle"
  /\ mirror' = IF wifi_connected THEN "set" ELSE "clear"
  /\ UNCHANGED <<wifi_connected, bits, ssid, tasks, events, driver, inRange, history>>

\* Seeded bug: the bit is only ever set.
ClearNothing == bits

WithoutConnected == bits \ {"CONNECTED"}

MirrorWrites ==
  /\ mirror # "idle"
  /\ mirror' = "idle"
  /\ IF mirror = "set" THEN SetBits("CONNECTED")
     ELSE bits' = WithoutConnected /\ UNCHANGED tasks
  /\ UNCHANGED <<wifi_connected, ssid, events, driver, inRange, history>>

-----------------------------------------------------------------------------
(* smartconfig_example_task                                                *)

Goto(t, l) == pc' = [pc EXCEPT ![t] = l]

\* Five short presses create the task, three drop the link.
PressFive(t) ==
  /\ pc[t] = "none"
  /\ presses < MaxPresses /\ presses' = presses + 1
  /\ Goto(t, "test")
  /\ UNCHANGED <<wifi_connected, bits, ssid, seen, mirror, events, driver, inRange, faults,
                 slipped>>

PressThree ==
  /\ presses < MaxPresses /\ presses' = presses + 1
  /\ Room
  /\ events' = AfterDisconnect(events)
  /\ sta' = "idle"
  /\ lost_timer' = (lost_timer \/ sta = "up")
  /\ UNCHANGED <<wifi_connected, bits, ssid, tasks, mirror, config, scanning, esptouch,
                 inRange, faults, slipped>>

\* Seeded bug: the test asks for another bit.
NeverBusy == FALSE

Busy == "WORKING" \in bits

Refused(t) ==
  /\ pc[t] = "test"
  /\ Busy
  /\ Goto(t, "none")
  /\ UNCHANGED <<wifi_connected, bits, ssid, seen, mirror, events, driver, inRange, history>>

Granted(t) ==
  /\ pc[t] = "test"
  /\ ~Busy
  /\ Goto(t, "set")
  /\ slipped' = (slipped \/ \E u \in Tasks \ {t} : pc[u] = "set")
  /\ UNCHANGED <<wifi_connected, bits, ssid, seen, mirror, events, driver, inRange, presses,
                 faults>>

SetWorking(t) ==
  /\ pc[t] = "set"
  /\ bits' = bits \cup {"WORKING"}
  /\ Goto(t, "start")
  /\ UNCHANGED <<wifi_connected, ssid, seen, mirror, events, driver, inRange, history>>

\* esp_smartconfig_start fails when SmartConfig runs already; that is checked.
StartSmart(t) ==
  /\ pc[t] = "start"
  /\ IF esptouch = "off"
     THEN esptouch' = "listening" /\ Goto(t, "wait")
     ELSE Goto(t, "abort") /\ UNCHANGED esptouch
  /\ UNCHANGED <<wifi_connected, bits, ssid, seen, mirror, events, sta, config, scanning,
                 lost_timer, inRange, history>>

\* xEventGroupWaitBits(CONNECTED | DONE, clear on exit, any, for ever).
WaitBits(t) ==
  /\ pc[t] = "wait"
  /\ IF bits \cap Awaited # {}
     THEN /\ seen' = [seen EXCEPT ![t] = bits \cap Awaited]
          /\ bits' = bits \ Awaited
          /\ Goto(t, "look")
     ELSE Goto(t, "blocked") /\ UNCHANGED <<bits, seen>>
  /\ UNCHANGED <<wifi_connected, ssid, mirror, events, driver, inRange, history>>

\* Seeded bug: the two bits are told apart with "else if".
DoneAlone(s) == s = {"DONE"}

SaysDone(s) == "DONE" \in s

Look(t) ==
  /\ pc[t] = "look"
  /\ Goto(t, IF SaysDone(seen[t]) THEN "stop" ELSE "wait")
  /\ seen' = [seen EXCEPT ![t] = {}]
  /\ UNCHANGED <<wifi_connected, bits, ssid, mirror, events, driver, inRange, history>>

StopSmart(t) ==
  /\ pc[t] = "stop"
  /\ esptouch' = "off"
  /\ Goto(t, "clear")
  /\ UNCHANGED <<wifi_connected, bits, ssid, seen, mirror, events, sta, config, scanning,
                 lost_timer, inRange, history>>

\* Seeded bug: the task leaves its bit behind.
WorkingKept == bits

WorkingCleared == bits \ {"WORKING"}

ClearWorking(t) ==
  /\ pc[t] = "clear"
  /\ bits' = WorkingCleared
  /\ Goto(t, "none")
  /\ UNCHANGED <<wifi_connected, ssid, seen, mirror, events, driver, inRange, history>>

\* A failed ESP_ERROR_CHECK: the device starts again.
Restart ==
  /\ wifi_connected' = FALSE /\ bits' = {} /\ ssid' = FALSE
  /\ pc' = [t \in Tasks |-> "none"] /\ seen' = [t \in Tasks |-> {}]
  /\ mirror' = "idle"
  /\ events' = <<"START">>
  /\ sta' = "idle" /\ scanning' = FALSE /\ lost_timer' = FALSE /\ esptouch' = "off"
  /\ slipped' = FALSE
  /\ UNCHANGED <<config, inRange, presses>>

Abort ==
  /\ \E t \in Tasks : pc[t] = "abort"
  /\ Restart
  /\ UNCHANGED faults

\* The checks of the handler (connect, disconnect, get_mac), of sc_callback
\* (set_config) and of a key press (disconnect): they may fail at any time.
ChecksAhead ==
  \/ Handle("START") \/ Handle("GOT_IP") \/ Handle("DISCONNECTED")
  \/ Handle("SCAN_DONE") /\ inRange /\ ssid
  \/ esptouch = "listening" \/ presses < MaxPresses

CheckFails ==
  /\ ChecksAhead
  /\ faults < MaxFaults /\ faults' = faults + 1
  /\ Restart

-----------------------------------------------------------------------------
(* sc_callback, called by the driver                                       *)

\* SC_STATUS_LINK: the phone's credentials arrived.
ScLink ==
  /\ esptouch = "listening"
  /\ esptouch' = "linked"
  /\ config' = TRUE
  /\ ssid' = TRUE
  /\ scanning' = ScanStarted(sta)
  /\ UNCHANGED <<wifi_connected, bits, tasks, mirror, events, sta, lost_timer, inRange, history>>

\* SC_STATUS_LINK_OVER: the device has an address and told the phone.
ScLinkOver ==
  /\ esptouch = "linked" /\ sta = "up"
  /\ esptouch' = "over"
  /\ SetBits("DONE")
  /\ UNCHANGED <<wifi_connected, ssid, mirror, events, sta, config, scanning, lost_timer,
                 inRange, history>>

-----------------------------------------------------------------------------
(* The driver and the access point                                         *)

JoinSucceeds ==
  /\ sta = "joining" /\ config /\ inRange /\ Room
  /\ sta' = "up"
  /\ events' = Append(events, "GOT_IP")
  /\ lost_timer' = FALSE
  /\ UNCHANGED <<wifi_connected, bits, ssid, tasks, mirror, config, scanning, esptouch,
                 inRange, history>>

JoinFails ==
  /\ sta = "joining" /\ Room
  /\ sta' = "idle"
  /\ events' = Append(events, "DISCONNECTED")
  /\ UNCHANGED <<wifi_connected, bits, ssid, tasks, mirror, config, scanning, lost_timer,
                 esptouch, inRange, history>>

LinkBreaks ==
  /\ sta = "up" /\ ~inRange /\ Room
  /\ sta' = "idle"
  /\ events' = Append(events, "DISCONNECTED")
  /\ lost_timer' = TRUE
  /\ UNCHANGED <<wifi_connected, bits, ssid, tasks, mirror, config, scanning, esptouch,
                 inRange, history>>

AddressExpires ==
  /\ lost_timer /\ sta # "up" /\ Room
  /\ lost_timer' = FALSE
  /\ events' = Append(events, "LOST_IP")
  /\ UNCHANGED <<wifi_connected, bits, ssid, tasks, mirror, sta, config, scanning, esptouch,
                 inRange, history>>

ScanEnds ==
  /\ scanning /\ Room
  /\ scanning' = FALSE
  /\ events' = Append(events, "SCAN_DONE")
  /\ UNCHANGED <<wifi_connected, bits, ssid, tasks, mirror, sta, config, lost_timer, esptouch,
                 inRange, history>>

ApLeaves ==
  /\ inRange /\ faults < MaxFaults
  /\ inRange' = FALSE /\ faults' = faults + 1
  /\ UNCHANGED <<wifi_connected, bits, ssid, tasks, mirror, events, driver, presses, slipped>>

ApReturns ==
  /\ ~inRange /\ inRange' = TRUE
  /\ UNCHANGED <<wifi_connected, bits, ssid, tasks, mirror, events, driver, history>>

-----------------------------------------------------------------------------
Handler == OnStart \/ OnGotIP \/ OnLostIP \/ OnDisconnected \/ OnScanDone
Mirror == MirrorReads \/ MirrorWrites
Smart(t) ==
  \/ Refused(t) \/ Granted(t) \/ SetWorking(t) \/ StartSmart(t) \/ WaitBits(t) \/ Look(t)
  \/ StopSmart(t) \/ ClearWorking(t)
Callback == ScLink \/ ScLinkOver
Driver == JoinFails \/ LinkBreaks \/ AddressExpires \/ ScanEnds

Running == \A t \in Tasks : pc[t] # "abort"

Next ==
  \/ Abort
  \/ /\ Running
     /\ \/ Handler \/ Mirror \/ Callback \/ Driver \/ JoinSucceeds \/ ApLeaves \/ ApReturns
        \/ PressThree \/ CheckFails
        \/ \E t \in Tasks : PressFive(t) \/ Smart(t)

Spec == Init /\ [][Next]_vars

\* Every task of the device runs; a join that can succeed again and again does,
\* and somebody holds a phone to the device. The access point may stay away.
Fairness ==
  /\ WF_vars(Abort) /\ WF_vars(Running /\ Handler) /\ WF_vars(Running /\ Mirror)
  /\ \A t \in Tasks : WF_vars(Running /\ Smart(t))
  /\ WF_vars(Running /\ Driver)
  /\ SF_vars(Running /\ JoinSucceeds) /\ SF_vars(Running /\ Callback)

FairSpec == Spec /\ Fairness

-----------------------------------------------------------------------------
(* Properties                                                              *)

\* Once every event is handled, wifi_connected says whether there is a link: no
\* order of losses, joins, expired addresses and scans leaves it wrong.
FlagFollowsLink ==
  /\ TypeOK
  /\ events = <<>> => (wifi_connected <=> sta = "up")

\* SMART_WIFI_WORKING never outlives the task that will clear it.
WorkingHasOwner ==
  "WORKING" \in bits =>
    \E t \in Tasks : pc[t] \in {"start", "wait", "blocked", "look", "stop", "clear", "abort"}

\* SmartConfig is started twice, which restarts the device, only when two tasks
\* fell between the test and the set of SMART_WIFI_WORKING.
NoSecondStart == (\E t \in Tasks : pc[t] = "abort") => slipped

\* A SmartConfig task ends once the phone and its access point are there, however
\* the bits it waits for and clears are set under its hands.
SmartConfigEnds == []<>inRange => \A t \in Tasks : pc[t] = "wait" ~> pc[t] = "none"

\* With credentials and an access point that stays, the device stays connected,
\* whatever disconnects it on purpose or not (onWiFiDisconnected, onWiFiDidScan).
StaysConnected == <>[](config /\ inRange) => <>[]wifi_connected

\* The bit the LED task reads does not stay behind the flag, in either direction.
BitFollowsFlag ==
  /\ <>[]wifi_connected => []<>("CONNECTED" \in bits)
  /\ <>[]~wifi_connected => <>[]("CONNECTED" \notin bits)
=============================================================================
