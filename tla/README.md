# TLA+ models of IR_TOOL

IR_TOOL is ESP32 firmware (C on FreeRTOS, lwip and ESP-IDF) for an infrared
remote control that is itself remote-controlled: it learns the code of a remote
and sends codes on request of a key, of a TCP client or of an MQTT broker. This
directory models the program's own logic in TLA+, checks it with TLC on small
instances, and proves part of it with TLAPS for every value of the constants.

Contents: [inventory](#1-inventory), [modules](#2-modules-and-the-code-they-model),
[runs](#3-runs-and-bounds), [fairness](#4-fairness), [proofs](#5-proofs),
[findings](#6-where-the-code-and-its-comments-disagree),
[what is left out](#7-what-is-not-modelled), [plan](#8-plan).

## 1. Inventory

Line numbers are those of `src/main/`.

| Component | State it keeps | Operations | What makes it correct |
|---|---|---|---|
| IR request arbitration (`main.c` 197-234, 383-545) | bits `SEND_IRDA_BIT`, `LEARN_IRDA_BIT` of `wifi_event_group`; global buffer `ir_learned_data` | the four tasks `task_keypress_ir_*`, `task_tcpservice_ir_*`, the two MQTT callbacks, `_learn_ir_data` | no two requests drive the chip or the buffer; a set bit has somebody who clears it; a reported code is the one heard |
| HXD019 driver (`hxd019_drv.c`) | the pins SCL and SDA, direction of SDA | `Learn_start2`, `readI2C2`, `writeI2C2` over bit-banged bytes | transfers do not overlap; bytes cross the wire as they are; driver and chip do not drive it against each other |
| MQTT connection (`mqtt_client.c`, `mqtt_esp32_client.c`, `utils_net.c`) | `client_state`, socket handle, `keepalive_probes`, reconnect interval, flag `reconnected`, list `sub_to_ack` | construct, keepalive, reconnect, cycle, reading and writing packets, subscribing after every connect | packets are cut out of the stream where the broker put them together; state and socket agree, sockets are given back, dead links are noticed and live ones kept, the device ends up subscribed |
| MQTT publishing (`mqtt_client.c`) | list `pub_to_ack`, packet ids | publish, PUBACK, republish, clean-up | at-least-once delivery |
| MQTT subscriptions (`mqtt_client.c`) | list `sub_to_ack`, table `sub_handle` | subscribe, unsubscribe, SUBACK, UNSUBACK, delivery by topic | what the broker sends is handed to its handler once |
| MQTT packet codec (`MQTT*.c`, vendored Paho) | none | serialise, deserialise | - |
| Timers (`utils_timer.c`) | end time of each timer | countdown, expired, left, spent | true across the wrap of the 32-bit clock |
| Lists (`utils_list.c`), sockets (`utils_net.c`) | arrays with a length; a handle | push, remove; connect, disconnect | used through the MQTT client |
| TCP service (`wifi.c` 325-645, `main.c` 550-658) | `fd_sets`, list of elements with buffers and positions, `recvCount`, `buffer` | select loop, write, read and clear of a buffer, two handlers, close with swap | every connection has one slot, every frame one request however it arrives, every answer its asker |
| Discovery (`main.c`) | none between datagrams | answers a UDP datagram | - |
| WiFi events and SmartConfig (`wifi.c` 45-324) | `wifi_connected`, bits `WIFI_CONNECTED_BIT`, `ESPTOUCH_DONE_BIT`, `SMART_WIFI_WORKING` | event handler, SmartConfig task and callback, mirroring | the flag follows the link, SmartConfig runs once and ends, the device stays connected |
| Keys, LED, start-up (`main.c`) | `pressSecond` | counting presses, blinking, creating the tasks | - |
| `savedata.c`, `mqtt_timer.c` | | not called by the program | - |
| cJSON (vendored) | | | - |

How they interact. `app_main` creates the tasks vTaskKEY, vTaskLED, vTaskMQTT,
task_tcp_service and task_discoverservice. Keys, TCP frames and MQTT commands all
end in the infrared engine, which is guarded only by event bits that are tested
and set in two calls. The MQTT client runs in one task: a command's handler runs
inside `iotx_mc_cycle`, so a learn request that waits for a remote stops
keepalive. `wifi_connected` is written by the event handler and read by the MQTT
and TCP tasks; the TCP task mirrors it into a bit that SmartConfig waits for and
clears. A TCP request runs as a task of its own and answers into the element of
the slot it came from.

Hard behaviour, where it is in the code, and the property that is about it, is
the list `hazards` of `PROJECT.json`: tests and sets of event bits in two calls,
answers that come to a slot that has a new owner, frames and packets that arrive in
pieces, writes that are taken in part, counters and flags that outlive a
connection, lists and buffers that fill up, packet ids and clocks that wrap, late
events of an old link.

## 2. Modules and the code they model

`PROJECT.json`, "map", names the lines of every definition. Names are those of
the source where TLA+ allows it. `MC<Module>` only gives TLC its instances.

**IrEngine** (`main.c`, `hxd019_drv.c`). `Tasks` are slots for the tasks that a key
or a TCP frame creates, and the callback frame of vTaskMQTT. `pc` walks through the
statements of the handler; each read or write of the event bits is a step: `Granted`
and `Refused` are the xEventGroupWaitBits, `SetBit` the set that follows,
`FailClear`, `Clear`, `ClearAgain` the two or three clears. A transfer on the bus has
a beginning and an end; two that overlap are both garbled. `Captures` abstracts what
the receiver hears: a code, a signal too short for the end mark 0xff 0xff 0xff 0xff, and noise
with a bad FCS byte. `ff_seen` is `ff_count` having reached 4: like it, it is not reset by
another try. A failed try cannot leave it so while nobody else writes the buffer, which is
zeros from its memset (`main.c` 510) and stays so, since `readI2C2` returns before it stores
anything (`hxd019_drv.c` 824-830). `filler` is the task that has had the buffer to itself
since that memset; for anybody else what the scan finds is open. `slips`
is history: through which gaps of the arbitration a request got in ("take": between
another one's test and set; "release": between the two clears of one learner).
`StartKey`, `StartTcp`, `StartMqtt` are the sources of requests.

**MqttConn** (`mqtt_client.c`, `mqtt_esp32_client.c`, `utils_net.c`, vTaskMQTT). `pc` is the
next call of `tcp_mqtt_yield`: keepalive, cycle, MQTTSubInfoProc, and the subscribe
at the end. A dead link is not reported: writes are swallowed or refused, reads time
out, because `tcp_esp32_read` turns errors into 0. Sockets are counted, since
`tcp_esp32_connect` leaves the socket of a refused connect() open (`refusals`).

**Lists** (`utils_list.c`) is the lists of MqttConn, MqttSubs and MqttPub as sequences: `Kept` is
what `list_remove` leaves when it is called for one node after another in a walk. It is a
recursive function and not SelectSeq, because the prover knows nothing of that one. `Joined`
puts packets or frames one behind the other, for what MqttStream and TcpFrames say of them.

**MqttSubs** (`mqtt_client.c`). The application's use of subscribe and unsubscribe, free
in order, with the list, the table and topic matching at the level of characters.
The connection is reduced to up, lost and new. The program itself subscribes one
filter and never unsubscribes; the module checks the client's interface for any use
of a few filters and handlers. The list's nodes for unsubscribe carry no handler and
(as in the code) the type SUBSCRIBE. `Covers` is MQTT's definition of matching,
against which `IsTopicMatched`, the code's loop, is checked.

**MqttPub** and **AtLeastOnce**. MqttPub is publishing at QoS 1: `Report` runs inside the
handler of a command (`RecvPublish` of MqttConn), nodes get late, `PubInfoProc` sends
late nodes again from a copy of the node (so a late node stays late) and then removes
the acknowledged ones, unless the very first write failed (`RepublishFails`). A report has 232
bytes of code, so its packet is always longer than the 256 bytes of a node's `buf`
(`MQTT_client.h` 192) into which `mqtt_client.c` 397 copies it. The first copy is sent whole, out
of `buf_send` (`FirstCopy`); those out of the list end in other bytes (`Copies`, the field
`whole` of a packet). What is written behind the node on the stack may restart the device
(`ReportRestarts`). The histories `lost` and `forgotten` are the reports whose first copy the
broker cannot read any more, and those that waited at a restart. AtLeastOnce is the promise: a
report accepted is owed until the broker has a copy, or the device restarts. `KeepsPromise` says
that MqttPub implements it, with `owed <- Owed`, the messages of the nodes still NORMAL. The other
modules are about a device that keeps running.

**UtilsTimer** (`utils_timer.c`). One timer and the clock, at the clock's width.
`AskLeft` and `AnswerLeft` are the two reads of the clock in `iotx_time_left`.

**TcpServer** (`wifi.c`, `main.c`). One round of `so_server_process` is a step per slot.
`recvCount` lives for the round, as in the code; `next` is the linked list of elements
with the stores of `so_client_element_swap` one after the other, which take elements off the
list as soon as two slots are behind the closed one (`lost`); `fds` is `fd_sets`
behind the listener. A slot the list does not reach, or a swap that finds no element, is an
access through NULL: `VisitCrash` restarts the device, with a new server. Frames are whole learn
frames, so that buffers are sequences of frames. Two histories say when the code itself mixes
clients up: `mixed` (bytes in `buffer`, or what belongs to an element, came to another
connection) and `hasty` (a peer closed while something was owed to it).

**RingBuffer** and **TcpFrames** (`wifi.c`, `main.c`) look into one slot at the level of
bytes. RingBuffer is the buffer's write, read and clear with their `uint8_t` positions,
as operators on a record; the array keeps its old cells behind what was written, as in
the code. TcpFrames is the slot: `Visit(n)` is a recv of n bytes, any part of what the
peer sent, followed by both handlers; `Parse` is `server_recv_accept_send_process` with
its refusals, `NothingQueued` the second handler that does not look at the result of
xQueueReceive. `cut` and `guessed` note that a frame was looked at, or accepted, before
it had arrived. Behind a write or a read outside the array (`broken`) a behaviour ends.

**MqttStream** (`mqtt_client.c`, `mqtt_esp32_client.c`) is the connection as two streams of
bytes. `ReadHeader`, `ReadDigit`, `ReadRest` and `ReadDrop` are the reads of
`iotx_mc_read_packet` and `iotx_mc_decode_packet`, each returning any part of what was asked
for, or nothing; `Writes` are those of `iotx_mc_send_packet`, which goes on with the full
length behind the packet's end after a partial write. A byte is the packet it belongs
to and its place in it; only headers and digits have values. `incoming` and `outgoing` are
the bytes on the way to the client and those the broker got; `CloseSocket` and
`NewConnection` are the two halves of a reconnect.

**TwoWire** (`hxd019_drv.c`) is a transfer pin by pin. The driver is the list of its calls,
each a list of pin operations (`Pins`); SDA is low when either side pulls it. The chip is
external: it sees each edge at once, and changes its own hold on SDA late, up to the
driver's next delay. A code to be sent is any sequence of bytes: what TCP and MQTT clients
send is passed on unchecked (`main.c` 229, 473), so it may be empty, or begin with 0x31, the
chip's address for reading.

**WifiLink** (`wifi.c`, `main.c`). The event handler takes events one by one from a queue;
the driver (external) moves on meanwhile. `Awaited` are the bits a SmartConfig task
waits for and takes away; `MirrorReads` and `MirrorWrites` are the TCP task's read of
the flag and its call. A failing ESP_ERROR_CHECK restarts the device (`Restart`): that of
esp_smartconfig_start when SmartConfig runs already (`Abort`), the others, of connect,
disconnect, get_mac and set_config, as a counted fault at any time (`CheckFails`).

Network, peers, broker, access point, driver and the remote control are not in `src/`;
their actions are marked external and do what the code in `src/` can observe.

## 3. Runs and bounds

Every property states, in the comment above it, the code behaviour it is about.

| Run | Question | Instance, and why it is enough |
|---|---|---|
| IrRace | Do requests stay out of each other's way, at every interleaving of reads and writes of the bits? | one key, one TCP and one MQTT slot, so all three kinds meet pairwise and all at once, and slots are reused; one code; one failed try ends a request |
| IrLive | Does every request end, and is what it reports a whole code? | a key and a TCP slot, two tries, so an `ff_count` that a failed try left at 4 would let the next one through |
| Conn | Do client state, socket and subscription agree over faults, are dead links noticed and live ones kept, does the device recover? | three requests, two probes, three faults (one more than two in a row), four sockets, `IntervalMax` 3: like 60 in the code no power of two, so the doubled interval overshoots before it is capped |
| Pub | Is a report delivered at least once? | three reports, a list of two (it fills), two losses; ids go to 3; any report may restart the device |
| Subs | Does the table agree with the broker, is a command handed once? | filters `x/#` (as the device's own) twice, with two handlers, and `+/l`; names below, deeper and beside them; a table and a list of two, which both fill; ids go to 3, and go round |
| SubsDocUnsub | comment on unsubscribing (section 6) | as Subs |
| Timer | Is the clock's wrap harmless? | a word of 16 values, delays up to half the range, every clock position, any time between the two reads up to six ticks behind the expiry |
| Tcp | Is a slot closed in the middle of a round without losing anybody; does every frame become one request, every answer reach its asker? | four connections, three at a time, three elements: a slot can be closed with two behind it, so that the swap takes an element off the list, and the fourth connection then meets the shorter list and the crash; the third and the fourth, which are in the slots that move, send a frame each |
| Frames | Are frames parsed once, in order and whole, however they arrive? | a buffer of 12 cells instead of 256, frames of 5 and 7 bytes, so that two do not fit at once; a learn frame, a send frame whose payload holds the frame's own marks, an unknown type; two frames on each of two connections, so a connection finds the array of another |
| Stream | Are packets cut out of the stream where the broker put them together, and are those reported as sent really sent? | digits to the base 2 instead of 128 and a buffer of 5, so lengths take one to three digits and packets fit, fit exactly, and are too long by one and by more; three packets each way, two connections |
| Wire | Do bytes cross the two wires as they are? | three transfers in a row of any kind; five codes: as learned, beginning with another address, empty, 0x31 alone, 0x31 with bytes behind it; two bytes read behind the first instead of 230, answers that begin and end with either bit |
| Wifi | Do flag, bits and link agree, does SmartConfig end? | two SmartConfig tasks, two key presses, one loss of the access point or failed check, two events under way |

Bounds are constants, named in the modules: faults, presses and frames are counted,
queues have a length. A bound on faults is needed for "eventually" (a network that
fails for ever allows nothing), and it is larger than the number of faults any one
path of the code handles. Deadlock is checked in every run; modules whose behaviours
end (TcpFrames, MqttStream, TwoWire) say where, in an action `Done`.

What the runs show, and under which conditions:

- *The infrared engine*. `MutualExclusion`, `ReportIsHeard`, `SentBufferStable` hold
  **until** a request slips through one of the two gaps (`slips`). The gaps are in the
  code: the bits are tested with one call and set with another, and a failed learn (or
  any TCP learn) clears `LEARN_IRDA_BIT` twice. The properties say that there is no
  third. `SendShutsOut` needs only the first gap to be unused. `NoOrphanBit`
  and `RequestsEnd` hold with the gaps: the engine never stays refused.
  `ReportIsWhole`: until then what is reported is a whole code, however many tries failed
  before: `ff_count` outlives a try, but a failed one cannot have counted to 4.
- *The connection*. `HealthyLinkKept` exempts a packet that arrives in two parts (one
  read error disconnects, `CycleReadError`) and a full list of requests. `Recovers`
  has three conditions (`Recoverable`): no refused subscription, room in the list, a
  socket left. Each names something the code does not get over: a refusal is not
  asked again, unanswered requests are never removed, the socket of a refused
  connect() is never closed.
- *Publishing*. The promise is about **some** copy, since those that are sent again are cut.
  `CutAfterLoss` says when the broker can be left without the whole code: only when the first
  copy was lost with its connection, or at a restart. `KeepsPromise` and `AcksAreTrue` (an
  acknowledgement marks the node of the message it is about) need that packet ids do not come
  round while a node waits (65535 ids against 20 nodes); the instance does not let them.
  `ReportsArrive` excepts what a restart made the device forget.
- *Subscriptions*. `Request` assumes the same of the list of requests. A filter that ends
  in `/#` also matches its parent level in MQTT, not in the code; no topic of a
  command is that level, and the names checked leave it out.
- *The TCP service*. `SlotsHaveOwn` holds through every close: a close with two or more slots
  behind it makes the list shorter by as many elements as it passes over, and in no other way; a
  slot it still reaches shares its element with nobody. That a slot beyond its end restarts the
  device is what the code does. `OnceInOrder` and `AnswersAreOwn` hold **until** `mixed`: a slot
  without bytes of its own gets the count, and the bytes, of the slot before it, and what waits in
  an element stays there when the connection moves to another slot, or goes out of reach when the
  swap takes the element off. They say that there is no third way. An answer owed to a peer that
  closed goes to the next peer in the slot (`hasty`).
- *Frames*. `FramesServed` holds **until** a frame was accepted before it had arrived
  (`guessed`), which happens when the old cells behind the bytes happen to end it. Frames
  that arrive together are all served, one a round. The buffer overflows only when more
  bytes wait than it holds; what then happens behind the array is not followed.
  `StraysExplained`: a request nobody made comes from a frame looked at too early or
  of an unknown type.
- *The stream*. `PacketsWhole` holds but for one case: behind a packet more than one byte
  longer than the buffer the client reads in the middle of it (`astray`), since it drains
  one byte too few. `SentWhole`: after a write that was continued beyond the end of the
  packet the connection ends, and nothing follows but a PUBACK, whose failure nobody
  looks at.
- *The wires*. `NoFight` exempts the stop behind a refused first byte (that byte was
  acknowledged and the chip sends the next), and what is written behind 0x31, which
  asks the chip to send. Of such a code `TransferExact` says that its first byte comes across
  (`Taken`). It is about transfers in which the chip acknowledged everything, since the driver
  does not look.
- *Timers*. `LeftIsTrue`: preempted between its two reads for however long, `iotx_time_left`
  answers the true time, or, when the time ran out in between, a word above half the range
  (the wrap of a negative number) and not 0.
- *WiFi*. SmartConfig is started twice, which restarts the device, only when two
  tasks fall between test and set of `SMART_WIFI_WORKING` (`NoSecondStart`).

Each property has a mutant of a mapped definition (an operator whose comment begins
"Seeded bug") that its run refutes; they are listed in `PROJECT.json`, "mutants".

## 4. Fairness

- *IrEngine*: every task runs (FreeRTOS schedules ready tasks). The loop `while
  (!IRDA_BUSY_S())` polls far faster than the chip can be armed again, hence strong
  fairness of `BusyReleased`. `IrSignal`: somebody presses the remote; without it a
  learn request holds the engine for ever, there is no time limit.
- *MqttConn*: vTaskMQTT runs, the 5 ms of `IOT_MQTT_Yield` end (strong fairness of
  leaving its loop), timers expire, the broker answers on a live link, WiFi returns.
  Nothing is assumed of connects, which fail only by a counted fault. `PingTimer`
  assumes that a round trip is short against the keepalive interval.
- *MqttPub*: the client's loop runs, reconnecting and noticing a loss are what Conn
  shows, the broker reads, time passes.
- *TcpServer*: the server loop runs; requests need not end, peers need not send or
  close. *TcpFrames*: the same.
- *MqttStream*: every read and write returns, and what the broker sent arrives: a read
  with bytes to come returns some in the end (`ReadHeader(1)`).
- *TwoWire*, *MqttSubs*, *UtilsTimer*: safety only.
- *WifiLink*: tasks, handler and driver run; a join that may succeed again and again
  does, and a phone is there for SmartConfig. The access point need not return:
  `SmartConfigEnds` has that as its premise.

## 5. Proofs

tlapm checks every proof; constants are arbitrary within the named assumption of the
module (`IrAssumption`: the kinds of tasks are disjoint, at least one try;
`MqttConnAssumption`; `MqttSubsAssumption`: handlers are not NULL, table and list have room for
one; `TcpFramesAssumption`: lengths and cells are bytes, a frame fits into the array;
`TcpServerAssumption`: connections are numbered, there is at least one element;
`MqttStreamAssumption`: a base of at least two, lengths that have no more digits than are
allowed, a buffer with room for a header; `TwoWireAssumption`: codes are sequences of bytes;
`UtilsTimerAssumption`: delays up to half the word, timers asked less than half the word after
their expiry). A theorem with a further premise states it, and it is named below.

**IrProofs**, about IrEngine. For any number of tasks of each kind, any codes and any number of
tries:

- `TypeCorrect`: `Base` = types, which labels belong to learners and senders
  (`ControlOK`), and a learner that may try again has a try left (`TriesLeft`); without
  the last, `fail_times` could leave its range.
- `NoOrphan`: by cases on the five actions that touch the bits: whoever sets a bit
  becomes its owner, and `Clear` by one of two owners takes the bit from both.
- `SenderShutsOut`: from `SendInv`: until a "take" slip, a sender inside has its bit set
  and is the only sender inside. Learners never clear SEND.
- `EngineExclusive`, `HeardIsReported`, `WholeReported`, `SentBytesStable`: from
  `Alone`: until a slip, at most one task is inside (`Exclusive`), it has its bit set
  while it owns the engine (`Owns`), and what it knows of buffer and capture is true
  (`BufferOK`). `MutualExclusion` itself is not inductive: it says nothing of a task
  between test and set, nor of the bit. `EntersAlone` and `NobodyInGap` connect a new
  entry with `slips`.

The same module proves about a transfer on the two wires, for any codes whatever they begin
with, any answers of the chip, acknowledged or not, and a read of any length, the 230 of the code
included:

- `WireInvariant`: where the driver is in its script decides what wires, chip and read bits
  are. `WireInv` says it call by call (`InWake`, `InStart`, `InWrite`, `InRead`, `InStop`,
  `InOpen`), and within a byte by bit and pin operation (`SendsBit`, `ReadsBit`): the chip holds the
  first bits of what is written, the driver the first bits of what the chip sends. `OnTrack`
  places the calls in the three transfers. `Straying` is what remains of that behind a first byte
  0x31: the chip sends, its bits and the driver's have nothing to do with each other, but the frame
  it took is that byte. `Lost` is what remains when both have driven SDA, which only an
  `Excused` transfer can meet. Two chips need no case of their own: one that does not listen is
  `ignore`, and one that does not answer reads as ones. The chip's late hold on SDA
  (`ChipDrives`) disturbs a step only where no delay has passed yet; `Still` says where one has.
  TLC checked `WireInv` on the instance of Wire before it was proved.
- `WireHasNoFight`: all but two of the places with a delay have SDA low, released by one
  side, or a chip that does not pull: a stop behind a first byte that readI2C2 refused, and
  what is written behind 0x31.
- `WireTransfersExactly`: the end of the script in `WireInv`, and that the value of the bits of a
  byte is the byte.

**MqttConnProofs.** For any bounds:

- `StateAndSocketAgree`, `EverySocketAccounted`: the invariant adds where in its loop the
  task can be without a handle (`ControlOK`): keepalive and cycle are reached only with one.
- `TypeCorrect`: from `Types`, by the variables they are about. The probes need
  more than their range: they exceed their maximum only in front of the check, in state
  CONNECTED, so no ping is counted on top of that.
- `ConnectedHasAsked`: `ConnectedAsks` is not inductive: its third case, the full list, ends when
  the list is cleaned. It does not because nothing in the list is answered then
  (`Unanswered`), since on a connection that has not asked only pings have been
  exchanged (`Silent`), and the first cycle after a reconnect cleans up what the old
  connection had answered before the device subscribes.
- `HealthyKept`: `HealthyLinkKept`, if at least one unanswered ping is tolerated (with
  `ProbeMax` = 0, which the code does not have, the first ping gives the connection up; its
  value is 3). A reconnect does not reset the count of pings, so the argument is not that the
  count is small, but that something which resets it is under way whenever it is not 0
  (`Counted`): the subscription still to be made, a packet to the broker, or one back. That a
  ping is due only when nothing is under way is the guard of `PingTimer`; the theorem rests
  on this assumption about time. Who has neither asked nor will ask has found the list full,
  by `ConnectedHasAsked`.

The same module proves about the timers the connection waits on. `TimerTracksClock` relates the
stored word, the clock, the true time elapsed and the time since the first of two reads; it is
inductive with the types, and `ExpiryTrue`, `SpentTrue` and `LeftTrue` follow from it for any width
of the clock, 2^32 included, and any preemption between the two reads.

And about the bytes on the connection, for packets, buffers and digits of any size and however
reads and writes are cut: `StreamTypeCorrect`, `PacketsStayWhole`, `SentStaysWhole`. The two
properties say nothing of a packet that is half read or half written, so the invariant
(`StreamInv`) has four parts beside the types, each checked by TLC before it was proved:

- `Control`: where the client can be in each state, and what it may be sending there.
- `Reader`: at each stage (`AtTop`, `AtLength`, `InBody`, `AtHandle`) what was read of the current
  packet and what is still to come are together what the broker sent. Inside the length
  field, the value so far and `multiplier` times a rest are the length, and the digits of that
  rest are those to come; so the number decoded is the one encoded, whatever the base.
- `Past`: what was handled is what was sent, place by place, and the client reads `astray` only
  behind a packet of more than a byte too much.
- `Writer`: as long as nothing was written in part, what went out is the packets reported as
  sent, one behind the other, and the written part of the one under way. Once a request or
  report was, the client is no longer connected and can write nothing but a PUBACK.

**MqttSubsProofs.** For any subscriptions, sizes, packets in flight and faults. `Inv` has the types and

- `Flight`: every packet about a request, asked or answered, has its node in the list, still
  NORMAL and about the same filter; no request is under way twice, nor both asked and answered.
  So an answer always finds the node it is about, across reconnects and reused ids.
- `Table`: the table holds granted entries, each once, and all of them until it is full.

`SubscriptionsAreHandled` adds `Handled`: a filter the broker has is in the table, or its SUBACK is
under way, or the table is full. `CommandsAreHandedOnce` counts the slots that were called; that a
full table is enough while no more entries were granted than it holds is an argument about
cardinalities (`FullHoldsAll`). It has the premise `MatchingAgrees`: on the topics of commands the
matching loop agrees with MQTT. What a recursive matching computes for every string would be
induction over data; the run Subs checks the premise's instances, as part of `HandedOnce`.

**ListsProofs.** `KeptNodes`: what `Kept` returns holds the nodes at the kept positions and
no others, is not longer than the list, and as long if all are kept; by the least
position for which it fails (`Least`). `KeptInOrder`: the nodes that are left keep their order.
`JoinedAppend` and `JoinedHead` say how sequences joined one behind the other are extended and
taken apart again, which the proofs about the two streams of bytes need: the library's
induction theorems cannot be cited, so these use the least number for which they fail.

**MqttPubProofs.** For any constants `TypeCorrect` and `CutIsAfterLoss`. The second rests on
`FirstFirst`: a report that waits has been read whole, has lost its first copy, or has it on the
way; a copy out of the list under way has one of these behind it, or its first copy in front. `AcksTrue`
and `PromiseKept` hold under `NoWrap`: no more reports than packet ids. Their invariant is
`Tracked`: over the nodes and the packets under way an id stands for one report, ids and reports
are not larger than the counters, what was sent is still owed or has arrived, and what is
acknowledged has arrived. Most steps are `Harmless` (nothing new but copies of what is
owed, forgotten only what has arrived); a report, a restart and a delivery are not, and have lemmas
of their own. `EveryStep` shows for each step that it keeps `Tracked` and is one of AtLeastOnce's
steps or a stutter: a report is Accept, the broker's reading Deliver, a PUBACK Confirm, a
restart Restart (`RestartStep`).

**TcpServerProofs.** For any number of connections, slots, elements and frames. The invariants build
on each other, and each was an invariant of a TLC run on the instance of Tcp before it was proved:

- `EachInOnePlace`: the accepted connections are those in `fds`, the waiting ones those in the
  backlog, each once. It is inductive by itself, a close in the middle of a round and a restart
  included (`FdsServed`).
- `Typed` adds the types, and that the elements from the first on are a chain without repetition,
  short of all elements by `lost` (`Linked`). `SwapCuts` is the heart: a swap of slots a < b takes
  the elements behind a, up to b, off the chain; the slots up to a keep theirs, those behind
  get the one b - a places on. `SocketsAreServed` and `SlotsKeepOwn` follow.
- `InOrder` adds, until bytes are mixed up, where the frames of a connection are: its requests
  are made of its first ones, its slot's element, if it has one (`Held`), holds the next, its socket
  the last, without a gap (`PeerInOrder`, `SlotInOrder`), and an element no slot has (`Unused`) is
  empty. A close that moves clients to other elements keeps this only because until `mixed` the
  elements they leave are empty. `FramesTakenInOrder` follows.
- `Answering` adds what select found (`ReadyRight`: still true of the slots the round has not
  visited) and, until a peer leaves too early, where each answer is: asked for, waiting in an
  element, or delivered, in one of these only and with its client (`OwnIn`, over `Homes`, which
  element serves which client, `OneEach`), with nothing owed to a peer that closed (`Quiet`), so that
  a close leaves nothing to its successor. `AnswersGoHome` follows.

**TcpFramesProofs.** For an array of any size with room for an empty frame, any frames, stale
bytes, connections:

- The buffer: `WriteAppends`: bytes that fit are put behind `Held`; `ClearDrops`: clearing takes the
  front off `Held`, although source and target of its memcpy may overlap.
- `FramesAreServed`, `StraysAreExplained`, `TypeCorrect`: from `Following` = types with reading at the
  front (`Typed`), an empty slot between two clients (`Between`), what was made and what is left of
  the client's frames (`Intact`), and `StraysExplained`. `FramesServed` alone is not inductive: it
  says nothing of a slot without a client, whose bytes the next one would get. `ArrivedIsFound` is
  the heart: when the first frame has arrived, the parser's reads return its parts, whatever is
  behind it, and clear leaves that. For a frame that has not, `ParseCut` shows that the round
  leaves everything as it was or a guess is noted.
- Frames joined one behind the other are taken apart again by the lemmas of ListsProofs.

**WifiLinkProofs.** For any set of SmartConfig tasks and queues of any length:

- `TypeCorrect`, from three parts by the variables they are about; `SetBitsEffect` says what
  `xEventGroupSetBits` does to the tasks that wait.
- `WorkingIsOwned`: `WorkingHasOwner` is inductive with the types: only a task that sets the
  bit becomes an owner, an owner ends only by clearing it, and a wake-up changes neither.
- `NoSecondStartSafe`: from `OneInside`: until two tasks slip between test and set, at most
  one is inside, an owner has its bit set (so the test keeps the others out), and the
  driver's SmartConfig runs only while a task is there that will stop it. The property
  itself says only that no task is about to abort.
- `FlagFollows`: from `QueueKnows`: the last event about the link, or the flag when there is
  none, says where the station is. `Arrives` and `Handled` are the two ends of the queue.

Only model-checked:

- all liveness (`RequestsEnd`, `Recovers`, `HandledOrEnded` and the others): fairness and ENABLED
  are out of the prover's reach;
- `MatchingAgrees`, as said above.

## 6. Where the code and its comments disagree

Run SubsDocUnsub: `mqtt_client.c` 884 announces the removal from the table of handlers;
nothing is removed, because the unsubscribe request carries no handler and entries are
compared with their handlers.

Two comments differ from the code without a run of their own. `mqtt_client.c` 1355 says
that nodes in timeout are removed from the list of subscribe requests; only INVALID ones
are, and with ten unanswered requests the device cannot subscribe again until it is
restarted (`Recovers` has the room in the list as its condition). `mqtt_client.c` 1681
describes waits of 2 s, 4 s, 8 s; the interval is doubled and twice of it is waited.

Some of what the models contain is not contradicted by any comment, but worth knowing to a
reader of the code: a report does not fit into its node (`mqtt_client.c` 397 copies more than
`MQTT_client.h` 192 has room for; MqttPub); `so_client_element_swap` does not swap but takes
elements off the list (`wifi.c` 491-506; TcpServer); a client's code that begins with 0x31 makes the
chip send against the driver (`main.c` 229, 473; TwoWire).

## 7. What is not modelled

- The packet codec (vendored), but for the length field; the contents of packets other
  than what MqttConn, MqttPub and MqttSubs tell apart.
- Memory: leaks of messages (the three paths of `task_tcpservice_ir_send`), arrays written
  behind their end. Where the code leaves TcpFrames' array, a behaviour ends and the property
  says what led there; what a report writes behind its node is a restart or a cut copy in
  MqttPub, and nothing else; the fifth TCP client (`wifi.c` 573) is beyond the instance.
- What a failed learning attempt does to the code learned before (`main.c` 510): it is
  overwritten on purpose; no doc says it is kept.
- The functions of the driver nobody calls (`writeI2C`, `hxdRwork`, `hxdSwork`, the reads of
  tables for other remotes); the timing of the two wires beyond the order of edges.
- Discovery, LED, start-up: no state that others rely on, or a sequence without
  interleaving. Keys: counting presses by sampling a pin has no partner to interleave
  with; what a count starts is in IrEngine and WifiLink. `savedata.c`, `mqtt_timer.c`: not
  called. cJSON: vendored.

## 8. Plan

Done, in this order: IrEngine, MqttConn, UtilsTimer, AtLeastOnce and MqttPub, TcpServer,
WifiLink, MqttSubs; RingBuffer with TcpFrames, MqttStream, TwoWire; Lists; the proofs of
section 5.

Next, proofs: that until a slip IrEngine implements an abstract lock.

Next, models: a composition of IrEngine with the MQTT task, to state what a learn command
costs the connection (keepalive stops while it waits for a remote); TwoWire as an
implementation of the beginning and end of a transfer in IrEngine.
