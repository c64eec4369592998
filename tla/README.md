# Cellar ventilation on an ESP8266: TLA+ models and proofs

This directory holds TLA+ modules for the firmware in `src/`: what its parts do,
model-checked with TLC on small instances, and proved with TLAPS for every value
of the constants where that is in reach. `PROJECT.json` lists the runs, the
mutants that show each property has teeth, the source lines of every definition,
the findings, the hazards and the theorems.

## 1. The system

Two DHT22 sensors, indoor and outdoor, are read every 5 s. After five readings
of either, the means are published over MQTT and the fan is switched, on relative
and absolute humidity and temperature. Four settings come back over MQTT. The
device runs on the non-OS SDK: one thread, in which timers, the callbacks of TCP
connections (espconn) and one task run one after the other, each to its end.
Concurrency is therefore the *order* of these handlers, and what the SDK does
between them.

| Component | Source | State | Operations | Hard about it | Makes it correct |
|---|---|---|---|---|---|
| Fan control | `user/user_main.c` | readings and means of two sensors, four settings, fan flag, relay pin | boot, 5 s tick, message received | messages between any two ticks; sensors that fail; restarts; two tests in sequence that see each other's effect; counts compared with `==` | no flapping, the relay rests between decisions, hysteresis kept over time, relay and reports agree, counts never pass their limit, forced mode, cold and damp air have their effect |
| Sensors | `driver/dht.c` | bits and bytes of a reading, counter and running means | one reading | pulses counted by polling while interrupts come; a sensor that stops; 39 or 40 bits; float means | an undisturbed reading is believed, a disturbed one is not; every reading ends |
| MQTT client | `mqtt/mqtt.c` | connection state, espconn, three countdowns, last packet type, the task's one-slot event queue | InitConnection, InitClient, Connect, Disconnect, Publish, Subscribe, task, 1 s timer, seven callbacks | every order of callbacks; reconnection from two places; an espconn freed under a live connection or a name lookup; a gate (`sendTimeout`) that opens without waking anyone; brokers that refuse | a wakeup, a timer or a callback is always on its way, unless a freed connection calls back late; nothing sent before the broker has answered |
| Wi-Fi supervision | `mqtt/wifi.c` | last status seen | poll, report | link down and up between polls; poll and client both reconnect | one connection as long as Wi-Fi is up |
| Message queue | `mqtt/queue.c`, `proto.c` | bytes in the ring | Init, Puts, Gets, IsEmpty | partial frames in a full ring; escaping; an uninitialised flag | a queue of whole packets, in order, giving up only the oldest |
| Ring buffer | `mqtt/ringbuf.c` | array, two pointers, count | Init, Put, Get | wraps; full and empty look alike | a bounded FIFO |
| Configuration | `modules/config.c` | two copies and a flag in flash, a copy in RAM | load, save | power failures between flash operations, upgrades | always one whole configuration selected |
| MQTT packets | `mqtt/mqtt_msg.c` | a buffer | build and take apart packets | lengths, identifiers, packets split over segments | build and parse are inverse |
| Address utilities | `mqtt/utils.c` | none | IsIPV4, StrToIP, Atoh | overflow | accept the right strings |
| GPIO | `user/ugpio.c` (and its copy in `modules/`) | registers | | none | |
| UART | `driver/uart.c` | registers, rx buffer | | pure I/O | |

How they interact:

    5 s timer -> read_DHT -> dht_read (twice) -> decision -> motorOn/motorOff -> relay
                     |                                           |
                     +----------> MQTT_Publish <-----------------+
                                      | QUEUE_Puts, post
    Wi-Fi poll -> wifiConnectCb       v
         |  MQTT_Connect/Disconnect  MQTT_Task -> QUEUE_Gets -> espconn_sent -> broker
         v                            ^                                          |
      MQTT client <-- 1 s mqtt_timer -+- posts of sent_cb, recv_cb, ... <--------+
         | CONNACK -> mqttConnectedCb -> MQTT_Subscribe
         + PUBLISH -> mqttDataCb -> the four settings

`hazards` in `PROJECT.json` lists, line by line, what can go wrong in this code
that a test would hardly reach, and the property that covers it.

## 2. Plan

1. `FanControl`: the device's purpose. **done**, theorems proved
2. `RingBuf` and its abstraction `BoundedFifo`. **done**, refinement proved
3. `MsgQueue` and its abstraction `PacketQueue`: framing over a ring. **done**,
   refinement proved
4. `ConfigStore` and its abstraction `AtomicConfig`: flash under power failure. **done**,
   refinement proved
5. `MqttClient`: client, poll and their callbacks. **done**, safety proved
6. `MqttMsg`: packets built and taken apart (`mqtt_msg.c`), against a decoder
   written from the standard. **done**, safety proved
7. `DhtRead`: a reading pulse by pulse (`dht.c`), with interrupts; `Dht`: its scaling,
   checksum and `calc_abs_h`, with its integer powers. **done**, theorems proved
8. `MqttSession`: what the client promises the program, the name lookup and its late
   answer added to `MqttClient`, which implements it. **done**, refinement proved
9. `Device`: `FanControl` and `MqttSession` composed with broker and server, from a
   reading to the broker, from a command to the relay, across outages and restarts.
   **done**, safety proved

Left: of the properties of the passing runs only those of liveness are not proved (section 5
says why).

## 3. The modules

| Module | Models | Corresponds to |
|---|---|---|
| `FanControl` | `user_main.c`, averaging of `dht.c` | `Tick` = `read_DHT` with its two `dht_read`, decision and relay; `mqttDataCb` = a setting; `init_done_cb` = restart |
| `BoundedFifo` / `RingBuf` | contract / `ringbuf.c` | `p_r`, `p_w`, `fill_cnt`, `buf` as in the code, pointers as offsets; refinement mapping `Contents` |
| `PacketQueue` / `MsgQueue` | contract / `proto.c`, `queue.c`, loop of `MQTT_Publish` | the ring as a sequence (justified by `RingBuf`), frames as byte sequences; each turn of the loop a step; mapping `Queued`: the frames that are complete. `ScanByte` is a turn of the loop of `PROTO_ParseRb`, `Scan` the loop |
| `AtomicConfig` / `ConfigStore` | contract / `config.c` | `pc` is the flash operation to come; mapping: the holder of the copy the flag selects |
| `MqttSession` / `MqttClient` | contract / `mqtt.c`, `wifi.c`, `wifiConnectCb` and `mqttConnectedCb` | one action per handler of the SDK; `posted` is the task's event queue; `orphans` are lookups and connections whose espconn was freed; `Boot` is a restart. Mapping `SessionSeen`: offline until the broker has accepted the session, and again when it refuses it (`Refuse`) |
| `MqttMsg` | `mqtt_msg.c`, the loop at `READPACKET` | one action per packet built (`Connect`, `Publish`, `Subscribe`, `Ping`), `Receive` = a segment arrives, `ReadPacket` = a turn of the loop; `Read` and `Wire` are the broker, written from the standard and not from the code |
| `Dht` | `scale_humidity`, `scale_temperature`, the checksum, `pow`, `calc_abs_h` | pure operators on integers |
| `DhtRead` | `dht_read` up to the checksum | the line is a sequence of 85 levels; `WaitForDrop`, `CountLevel`, `NoteEdge`, `Check` are the loops and tests of the code, `Interrupt` and `SensorStops` what the SDK and the sensor do meanwhile |
| `Device` | all of it, seen from the server | an action of `FanControl`, of `MqttSession` or of both at once; broker and server external; `Waiting` is where in the queue fan reports are |
| `MC...` | readings, payloads, packets and texts for TLC | |
| `*_proofs` | theorems about the module of that name | |

They fit together as follows. `RingBuf` shows that the ring is a sequence of bytes, on
which `MsgQueue` shows that they are a queue of whole packets that may give up its
oldest (with one exception, finding 2). `MqttClient` puts such a queue under the
connection and is shown to implement `MqttSession`, `Device` takes that contract
(`S!Accept`, `S!Deliver`, ...) together with `FanControl` (`F!read_DHT`, `F!mqttDataCb`,
`F!init_done_cb`): a tick of the sensors and the packets it puts in the queue are one
step, since the callback hands them over before it ends. `DhtRead` stands behind
the one step `dht_read` of `FanControl`, in which a reading is good or failed.

Definitions marked `Mutant:` are deliberately wrong versions of the operator that
follows. No module uses them; they document which plausible bug breaks which property.

### What the abstractions leave out

- Means are integers in units of 1/`Unit` instead of floats, exact because `Unit`
  is a multiple of every count in a run. `calc_abs_h` is a constant operator of `FanControl`;
  theorems hold for any such function with `AbsHumidity(0, 0) = 0`, the runs of
  `FanControl` use the code's (`Dht!calc_abs_h`), that of `Device`, at one temperature, the
  relative humidity.
- Bytes of packets are modelled in `MsgQueue` and `MqttMsg` only; elsewhere a packet is its type.
- `MqttMsg` builds what this program builds. The builders of PUBACK, PUBREC, PUBREL,
  PUBCOMP, UNSUBSCRIBE, PINGRESP and DISCONNECT are never called, nor is PUBLISH with QoS 1
  and no data. (`mqtt_get_id` would return 0 for the latter.) The broker sends whole packets.
- In `MqttClient` packets from the broker arrive in segments of one or two
  packets, not split. The host is a name or an address (`HostIsName`), decided once
  by `UTILS_StrToIP` on a fixed string. TLS is compiled out, as shipped. The one
  subscription is for QoS 0, so no packet has to be answered. A lookup and a connection
  attempt end in a callback (the code ignores an immediate failure of either). `espconn_sent` takes
  a packet on an open connection that has nothing else under way: the SDK running out of memory is
  left out. The statuses of the Wi-Fi other than "got an address" are one, `"down"`. They differ in
  what is printed and in asking the SDK to connect again; and a change between two of them makes
  the poll call `MQTT_Disconnect` once more, which may come at any poll while the link is down.
- A broker may refuse a session. The CONNACK that says so is one packet (`REFUSAL`) for all the
  return codes, which the client does not look at; the broker then closes the connection.
- In `DhtRead` time is the number of polls of a level, the same for every low; the levels an
  interrupt takes away are chosen freely. Folding the reading into the means is in `FanControl`.
- In `Device` the thresholds keep their defaults (messages that move them are in
  `FanControl`), and the broker never loses what it has retained.
- The configuration's contents are one value per firmware version: at run time
  nothing changes the stored configuration. In particular the four settings are
  *not* stored; a restart goes back to the defaults (`user_main.c:255-259`).

## 4. The runs

| Run | States | Shows |
|---|---|---|
| `fan_control` | 25 736 | no decision closes and opens the relay (`NoRelayFlap`), and it is then left alone for `DHT_COUNTER` ticks, however the failures of the sensors let their counts drift apart (`RelayRests`); relay, flag and last report agree; hysteresis holds from start to stop (`HysteresisKept`); no decision leaves the fan running in cold or dry air (`DecisionSafe`); forced mode, cold, damp air have their effect (`ForcedFanStarts`, `ColdFanStops`, `DampFanRuns`) |
| `fan_control_outdoor` | violation | finding 1 |
| `ring_buf` | 3 241 | pointers and count agree; the ring implements `BoundedFifo` |
| `msg_queue` | 12 900 | the uninitialised `isBegin` is harmless; a ring that is not empty holds a packet; the bytes implement `PacketQueue`; the loop that makes room ends |
| `msg_queue_wipe` | violation | finding 2 |
| `config_store` | 717 | the selected copy is never torn; the program runs on its own configuration and finds it again; a settled device never erases; update and power failure together are atomic (`AtomicConfig`) |
| `mqtt_msg` | 152 592 | what is built says to the broker, and to the task that reads type and id from the bytes, what it was to say, on both sides of 127 bytes and of the buffer's end (`PacketsReadBack`); ids are never 0 and do not repeat across wrap and reconnection (`IdsFresh`); all settings of one segment reach `dataCb` with topic, data and both lengths (`SettingsTakenApart`) |
| `mqtt_client` | 974 819 | with late callbacks of freed lookups and connections, refusals and restarts: the task is posted whenever it alone can go on (`NoLostWakeup`); a waiting packet has a wakeup to come (`NoStall`); an outage of the Wi-Fi costs one packet, and one more for each late callback that opens the gate (`OneLostPerOpening`); nothing takes from the client the connection, or the state and the timer from which it makes the next, but the connect callback of a connection it has freed (`OnlyLateConnectStrands`) |
| `mqtt_client_live` | 50 240 | without those callbacks: no packet is sent on a connection before the broker has answered (`NothingBeforeConnack`), SUBSCRIBE waits until sent or lost; once faults end, refusals among them, connected and subscribed for good; the client implements `MqttSession`, and its promises that something happens (`SessionGoesOn`) |
| `mqtt_client_settings` | violation | finding 3 |
| `dht_read` | 57 896 | an undisturbed reading is decoded and believed (`CleanReadingAccepted`); one that an interrupt shortened, or that a sensor broke off, is never believed wrongly unless the interrupt took a whole level away (`BelievedIsSent`); every reading ends |
| `device` | 91 660 | the reports that reach the broker or wait for it end with the state of the fan, unless the last was given up or the device restarted (`ServerFollowsFan`); with nothing on its way the device is under the server's last command (`DeviceFollowsServer`); a command to run is obeyed for good and the server hears of it (`CommandObeyed`, `FanReported`) |

### Bounds, and why they are enough

- `FanControl`: `DHT_COUNTER = 2` (5 in the code) already has incomplete, complete and
  mixed counts. Readings cold and damp, warm and damp, warm and dry, with a mean of
  any two on either side of each threshold. Payloads are one percentage refused
  (and, as a temperature, accepted) and one accepted, so that the settings differ
  from their defaults in every combination; as a hysteresis, 60 brings the lower
  threshold far down, or to 0 when it is the threshold too. The theorems cover
  every other count, reading and payload.
- `RingBuf`: size 4 and three bytes: every position of both pointers at every fill.
- `MsgQueue`: a ring of 12 bytes holds at most four frames; packets of 1 to 4 bytes
  have frames of 3 to 7 and contain plain bytes, each of the marks, and the codes the
  marks are escaped to. Partial frames of every length occur.
- `MqttMsg`: a buffer of 140 bytes (1024 in the code). Bodies end at, before and behind
  127 bytes, where the header grows, and at both sides of what fits. `message_id` starts at
  0, 254 (the low byte wraps) and 65534 (the counter wraps), and two ids are given out.
  Segments of up to two settings, a third packet behind them, shorter and longer than the buffer.
- `ConfigStore`: three versions, so that old, current and next differ. Any number of
  power failures and upgrades.
- `MqttClient`: queue of 2 (full, one, empty), `KEEPALIVE` and `SEND_TIMEOUT` 2 (a count that has
  started but not run out), `RECONNECT_TIMEOUT` 1, three faults (lookups that fail, losses of link
  or connection, sessions refused, restarts: a second while the first is being repaired), at most
  `MaxUnsent` = 2 sends under way. The ratio of `KEEPALIVE` to `SEND_TIMEOUT` is not that of the
  code (120 and 25): the model lets them meet in every order. The host is a name in two runs, an
  address, as shipped, in the third. The safety theorems hold for any values.
- `DhtRead`: four readings with bytes of ones, of zeros and mixed, carries between bytes, frost
  and the other type of sensor; an interrupt takes up to two levels (a whole pulse with its
  gap) at any place. One interrupt or failure in a reading: with two, two wrong bits may cancel
  out in the sum of bytes, which is all the checksum there is. The theorems cover every
  reading and pulse width, `FrameFits` any number of interrupts.
- `Device`: queue of 3, so that one decision's readings, its report and the SUBSCRIBE do not fit
  together; two faults (sessions lost or refused, restarts), two commands (one overriding the
  other before, in or between sessions). `DHT_COUNTER` is 1: counts are the subject of
  `FanControl`. One damp and one dry reading.

`CHECK_DEADLOCK` is on in every run but one: in `dht_read` the function returns.

### Fairness

- `FanControl`: weak fairness of a tick on which the indoor sensor answers. The timer
  is periodic and never disarmed; a sensor that never answers again is a hazard without
  a remedy in the code (hazard at `user_main.c:104`).
- `MsgQueue`: weak fairness of the loop of `MQTT_Publish`; a callback that runs is run on.
- `MqttClient` (`Fairness`): weak fairness of the poll, the task, the one-second timer, the link
  coming back, lookups, connection attempts and sends being reported (`NameFound`, `TcpOpened`,
  `TcpSent`), and of the broker answering CONNECT and SUBSCRIBE and closing a connection it has
  refused, as the standard asks of it (the client does not close it). Nothing makes the sensors
  publish. Strong fairness of a send by the task, because in the small model a ping may close the
  gate between every post and the task, while in the device the task runs milliseconds after its
  post and a ping goes out every 120 s. Losses of link and connection are bounded by `MaxFaults`,
  so the liveness properties say what happens once they and the refusals cease. The client has no
  timeout for a CONNACK, which the fairness of the broker covers up; this is listed as a hazard.
- `MqttSession`: what `MqttClient` was shown to keep (`SessionGoesOn`), so that `Device`
  assumes of its client nothing but that: weak fairness of `Accept`, of serving the queue and of
  the answer to SUBSCRIBE.
- `Device`: besides, ticks on which the indoor sensor answers, and the arrival of what the broker
  sends on a connection that lasts.
- `DhtRead`: weak fairness of the program: interrupts return, and there are finitely many.

## 5. The theorems

All are checked by TLAPS, from the assumptions on the constants stated in the modules.

- **FanControl_proofs.** `IInv` is types, `CountersBelowLimit`, `CountsSinceSwitched`,
  `ThresholdsApart`, `ReportsAgree`, `StartedDamp` and `NoRelayFlap` together. `NoRelayFlap` alone
  is not inductive: that a start is not followed by a stop needs the thresholds apart, which every
  message keeps (`Percent`). The counters need the reset of both sensors on any complete decision,
  and so does `RelayRests`: no sensor has counted more readings than there were ticks since the
  relay was switched (`CountsSinceSwitched`), so that a decision, which needs a full count, comes
  no earlier. `HysteresisKept` is an action property: a stop means cold, or a mean at or below
  threshold less hysteresis, and `StartedDamp` (of the proof alone) says that the start was above
  that threshold, if no message has moved it since.
- **RingBuf_proofs.** `PointersAgree` is inductive with the types; the refinement to
  `BoundedFifo` maps the ring to the sequence that starts at the read pointer. `Put`
  appends and `Get` takes the head by arithmetic modulo the size.
- **ConfigStore_proofs.** `SelectedNeverTorn` needs to know where each step of a save has
  got to (`SaveInv`: the target is not the selected sector while it is rewritten, and
  holds the new copy while the flag is), and `SettledNeverRewrites` that a settled device
  finds its version at every boot (`SettledInv`). The refinement follows: only the change
  of the flag is a step of `AtomicConfig`.
- **MqttClient_proofs.** The first group holds whether or not freed connections call back.
  `NoLostWakeup` and `ConnectPending` are inductive with few facts. (`ConnectPending`, that the
  "Invalid packet" branch is dead, is proved and in no run.) `OnlyLateConnectStrands` follows from
  `TryingStep`: every step but `OrphanOpened` keeps `Trying`, since every handler that ends a
  connection goes to a state from which the timer makes a new one. `NoStall` needs `GateHasSend`,
  that a closed gate on an open connection means a send under way, whose callback both opens the
  gate and posts. `OneLostPerOpening` needs `OutageInv`: a packet lost to no connection leaves the
  gate closed, and the timer that would open it stopped.
  The second group assumes that freed connections stay silent (`~OrphansCallBack`), and fails
  otherwise: `NothingBeforeConnack` (via `Accepted`: in `MQTT_DATA`, on an open connection, the
  broker has answered), `SubscribeWaits` and the refinement to `MqttSession` (via `OneSession`:
  the broker has a session only on the open connection, and one it has not answered only while the
  client waits for that).
- **DhtRead_proofs.** `FrameFits`: the index of the levels noted never passes the levels of the
  line that have gone by (`IInv`), so that 40 bits is the most a reading can store, whatever
  interrupts do. `CleanReadingAccepted` needs the program and the line in step (`InStep`) and
  the bytes so far equal to the leading bits of those sent (`Decoded`, `OneBitMore`); a
  byte shifted in eight times is the byte sent (`AllDecoded`). `BelievedIsSent` is proved for one
  interrupt or failure (`MaxFaults <= 1`; with two, wrong bits may cancel out in the sum). Its
  invariant `OneFault` follows what the fault can still do: nothing stored yet can be wrong
  (`Unspoilt`); or a bit was stored since, behind a high, so that whatever the interrupt took is
  over with the low that follows and only the byte of that bit may be wrong (`OneByteOff`,
  `WholeFromHere`); or the sensor has stopped and no bit comes but the one just counted (`Stopped`).
  One wrong byte changes the sum, or is the sum itself; and with 39 bits, which
  the code accepts, the bit that lacks is one of the sum.
- **MsgQueue_proofs.** `IInv`: the ring holds bytes and is never overfull; a byte at the start
  of the ring or behind an end mark is a begin mark (`FramesStart`), whatever partial frames
  are in between; between callbacks the last byte is an end mark (`FramesEnd`); what is complete
  are packets (`WholePackets`). `FramesStart` is why the uninitialised `isBegin` is harmless: the
  first byte read sets what it would have told. `FramesEnd` is why a ring that is not empty
  holds a packet: `QUEUE_Puts` ends the loop with a whole frame, or starts it with a partial one.
  The refinement rests on three facts about the parser. A whole frame behind any ring, partial
  frames at its end included, adds its packet to `Queued` (escaping is undone byte by byte); a
  partial one adds nothing; and `PROTO_ParseRb` takes the head of `Queued` (`Takes`), or finds it
  empty and empties the ring (`Empties`).
- **MqttMsg_proofs.** `IdsFresh` follows from `IdsGoRound`: two ids lie as far apart as the turns
  between them, or that less 65535; hence the hypothesis `MaxIds <= UINT16_MAX`, beyond which ids
  must come again. `SettingsTakenApart` speaks of the end of a segment, and `SegmentInv` of every
  turn of the loop before: what is left of it is the settings that have not been delivered, in
  order, with the answer behind. A turn then finds topic, data and lengths of the first of them at
  the places the code looks, under a header of two bytes or of three, and moves up exactly the
  rest. In `TypeOK` the lengths of what was delivered come from `SegmentInv`: the code subtracts,
  and what it subtracts from is long enough. For `PacketsReadBack` the packet is followed from the
  builder to the broker part by part (`Headed`, `Begins`, `BeginsWord`: what the buffer begins
  with, and what is behind it). It has two hypotheses. `ShortTopics`: a SUBSCRIBE's length fits in
  one byte, without which `mqtt_get_id` gives 0 (`mqtt_msg.c:276-282`); the program's one
  subscription is `cellar/<device_id>/+` (`user_main.c:166`). `PlainWills`: a client without the
  topic of a last will has no other part of one; `MQTT_InitClient` clears them all (`mqtt.c:510`)
  and `MQTT_InitLWT` sets them together.
- **Device_proofs.** `DeviceFollowsServer` says what holds once nothing is under way; the
  invariant says what is under way: the inbox is commands only (`Words`), empty while nobody is
  subscribed (`Unspoken`, `Carried`), ends with the command the broker keeps (`LastIsCommand`),
  and a session that waits for its SUBACK has that command on its way to it (`Resent`). The last
  is what sets a device right again after a restart or a lost session. `ServerFollowsFan` needs
  the two cases it distinguishes apart (`RInv`): the last report that waits is the state of the
  fan; with none waiting the one retained is, unless the last was lost; and a lost report leaves
  none waiting, since the queue gives up its oldest and the last report is the youngest.
  `DeviceRunsFanControl`: every behaviour of the device is one of `FanControl`, so that what
  FanControl_proofs says of that module, under its assumptions on readings and counts, holds of
  the device.

All safety properties of the passing runs are theorems, the type invariants of `MsgQueue` and
`MqttMsg` among them. Those of `FanControl`, `RingBuf`,
`ConfigStore`, `MqttClient` and `DhtRead` are part of the invariants proved and are not
repeated in runs; nor is `ThresholdsApart`.

Folds (`Scan`, `Escaped` over a packet, `AfterPublishing`) are over sequences of any length, so
the proofs above need induction, which they take from the well-foundedness of `<` on the natural
numbers (`NatInd`, `SeqInd`): a set of numbers with 0 that is closed under + 1 has them
all, for otherwise it would leave out a least one. The statement proved by induction is
a set (of the numbers, or of the sequences, of which it holds), not an operator.

The assumptions on constants are those of the code: packets published fit the ring
(`MsgQueue`; the program's are far below `QUEUE_BUFFER_SIZE`), texts are bytes and topics are not
empty (`TextAssumption`), and a setting needs two length bytes at most (`SettingAssumption`; a
longer one, of 16 KB, comes in no TCP segment and fits no buffer).

### Model-checked only

- Liveness (`PublishEnds`, `SessionGoesOn`, `EventuallySubscribed`, `CommandObeyed`, ...): out of
  the prover's reach, with the fairness it rests on.
- The violations, which are counterexamples.

## 6. Findings

1. `user_main.c:108`: a decision is taken as soon as one sensor has its readings. If the
   outdoor sensor has never answered, its absolute humidity is the 0 that static
   memory starts with, the driest air there is, and the fan starts. `README.md:43` says that
   measurements of both sides are averaged for the decision.
2. `mqtt.c:397-403`: a packet that does not fit leaves the part already written in the
   ring. The loop then drops packets one by one, and when only partial frames are left
   it empties the ring and gives up: the queue and the new packet are gone, although the
   packet would now fit.
3. `mqtt.c:222`: packets behind a SUBACK, PUBACK or PINGRESP in the same TCP segment are not
   looked at. Retained settings, which brokers send right behind the SUBACK, may be lost.

Noticed on the way, without a run:

- The comment at `user_main.c:257` speaks of a switch-off at 88 % (90 - 2), while the delta
  set is 1; the comment at line 259 calls the forced switch-on unconditional, while it waits for
  the next complete count of readings.
- `dht.c:156` accepts 39 bits and more, while the message at line 188 asks for 40.
- `pow` of `dht.c:26` counts an integer up to a fractional exponent, so that `calc_abs_h` jumps at
  0, about 14.6 and about 31 degrees.
- After a restart the relay is off and the settings are back at their defaults, while the
  broker goes on showing the retained "on" of before (`README.md:47` of the repository) until
  the next time the fan is switched.
- A fan report waits in the same queue as the readings and is given up for them when an outage
  is long enough; nothing repeats it (`reportLost` in `Device`).
- The return code of a CONNACK is never read (`mqtt.c:138-151`). A client the broker refuses takes
  itself for connected, subscribes and sends its queue into the refused connection until the broker
  closes it.
- The connect callback of a connection that was freed before it was made puts the client in
  `MQTT_CONNECT_SENDING` (`mqtt.c:326-354`). If its own connection is over by then, neither the
  timer nor the task leaves that state (`mqtt.c:264-304, 440-447`): it stays until the Wi-Fi
  changes. `OnlyLateConnectStrands` says that nothing else can do this.
- The results of `espconn_gethostbyname` and `espconn_connect` are ignored (`mqtt.c:594`).

## 7. Not modelled

- UART and GPIO: pure I/O on registers, with no state the program reads back; the relay pin is a
  variable of `FanControl`. The build files.
- `utils.c`: `UTILS_IsIPV4` and `UTILS_Atoh` are never called, and `UTILS_StrToIP` is called on one
  fixed string; its result is the constant `HostIsName`.
- TLS (compiled out) and the answers to QoS 1 and 2 packets (never asked for by a subscription
  for QoS 0): the branches exist in `mqtt.c` and cannot be entered as shipped.
- Packets split over TCP segments, which the client does not put together.
- Flash operations that fail without a loss of power, an `espconn_connect` or a lookup that fails
  at once, a sensor that fails for good: hazards for which the code has no handling, so
  that there is nothing to state.
