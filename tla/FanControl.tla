----------------------------- MODULE FanControl -----------------------------
(***************************************************************************)
(* The application layer of the firmware: user/user_main.c together with   *)
(* the averaging that driver/dht.c does for it.                            *)
(*                                                                         *)
(* The SDK is not preemptive: the 5 s timer callback (read_DHT) and the    *)
(* callback for a received MQTT message (mqttDataCb) each run to           *)
(* completion, so each is one action.  A power cycle or a watchdog reset   *)
(* may come between any two of them and runs init_done_cb again (Reboot).  *)
(*                                                                         *)
(* What is abstracted:                                                     *)
(*  - a sensor average is an integer number of 1/Unit degrees or percent;  *)
(*    Unit is a multiple of 1 .. DHT_COUNTER, so that the running mean the *)
(*    code keeps in a float is exact;                                      *)
(*  - calc_abs_h is the constant operator AbsHumidity; humidity_a, which   *)
(*    dht_read sets whenever it sets the means, is not kept but computed   *)
(*    from them (before the first reading all three are 0);                *)
(*  - MQTT_Publish is the list of messages handed to it (published, then   *)
(*    reports); what becomes of them is the subject of MsgQueue and        *)
(*    MqttClient;                                                          *)
(*  - motorHours is left out: it is written and never read.                *)
(***************************************************************************)
EXTENDS Integers, Sequences

CONSTANTS
    DHT_COUNTER,        \* readings averaged before a decision is taken
    Unit,               \* resolution of the averages
    Readings,           \* what dht_read can decode: whole degrees and percent
    Payloads,           \* what atoi can make of the payload of a setting
    AbsHumidity(_, _)   \* absolute humidity of a temperature and a humidity

ASSUME CounterAssumption == DHT_COUNTER \in 1 .. 255     \* counter is a uint8
ASSUME UnitAssumption == Unit \in Nat \ {0}
ASSUME ReadingsAssumption == Readings \subseteq [t : Int, h : Int]
ASSUME AbsHumidityAssumption == AbsHumidity(0, 0) = 0     \* as before a reading
ASSUME PayloadsAssumption == Payloads \subseteq Int

Sensors == {"indoor", "outdoor"}    \* dht_sensors[], by SENSOR_INDEX_*
Failed == [error |-> "dht"]          \* no start pulse, too few bits, checksum

FanReports == {"on", "off"}         \* the payloads of motorOn and motorOff

VARIABLES
    sensors,        \* dht_sensors[]: counter and running means
    MAX_HUMIDITY,   \* the four settings
    DELTA_HUMIDITY,
    MIN_TEMP,
    MOTOR_ON,
    motorIsOn,      \* what the program believes of the fan
    pin,            \* level of MOTOR_PIN, the relay itself
    published,      \* readings the last handler gave to MQTT_Publish, and
    reports,        \* after them the fan reports it gave to it, in order
    lastReport,     \* history: last fan state published since the boot
    rested,         \* history: ticks since the fan was last switched or the
                    \* device started, up to DHT_COUNTER - 1
    startHumidity   \* history: indoor mean at the last automatic start, 0 if
                    \* the fan is off, was forced on, or a threshold moved

settings == <<MAX_HUMIDITY, DELTA_HUMIDITY, MIN_TEMP, MOTOR_ON>>
fan == <<motorIsOn, pin, lastReport>>
vars == <<sensors, settings, fan, published, reports, rested, startHumidity>>

-----------------------------------------------------------------------------
(* Boot.  RAM is cleared, then init_done_cb gives the settings their        *)
(* defaults: nothing a message has set is kept.                             *)

Unread == [counter |-> 0, temperature |-> 0, humidity |-> 0]

DefaultMax == 90
DefaultDelta == 1
DefaultMin == 1

Init ==
    /\ sensors = [s \in Sensors |-> Unread]
    /\ MAX_HUMIDITY = DefaultMax
    /\ DELTA_HUMIDITY = DefaultDelta
    /\ MIN_TEMP = DefaultMin
    /\ MOTOR_ON = FALSE
    /\ motorIsOn = FALSE
    /\ pin = 0
    /\ published = <<>>
    /\ reports = <<>>
    /\ lastReport = "none"
    /\ rested = 0
    /\ startHumidity = 0

init_done_cb ==
    /\ sensors' = [s \in Sensors |-> Unread]
    /\ MAX_HUMIDITY' = DefaultMax
    /\ DELTA_HUMIDITY' = DefaultDelta
    /\ MIN_TEMP' = DefaultMin
    /\ MOTOR_ON' = FALSE
    /\ motorIsOn' = FALSE
    /\ pin' = 0
    /\ published' = <<>>
    /\ reports' = <<>>
    /\ lastReport' = "none"
    /\ rested' = 0
    /\ startHumidity' = 0

-----------------------------------------------------------------------------
(* Reading the sensors.                                                     *)

\* The running mean after one more value, the count being that before it.
Average(mean, count, value) == (mean * count + value * Unit) \div (count + 1)

\* dht_read: a failed reading leaves the sensor as it was; a good one is
\* folded into the means.
dht_read(sensor, r) ==
    IF r \notin Readings
    THEN sensor
    ELSE [counter |-> sensor.counter + 1,
          temperature |-> Average(sensor.temperature, sensor.counter, r.t),
          humidity |-> Average(sensor.humidity, sensor.counter, r.h)]

-----------------------------------------------------------------------------
(* The decision, on the means of the two sensors.                           *)

DataMsg(s, ss) == [topic |-> s, cnt |-> ss[s].counter]

\* Mutant: both sensors have to complete their count.
CompleteBoth(ss) == \A s \in Sensors : ss[s].counter = DHT_COUNTER

\* Whichever sensor completes its count first triggers the decision.
Complete(ss) == \E s \in Sensors : ss[s].counter = DHT_COUNTER

\* The guard of the automatic switch-on, the fan being off.
Damp(ss) ==
    /\ ss["indoor"].humidity > MAX_HUMIDITY * Unit
    /\ AbsHumidity(ss["outdoor"].temperature, ss["outdoor"].humidity)
       <= AbsHumidity(ss["indoor"].temperature, ss["indoor"].humidity)
    /\ ss["indoor"].temperature > MIN_TEMP * Unit

Cold(ss) == ss["indoor"].temperature <= MIN_TEMP * Unit

\* Mutant: the hysteresis is forgotten.
DryWithoutDelta(ss) == ss["indoor"].humidity <= MAX_HUMIDITY * Unit

Dry(ss) == ss["indoor"].humidity <= (MAX_HUMIDITY - DELTA_HUMIDITY) * Unit

\* Mutant: the fan stops only when the air is both dry and cold.
DecisionDryAndCold(ss) ==
    IF MOTOR_ON
    THEN IF motorIsOn THEN <<>> ELSE <<"on">>
    ELSE IF motorIsOn /\ Dry(ss) /\ Cold(ss) THEN <<"off">>
    ELSE IF ~motorIsOn /\ Damp(ss) THEN <<"on">> ELSE <<>>

\* Mutant: the test of the flag before a start is the wrong way round.
DecisionWrongFlag(ss) ==
    IF MOTOR_ON
    THEN IF motorIsOn THEN <<"on">> ELSE <<>>
    ELSE IF motorIsOn /\ Damp(ss) THEN <<"on">>
    ELSE IF motorIsOn /\ (Dry(ss) \/ Cold(ss)) THEN <<"off">> ELSE <<>>

\* The fan calls of one decision in order: the two tests of the automatic
\* mode follow each other, the second seeing what the first did.
Decision(ss) ==
    IF MOTOR_ON
    THEN IF motorIsOn THEN <<>> ELSE <<"on">>
    ELSE LET starts == ~motorIsOn /\ Damp(ss)
             stops == (motorIsOn \/ starts) /\ (Dry(ss) \/ Cold(ss))
         IN  (IF starts THEN <<"on">> ELSE <<>>)
             \o (IF stops THEN <<"off">> ELSE <<>>)

\* Mutant: motorOff leaves the relay closed.
DriveRelayStuck(calls) ==
    IF calls = <<>>
    THEN UNCHANGED fan
    ELSE /\ lastReport' = calls[Len(calls)]
         /\ motorIsOn' = (calls[Len(calls)] = "on")
         /\ pin' = IF calls[Len(calls)] = "on" THEN 1 ELSE pin

\* motorOn and motorOff, called in the order of calls: relay, flag and
\* confirmation always go together.
Drive(calls) ==
    IF calls = <<>>
    THEN UNCHANGED fan
    ELSE LET final == calls[Len(calls)]
         IN  /\ lastReport' = final
             /\ motorIsOn' = (final = "on")
             /\ pin' = IF final = "on" THEN 1 ELSE 0

\* Mutant: only the sensor whose count is complete begins a new one.
RecountedIfComplete(ss) ==
    [s \in Sensors |-> IF ss[s].counter = DHT_COUNTER
                       THEN [ss[s] EXCEPT !.counter = 0] ELSE ss[s]]

\* A decision makes both sensors count from the beginning; the means stay.
Recounted(ss) == [s \in Sensors |-> [ss[s] EXCEPT !.counter = 0]]

\* The rest of the fan after a tick that made these calls.
Rest(calls) ==
    IF calls # <<>> THEN 0
    ELSE IF rested < DHT_COUNTER - 1 THEN rested + 1 ELSE rested

\* The automatic start the fan now runs on, if it runs on one.
Started(ss, calls) ==
    IF calls = <<>> THEN startHumidity
    ELSE IF calls = <<"on">> /\ ~MOTOR_ON THEN ss["indoor"].humidity
    ELSE 0

read_DHT(indoor, outdoor) ==
    LET ss == [s \in Sensors |->
                  dht_read(sensors[s], IF s = "indoor" THEN indoor ELSE outdoor)]
    IN  /\ UNCHANGED settings
        /\ \/ /\ ~Complete(ss)
              /\ sensors' = ss
              /\ published' = <<>>
              /\ reports' = <<>>
              /\ UNCHANGED <<fan, startHumidity>>
           \/ /\ Complete(ss)
              /\ sensors' = Recounted(ss)
              /\ published' = <<DataMsg("indoor", ss), DataMsg("outdoor", ss)>>
              /\ reports' = Decision(ss)
              /\ Drive(Decision(ss))
              /\ startHumidity' = Started(ss, Decision(ss))
        /\ rested' = Rest(reports')

-----------------------------------------------------------------------------
(* Settings received over MQTT.  A message on any other topic matching the  *)
(* subscription (the device's own data topics among them), a motor_on       *)
(* payload that is neither word and a percentage out of range change        *)
(* nothing.                                                                 *)

Percent(v) == v > 0 /\ v < 100

SetMaxHumidity(v) ==
    /\ Percent(v)
    /\ MAX_HUMIDITY' = v
    /\ UNCHANGED <<DELTA_HUMIDITY, MIN_TEMP, MOTOR_ON>>
    /\ startHumidity' = IF v = MAX_HUMIDITY THEN startHumidity ELSE 0

\* Mutant: the hysteresis is taken unchecked, as the temperature is.
SetDeltaUnchecked(v) ==
    /\ DELTA_HUMIDITY' = v
    /\ UNCHANGED <<MAX_HUMIDITY, MIN_TEMP, MOTOR_ON>>
    /\ startHumidity' = IF v = DELTA_HUMIDITY THEN startHumidity ELSE 0

SetDeltaHumidity(v) ==
    /\ Percent(v)
    /\ DELTA_HUMIDITY' = v
    /\ UNCHANGED <<MAX_HUMIDITY, MIN_TEMP, MOTOR_ON>>
    /\ startHumidity' = IF v = DELTA_HUMIDITY THEN startHumidity ELSE 0

\* Unlike the two percentages the temperature is taken whatever it is.
SetMinTemp(v) ==
    /\ MIN_TEMP' = v
    /\ UNCHANGED <<MAX_HUMIDITY, DELTA_HUMIDITY, MOTOR_ON, startHumidity>>

\* Mutant: while the fan runs no command is taken.
SetMotorOnUnlessRunning(command) ==
    /\ MOTOR_ON' = IF motorIsOn THEN MOTOR_ON ELSE command = "on"
    /\ UNCHANGED <<MAX_HUMIDITY, DELTA_HUMIDITY, MIN_TEMP, startHumidity>>

\* The command is only noted: the fan follows at the next decision.
SetMotorOn(command) ==
    /\ MOTOR_ON' = (command = "on")
    /\ UNCHANGED <<MAX_HUMIDITY, DELTA_HUMIDITY, MIN_TEMP, startHumidity>>

mqttDataCb ==
    /\ \/ \E v \in Payloads :
              SetMaxHumidity(v) \/ SetDeltaHumidity(v) \/ SetMinTemp(v)
       \/ \E command \in FanReports : SetMotorOn(command)
    /\ published' = <<>>
    /\ reports' = <<>>
    /\ UNCHANGED <<sensors, fan, rested>>

-----------------------------------------------------------------------------
Tick ==
    \E indoor, outdoor \in Readings \cup {Failed} : read_DHT(indoor, outdoor)

\* A tick on which the indoor sensor answers.
GoodTick ==
    \E indoor \in Readings : \E outdoor \in Readings \cup {Failed} :
        read_DHT(indoor, outdoor)

Next == Tick \/ mqttDataCb \/ init_done_cb

Spec == Init /\ [][Next]_vars

\* The timer is periodic and is never disarmed, so ticks keep coming; the
\* liveness properties also need the indoor sensor to answer now and then.
FairSpec == Spec /\ WF_vars(GoodTick)

-----------------------------------------------------------------------------
(* Properties.                                                              *)

SensorState == [counter : 0 .. DHT_COUNTER, temperature : Int,
                humidity : Int]

\* The state has the types the code declares.
TypeOK ==
    /\ sensors \in [Sensors -> SensorState]
    /\ MAX_HUMIDITY \in Int
    /\ DELTA_HUMIDITY \in Int
    /\ MIN_TEMP \in Int
    /\ MOTOR_ON \in BOOLEAN
    /\ motorIsOn \in BOOLEAN
    /\ pin \in {0, 1}
    /\ lastReport \in FanReports \cup {"none"}
    /\ rested \in 0 .. DHT_COUNTER - 1
    /\ startHumidity \in Int

\* Between two ticks no count has reached DHT_COUNTER.  The code tests the
\* counts with ==: a count that got past the value would never publish nor
\* decide again, and the fan would stay as it is for good.
CountersBelowLimit == \A s \in Sensors : sensors[s].counter < DHT_COUNTER

\* The percentages accepted from the network keep the switch-off threshold
\* strictly below the switch-on one, whatever messages came in what order.
ThresholdsApart == Percent(MAX_HUMIDITY) /\ Percent(DELTA_HUMIDITY)

\* One decision never switches the relay on and off again: although the two
\* tests of the automatic mode are not in an if/else, a start is never
\* followed by a stop in the same callback.
NoRelayFlap == reports \in {<<>>, <<"on">>, <<"off">>}

\* The relay, the flag the decisions are based on and what the server was
\* last told since the boot agree; before the first report the fan is off.
ReportsAgree ==
    /\ pin = (IF motorIsOn THEN 1 ELSE 0)
    /\ lastReport = "on" <=> motorIsOn

\* The relay is left alone for DHT_COUNTER ticks before it is switched again,
\* however the failures of the two sensors let their counts drift apart: what
\* one sensor had counted when the other triggered a decision never brings the
\* next one forward (user_main.c:108, 122-123).
RelayRests == [][ reports' # <<>> => rested = DHT_COUNTER - 1 ]_vars

\* Hysteresis over time.  While the thresholds are left alone, a fan that
\* started on humidity is stopped only once the mean has dropped by more
\* than DELTA_HUMIDITY from where it started, or by the cold.
HysteresisKept ==
    [][ startHumidity # 0 /\ lastReport' = "off"
        => \/ startHumidity - sensors'["indoor"].humidity
                 > DELTA_HUMIDITY * Unit
           \/ sensors'["indoor"].temperature <= MIN_TEMP * Unit ]_vars

\* In automatic mode no decision leaves the fan running in the cold or in
\* air that is dry enough, whatever the fan did before (it may have been
\* forced on, or the settings may have moved under it).
DecisionSafe ==
    [][ published' # <<>> /\ ~MOTOR_ON /\ motorIsOn'
        => /\ sensors'["indoor"].temperature > MIN_TEMP * Unit
           /\ sensors'["indoor"].humidity
                 > (MAX_HUMIDITY - DELTA_HUMIDITY) * Unit ]_vars

\* A command to run the fan is obeyed as long as it stands, if the indoor
\* sensor answers now and then.
ForcedFanStarts == MOTOR_ON ~> (motorIsOn \/ ~MOTOR_ON)

\* If from some time on the fan is in automatic mode and the mean indoor
\* temperature is not above the minimum, then in the end it is off for good.
ColdFanStops ==
    <>[](~MOTOR_ON /\ Cold(sensors)) => <>[](~motorIsOn)

\* If from some time on the mode is automatic and the air is damp by the
\* settings, the fan ends up running for good.
DampFanRuns ==
    <>[](~MOTOR_ON /\ Damp(sensors)) => <>[]motorIsOn

\* An automatic start rests on measurements made on both sides since the last
\* decision: "several absolute humidity measurements are made inside the
\* ventilated room and outside, which are then averaged" (README.md:43).
StartsOnBothSensors ==
    [][ ~MOTOR_ON /\ reports' = <<"on">>
        => \A i \in DOMAIN published' : published'[i].cnt > 0 ]_vars

=============================================================================
