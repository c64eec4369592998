------------------------- MODULE FanControl_proofs -------------------------
(* Proofs about FanControl for every number of readings per decision, every  *)
(* resolution, every set of readings and payloads and every calc_abs_h.      *)
EXTENDS FanControl, SequenceTheorems, TLAPS

(***************************************************************************)
(* Lemmas about the operators.                                             *)
(***************************************************************************)

\* The running mean of dht_read stays a whole number of units.
LEMMA AverageType ==
    ASSUME NEW mean \in Int, NEW count \in Nat, NEW value \in Int
    PROVE  Average(mean, count, value) \in Int
<1>1. count + 1 \in Nat \ {0} /\ mean * count + value * Unit \in Int
  BY UnitAssumption, Z3
<1>2. ASSUME NEW a \in Int, NEW b \in Nat \ {0} PROVE a \div b \in Int
  OBVIOUS
<1> QED BY <1>1, <1>2 DEF Average

\* A reading adds at most one to the count and keeps the sensor well typed.
LEMMA ReadingType ==
    ASSUME NEW sensor \in SensorState, sensor.counter < DHT_COUNTER, NEW r
    PROVE  dht_read(sensor, r) \in SensorState
<1>1. CASE r \notin Readings
  BY <1>1 DEF dht_read
<1>2. CASE r \in Readings
  <2>1. r.t \in Int /\ r.h \in Int
    BY <1>2, ReadingsAssumption
  <2>2. /\ sensor.counter \in Nat
        /\ sensor.temperature \in Int
        /\ sensor.humidity \in Int
        /\ sensor.counter + 1 \in 0 .. DHT_COUNTER
    BY CounterAssumption DEF SensorState
  <2>3. /\ Average(sensor.temperature, sensor.counter, r.t) \in Int
        /\ Average(sensor.humidity, sensor.counter, r.h) \in Int
    BY <2>1, <2>2, AverageType
  <2> QED BY <1>2, <2>2, <2>3 DEF dht_read, SensorState
<1> QED BY <1>1, <1>2

\* With a positive hysteresis damp air is not dry and air warm enough to
\* start in is not cold: the two tests of a decision exclude each other.
LEMMA DampNotDry ==
    ASSUME ThresholdsApart, MAX_HUMIDITY \in Int, DELTA_HUMIDITY \in Int,
           MIN_TEMP \in Int,
           NEW ss \in [Sensors -> SensorState], Damp(ss)
    PROVE  ~Dry(ss) /\ ~Cold(ss)
<1> DEFINE h == ss["indoor"].humidity
           t == ss["indoor"].temperature
<1>1. h \in Int /\ t \in Int
  BY DEF Sensors, SensorState
<1>2. (MAX_HUMIDITY - DELTA_HUMIDITY) * Unit < MAX_HUMIDITY * Unit
  <2>1. DELTA_HUMIDITY * Unit > 0
    BY UnitAssumption, Z3 DEF ThresholdsApart, Percent
  <2>2. (MAX_HUMIDITY - DELTA_HUMIDITY) * Unit
          = MAX_HUMIDITY * Unit - DELTA_HUMIDITY * Unit
    BY UnitAssumption, Z3
  <2> QED BY <2>1, <2>2, UnitAssumption, Z3
<1>3. h > MAX_HUMIDITY * Unit /\ t > MIN_TEMP * Unit
  BY DEF Damp
<1>4. MAX_HUMIDITY * Unit \in Int /\ MIN_TEMP * Unit \in Int
      /\ (MAX_HUMIDITY - DELTA_HUMIDITY) * Unit \in Int
  BY UnitAssumption, Z3
<1> HIDE DEF h, t
<1>5. ~(h <= (MAX_HUMIDITY - DELTA_HUMIDITY) * Unit) /\ ~(t <= MIN_TEMP * Unit)
  BY <1>1, <1>2, <1>3, <1>4
<1> QED BY <1>5 DEF h, t, Dry, Cold

\* So a decision makes at most one call, with the condition of that call.
LEMMA OneCall ==
    ASSUME TypeOK, ThresholdsApart, NEW ss \in [Sensors -> SensorState]
    PROVE  \/ Decision(ss) = <<>>
           \/ Decision(ss) = <<"on">> /\ ~motorIsOn /\ (MOTOR_ON \/ Damp(ss))
           \/ /\ Decision(ss) = <<"off">>
              /\ motorIsOn /\ ~MOTOR_ON
              /\ Dry(ss) \/ Cold(ss)
<1>1. Damp(ss) => ~Dry(ss) /\ ~Cold(ss)
  BY DampNotDry DEF TypeOK
<1>2. /\ <<>> \o <<>> = <<>>
      /\ <<>> \o <<"off">> = <<"off">>
      /\ <<"on">> \o <<>> = <<"on">>
  <2>1. <<>> \in Seq(FanReports) /\ <<"on">> \in Seq(FanReports)
        /\ <<"off">> \in Seq(FanReports)
    BY DEF FanReports
  <2> QED BY <2>1, ConcatEmptySeq
<1>3. CASE MOTOR_ON
  BY <1>3 DEF Decision
<1>4. CASE ~MOTOR_ON /\ motorIsOn
  BY <1>2, <1>4 DEF Decision
<1>5. CASE ~MOTOR_ON /\ ~motorIsOn
  BY <1>1, <1>2, <1>5 DEF Decision
<1> QED BY <1>3, <1>4, <1>5 DEF TypeOK

(***************************************************************************)
(* The invariant.  Its parts need each other: the count stays in range     *)
(* only because a complete count is always seen, a decision makes one call *)
(* only because the thresholds stay apart, and the history of the start    *)
(* says something of the present threshold only while the fan runs.        *)
(***************************************************************************)

\* What the history of the start says of the threshold.
StartedDamp ==
    startHumidity # 0 => motorIsOn /\ startHumidity > MAX_HUMIDITY * Unit

\* No sensor has counted more readings than there were ticks since the fan was
\* switched.
CountsSinceSwitched == \A s \in Sensors : sensors[s].counter <= rested

IInv ==
    /\ TypeOK
    /\ CountersBelowLimit
    /\ CountsSinceSwitched
    /\ ThresholdsApart
    /\ ReportsAgree
    /\ StartedDamp
    /\ NoRelayFlap

\* The sensors as a tick finds them after reading both.
After(indoor, outdoor) ==
    [s \in Sensors |->
        dht_read(sensors[s], IF s = "indoor" THEN indoor ELSE outdoor)]

LEMMA AfterType ==
    ASSUME TypeOK, CountersBelowLimit, NEW indoor, NEW outdoor
    PROVE  After(indoor, outdoor) \in [Sensors -> SensorState]
<1> SUFFICES ASSUME NEW s \in Sensors, NEW r
             PROVE  dht_read(sensors[s], r) \in SensorState
  BY DEF After
<1> QED BY ReadingType DEF TypeOK, CountersBelowLimit

\* A tick adds at most one to a count.
LEMMA AfterCounts ==
    ASSUME TypeOK, CountersBelowLimit, NEW indoor, NEW outdoor, NEW s \in Sensors
    PROVE  After(indoor, outdoor)[s].counter \in {sensors[s].counter, sensors[s].counter + 1}
<1>1. ASSUME NEW r PROVE dht_read(sensors[s], r).counter
                            \in {sensors[s].counter, sensors[s].counter + 1}
  BY DEF dht_read
<1> QED BY <1>1 DEF After

\* The rest stays in its range.
LEMMA RestType ==
    ASSUME rested \in 0 .. DHT_COUNTER - 1, NEW calls
    PROVE  /\ Rest(calls) \in 0 .. DHT_COUNTER - 1
           /\ calls = <<>> => Rest(calls) = rested + 1 \/ Rest(calls) = DHT_COUNTER - 1
BY CounterAssumption DEF Rest

\* Counts, as numbers: one that is not full is below the limit, and one that
\* grows by one at most stays within the ticks since the fan was switched.
LEMMA BelowLimit ==
    ASSUME NEW c \in 0 .. DHT_COUNTER, c # DHT_COUNTER
    PROVE  c \in Nat /\ c < DHT_COUNTER
BY CounterAssumption

LEMMA WithinRest ==
    ASSUME NEW r \in 0 .. DHT_COUNTER - 1, NEW r1 \in 0 .. DHT_COUNTER - 1,
           r1 = r + 1 \/ r1 = DHT_COUNTER - 1,
           NEW c \in Nat, c <= r, NEW c1 \in Nat, c1 \in {c, c + 1}, c1 < DHT_COUNTER
    PROVE  c1 <= r1
BY CounterAssumption

\* Without a complete count a tick only moves the means and the counts.
LEMMA IncompleteTick ==
    ASSUME IInv, NEW ss \in [Sensors -> SensorState], ~Complete(ss),
           \A s \in Sensors : ss[s].counter \in {sensors[s].counter, sensors[s].counter + 1},
           UNCHANGED settings, sensors' = ss, reports' = <<>>, rested' = Rest(<<>>),
           UNCHANGED <<fan, startHumidity>>
    PROVE  IInv'
<1> USE DEF IInv, settings, fan
<1>5. /\ rested \in 0 .. DHT_COUNTER - 1 /\ rested' \in 0 .. DHT_COUNTER - 1
      /\ rested' = rested + 1 \/ rested' = DHT_COUNTER - 1
  BY RestType DEF TypeOK
<1>1. TypeOK'
  BY <1>5 DEF TypeOK
<1>2. CountersBelowLimit'
  <2> SUFFICES ASSUME NEW s \in Sensors PROVE ss[s].counter < DHT_COUNTER
    BY DEF CountersBelowLimit
  <2>1. ss[s].counter \in 0 .. DHT_COUNTER
    BY DEF SensorState
  <2>2. ss[s].counter # DHT_COUNTER
    BY DEF Complete
  <2> QED BY <2>1, <2>2, BelowLimit
<1>6. CountsSinceSwitched'
  <2> SUFFICES ASSUME NEW s \in Sensors PROVE ss[s].counter <= rested'
    BY DEF CountsSinceSwitched
  <2>1. sensors[s].counter \in Nat /\ sensors[s].counter <= rested
    BY DEF TypeOK, SensorState, CountsSinceSwitched
  <2>2. ss[s].counter \in Nat /\ ss[s].counter < DHT_COUNTER
    BY <1>2 DEF CountersBelowLimit, SensorState
  <2>3. ss[s].counter \in {sensors[s].counter, sensors[s].counter + 1}
    OBVIOUS
  <2> QED BY <1>5, <2>1, <2>2, <2>3, WithinRest
<1>3. ThresholdsApart' /\ ReportsAgree' /\ StartedDamp'
  BY DEF ThresholdsApart, ReportsAgree, StartedDamp
<1>4. NoRelayFlap'
  BY DEF NoRelayFlap
<1> QED BY <1>1, <1>2, <1>3, <1>4, <1>6

\* A tick that decides.
LEMMA DecidingTick ==
    ASSUME IInv, NEW ss \in [Sensors -> SensorState],
           UNCHANGED settings,
           sensors' = Recounted(ss),
           reports' = Decision(ss), Drive(Decision(ss)),
           startHumidity' = Started(ss, Decision(ss)), rested' = Rest(Decision(ss))
    PROVE  IInv'
<1> USE DEF IInv, settings, fan
<1>1. \/ Decision(ss) = <<>>
      \/ Decision(ss) = <<"on">> /\ ~motorIsOn /\ (MOTOR_ON \/ Damp(ss))
      \/ /\ Decision(ss) = <<"off">>
         /\ motorIsOn /\ ~MOTOR_ON
         /\ Dry(ss) \/ Cold(ss)
  BY OneCall
<1>3. NoRelayFlap'
  BY <1>1 DEF NoRelayFlap
<1>2. rested' \in 0 .. DHT_COUNTER - 1
  BY RestType DEF TypeOK
<1>4. /\ sensors' \in [Sensors -> SensorState]
      /\ CountersBelowLimit' /\ CountsSinceSwitched'
  <2>1. ASSUME NEW s \in Sensors
        PROVE  sensors'[s].counter = 0 /\ sensors'[s] \in SensorState
    <3>1. PICK c, t, h : /\ c \in 0 .. DHT_COUNTER /\ t \in Int /\ h \in Int
                         /\ ss[s] = [counter |-> c, temperature |-> t,
                                     humidity |-> h]
      BY DEF SensorState
    <3>2. sensors'[s] = [ss[s] EXCEPT !.counter = 0]
      BY DEF Recounted
    <3>3. sensors'[s] = [counter |-> 0, temperature |-> t, humidity |-> h]
      BY <3>1, <3>2
    <3>4. 0 \in 0 .. DHT_COUNTER
      BY CounterAssumption
    <3>5. sensors'[s] \in SensorState
      BY <3>1, <3>3, <3>4 DEF SensorState
    <3> QED BY <3>1, <3>3, <3>5
  <2>2. ASSUME NEW s \in Sensors PROVE sensors'[s].counter < DHT_COUNTER
    <3>1. sensors'[s].counter = 0
      BY <2>1
    <3> QED BY <3>1, CounterAssumption
  <2>3. CountersBelowLimit'
    BY <2>2 DEF CountersBelowLimit
  <2>4. sensors' \in [Sensors -> SensorState]
    BY <2>1 DEF Recounted
  <2>5. ASSUME NEW s \in Sensors PROVE sensors'[s].counter <= rested'
    <3>1. sensors'[s].counter = 0
      BY <2>1
    <3> QED BY <1>2, <3>1
  <2>6. CountsSinceSwitched'
    BY <2>5 DEF CountsSinceSwitched
  <2> QED BY <2>3, <2>4, <2>6
<1>5. ss["indoor"].humidity \in Int
  BY DEF Sensors, SensorState
<1>6. ThresholdsApart'
  BY DEF ThresholdsApart
<1>7. CASE Decision(ss) = <<>>
  <2>1. UNCHANGED fan /\ startHumidity' = startHumidity
    BY <1>7 DEF Drive, Started
  <2> QED BY <1>2, <1>3, <1>4, <1>6, <2>1 DEF TypeOK, ReportsAgree, StartedDamp
<1>8. CASE Decision(ss) = <<"on">> /\ ~motorIsOn /\ (MOTOR_ON \/ Damp(ss))
  <2>1. lastReport' = "on" /\ motorIsOn' = TRUE /\ pin' = 1
    <3>1. <<"on">>[Len(<<"on">>)] = "on" /\ <<"on">> # <<>>
      OBVIOUS
    <3> QED BY <1>8, <3>1 DEF Drive
  <2>2. startHumidity' = IF ~MOTOR_ON THEN ss["indoor"].humidity ELSE 0
    BY <1>8 DEF Started
  <2>3. StartedDamp' /\ startHumidity' \in Int
    BY <1>5, <1>8, <2>1, <2>2 DEF StartedDamp, Damp, TypeOK
  <2> QED BY <1>2, <1>3, <1>4, <1>6, <2>1, <2>3 DEF TypeOK, ReportsAgree, FanReports
<1>9. CASE Decision(ss) = <<"off">>
  <2>1. /\ lastReport' = "off" /\ motorIsOn' = FALSE /\ pin' = 0
        /\ startHumidity' = 0
    <3>1. <<"off">>[Len(<<"off">>)] = "off" /\ <<"off">> # <<>>
          /\ <<"off">> # <<"on">>
      OBVIOUS
    <3> QED BY <1>9, <3>1 DEF Drive, Started
  <2>2. StartedDamp'
    BY <2>1 DEF StartedDamp
  <2>3. ReportsAgree'
    BY <2>1 DEF ReportsAgree
  <2>4. TypeOK'
    <3>0. motorIsOn' \in BOOLEAN
      BY <2>1
    <3>1. /\ pin' \in {0, 1} /\ startHumidity' \in Int
          /\ lastReport' \in FanReports \cup {"none"}
      BY <2>1 DEF FanReports
    <3>2. /\ MAX_HUMIDITY' \in Int /\ DELTA_HUMIDITY' \in Int
          /\ MIN_TEMP' \in Int /\ MOTOR_ON' \in BOOLEAN
      BY DEF TypeOK
    <3> QED BY <1>2, <1>4, <3>0, <3>1, <3>2 DEF TypeOK
  <2> QED BY <1>3, <1>4, <1>6, <2>2, <2>3, <2>4
<1> QED BY <1>1, <1>7, <1>8, <1>9

LEMMA TickInv ==
    ASSUME IInv, NEW indoor, NEW outdoor, read_DHT(indoor, outdoor)
    PROVE  IInv'
<1> DEFINE ss == After(indoor, outdoor)
<1>1. ss \in [Sensors -> SensorState]
  BY AfterType DEF IInv
<1>4. \A s \in Sensors : ss[s].counter \in {sensors[s].counter, sensors[s].counter + 1}
  BY AfterCounts DEF IInv
<1>2. CASE ~Complete(ss)
  <2>1. /\ UNCHANGED settings
        /\ sensors' = ss
        /\ reports' = <<>> /\ rested' = Rest(<<>>)
        /\ UNCHANGED <<fan, startHumidity>>
    BY <1>2 DEF read_DHT, After
  <2> HIDE DEF ss
  <2> QED BY <1>1, <1>2, <1>4, <2>1, IncompleteTick
<1>3. CASE Complete(ss)
  <2>1. /\ UNCHANGED settings
        /\ sensors' = Recounted(ss)
        /\ reports' = Decision(ss)
        /\ Drive(Decision(ss))
        /\ startHumidity' = Started(ss, Decision(ss))
        /\ rested' = Rest(Decision(ss))
    BY <1>3 DEF read_DHT, After
  <2> HIDE DEF ss
  <2> QED BY <1>1, <2>1, DecidingTick
<1> QED BY <1>2, <1>3

LEMMA MessageInv == IInv /\ mqttDataCb => IInv'
<1> SUFFICES ASSUME IInv, mqttDataCb PROVE IInv'
  OBVIOUS
<1> USE DEF IInv
<1>1. UNCHANGED <<sensors, motorIsOn, pin, lastReport, rested>> /\ reports' = <<>>
  BY DEF mqttDataCb, fan
<1>2. CountersBelowLimit' /\ CountsSinceSwitched' /\ ReportsAgree' /\ NoRelayFlap'
  BY <1>1 DEF CountersBelowLimit, CountsSinceSwitched, ReportsAgree, NoRelayFlap
<1>3. ASSUME NEW v \in Payloads, SetMaxHumidity(v) PROVE IInv'
  <2>1. TypeOK' /\ ThresholdsApart'
    BY <1>1, <1>3, PayloadsAssumption
       DEF SetMaxHumidity, TypeOK, ThresholdsApart
  <2>2. StartedDamp'
    BY <1>1, <1>3 DEF SetMaxHumidity, StartedDamp
  <2> QED BY <1>2, <2>1, <2>2
<1>4. ASSUME NEW v \in Payloads, SetDeltaHumidity(v) PROVE IInv'
  <2>1. TypeOK' /\ ThresholdsApart'
    BY <1>1, <1>4, PayloadsAssumption
       DEF SetDeltaHumidity, TypeOK, ThresholdsApart
  <2>2. StartedDamp'
    BY <1>1, <1>4 DEF SetDeltaHumidity, StartedDamp
  <2> QED BY <1>2, <2>1, <2>2
<1>5. ASSUME NEW v \in Payloads, SetMinTemp(v) PROVE IInv'
  <2>1. TypeOK' /\ ThresholdsApart'
    BY <1>1, <1>5, PayloadsAssumption DEF SetMinTemp, TypeOK, ThresholdsApart
  <2>2. StartedDamp'
    BY <1>1, <1>5 DEF SetMinTemp, StartedDamp
  <2> QED BY <1>2, <2>1, <2>2
<1>6. ASSUME NEW command \in FanReports, SetMotorOn(command) PROVE IInv'
  <2>1. TypeOK' /\ ThresholdsApart'
    BY <1>1, <1>6 DEF SetMotorOn, TypeOK, ThresholdsApart
  <2>2. StartedDamp'
    BY <1>1, <1>6 DEF SetMotorOn, StartedDamp
  <2> QED BY <1>2, <2>1, <2>2
<1> QED BY <1>3, <1>4, <1>5, <1>6 DEF mqttDataCb

LEMMA BootType ==
    /\ Unread \in SensorState /\ Unread.counter = 0
    /\ 0 < DHT_COUNTER /\ 0 \in 0 .. DHT_COUNTER - 1
BY CounterAssumption DEF Unread, SensorState

LEMMA InitInv == Init => IInv
<1> SUFFICES ASSUME Init PROVE IInv
  OBVIOUS
<1> USE DEF Init
<1>1. /\ sensors \in [Sensors -> SensorState] /\ rested \in 0 .. DHT_COUNTER - 1
      /\ CountersBelowLimit /\ CountsSinceSwitched
  BY BootType DEF CountersBelowLimit, CountsSinceSwitched
<1>2. TypeOK
  <2>1. MOTOR_ON \in BOOLEAN /\ motorIsOn \in BOOLEAN
    OBVIOUS
  <2> QED BY <1>1, <2>1 DEF TypeOK, DefaultMax, DefaultDelta, DefaultMin
<1>3. ThresholdsApart
  BY DEF ThresholdsApart, Percent, DefaultMax, DefaultDelta
<1> QED BY <1>1, <1>2, <1>3 DEF IInv, ReportsAgree, StartedDamp, NoRelayFlap

LEMMA RebootInv == init_done_cb => IInv'
<1> SUFFICES ASSUME init_done_cb PROVE IInv'
  OBVIOUS
<1> USE DEF init_done_cb
<1>1. /\ sensors' \in [Sensors -> SensorState] /\ rested' \in 0 .. DHT_COUNTER - 1
      /\ CountersBelowLimit' /\ CountsSinceSwitched'
  BY BootType DEF CountersBelowLimit, CountsSinceSwitched
<1>2. TypeOK'
  <2>1. MOTOR_ON' \in BOOLEAN /\ motorIsOn' \in BOOLEAN
    OBVIOUS
  <2> QED BY <1>1, <2>1 DEF TypeOK, DefaultMax, DefaultDelta, DefaultMin
<1>3. ThresholdsApart'
  BY DEF ThresholdsApart, Percent, DefaultMax, DefaultDelta
<1> QED BY <1>1, <1>2, <1>3 DEF IInv, ReportsAgree, StartedDamp, NoRelayFlap

LEMMA NextInv == IInv /\ [Next]_vars => IInv'
<1> SUFFICES ASSUME IInv, [Next]_vars PROVE IInv'
  OBVIOUS
<1>1. CASE Tick
  BY <1>1, TickInv DEF Tick
<1>2. CASE mqttDataCb
  BY <1>2, MessageInv
<1>3. CASE init_done_cb
  BY <1>3, RebootInv
<1>4. CASE UNCHANGED vars
  BY <1>4 DEF vars, settings, fan, IInv, TypeOK, CountersBelowLimit,
              CountsSinceSwitched, ThresholdsApart, ReportsAgree, StartedDamp, NoRelayFlap
<1> QED BY <1>1, <1>2, <1>3, <1>4 DEF Next

(***************************************************************************)
(* Theorems.                                                               *)
(***************************************************************************)

\* The invariant holds in every state the program can reach.
THEOREM Invariance == Spec => []IInv
BY InitInv, NextInv, PTL DEF Spec

\* No sensor count ever gets past the == test of read_DHT.
THEOREM CountersNeverPassLimit == Spec => []CountersBelowLimit
<1>1. IInv => CountersBelowLimit
  BY DEF IInv
<1> QED BY <1>1, Invariance, PTL

\* Whatever settings were received, a decision switches the relay at most once.
THEOREM RelayNeverFlaps == Spec => []NoRelayFlap
<1>1. IInv => NoRelayFlap
  BY DEF IInv
<1> QED BY <1>1, Invariance, PTL

\* A sensor that completes its count has counted on every tick of the rest.
LEMMA RestStep ==
    ASSUME IInv, [Next]_vars
    PROVE  UNCHANGED vars \/ (reports' # <<>> => rested = DHT_COUNTER - 1)
<1> SUFFICES ASSUME Next, reports' # <<>> PROVE rested = DHT_COUNTER - 1
  OBVIOUS
<1>1. PICK indoor, outdoor : read_DHT(indoor, outdoor)
  BY DEF Next, Tick, mqttDataCb, init_done_cb
<1> DEFINE ss == After(indoor, outdoor)
<1>2. Complete(ss)
  BY <1>1 DEF read_DHT, After
<1>3. PICK s \in Sensors : ss[s].counter = DHT_COUNTER
  BY <1>2 DEF Complete
<1>4. ss[s].counter \in {sensors[s].counter, sensors[s].counter + 1}
  BY AfterCounts DEF IInv
<1> HIDE DEF ss
<1>5. /\ sensors[s].counter \in Nat /\ sensors[s].counter <= rested
      /\ rested \in 0 .. DHT_COUNTER - 1
  BY DEF IInv, TypeOK, SensorState, CountsSinceSwitched
<1> QED BY <1>3, <1>4, <1>5, CounterAssumption

\* Whatever the failures of the two sensors do to their counts, the relay is
\* left alone for DHT_COUNTER ticks before it is switched again.
THEOREM RelayAlwaysRests == Spec => RelayRests
<1>1. IInv /\ [Next]_vars => [ reports' # <<>> => rested = DHT_COUNTER - 1 ]_vars
  BY RestStep
<1> QED BY <1>1, Invariance, PTL DEF Spec, RelayRests

\* The relay is where the program and the last report say it is.
THEOREM RelayAsReported == Spec => []ReportsAgree
<1>1. IInv => ReportsAgree
  BY DEF IInv
<1> QED BY <1>1, Invariance, PTL

\* What a tick that decides leaves of the sensors it decided on.
LEMMA ResetKeepsMeans ==
    ASSUME NEW ss \in [Sensors -> SensorState],
           sensors' = Recounted(ss)
    PROVE  /\ sensors'["indoor"].humidity = ss["indoor"].humidity
           /\ sensors'["indoor"].temperature = ss["indoor"].temperature
           /\ ss["indoor"].humidity \in Int
           /\ ss["indoor"].temperature \in Int
<1>1. PICK c, t, h : /\ c \in 0 .. DHT_COUNTER /\ t \in Int /\ h \in Int
                     /\ ss["indoor"] = [counter |-> c, temperature |-> t,
                                        humidity |-> h]
  BY DEF SensorState, Sensors
<1>2. sensors'["indoor"] = [ss["indoor"] EXCEPT !.counter = 0]
  BY DEF Sensors, Recounted
<1>3. sensors'["indoor"] = [counter |-> 0, temperature |-> t, humidity |-> h]
  BY <1>1, <1>2
<1> QED BY <1>1, <1>3

\* A drop from above one threshold to below the other is more than the
\* hysteresis.
LEMMA ThresholdDistance ==
    ASSUME NEW start \in Int, NEW h \in Int, NEW max \in Int, NEW delta \in Int,
           start > max * Unit, h <= (max - delta) * Unit
    PROVE  start - h > delta * Unit
<1>1. (max - delta) * Unit = max * Unit - delta * Unit
      /\ max * Unit \in Int /\ delta * Unit \in Int
  BY UnitAssumption, Z3
<1> QED BY <1>1

LEMMA HysteresisStep ==
    ASSUME IInv, [Next]_vars, startHumidity # 0, lastReport' = "off"
    PROVE  \/ startHumidity - sensors'["indoor"].humidity > DELTA_HUMIDITY * Unit
           \/ sensors'["indoor"].temperature <= MIN_TEMP * Unit
<1>1. motorIsOn /\ lastReport = "on" /\ startHumidity > MAX_HUMIDITY * Unit
  BY DEF IInv, StartedDamp, ReportsAgree
<1>2. lastReport' # lastReport
  BY <1>1
<1>3. PICK indoor, outdoor : read_DHT(indoor, outdoor)
  BY <1>2 DEF Next, Tick, mqttDataCb, init_done_cb, vars, fan
<1> DEFINE ss == After(indoor, outdoor)
<1>4. ss \in [Sensors -> SensorState]
  BY AfterType DEF IInv
<1>5. /\ sensors' = Recounted(ss)
      /\ Drive(Decision(ss))
  BY <1>2, <1>3 DEF read_DHT, After, fan
<1> HIDE DEF ss
<1>6. Dry(ss) \/ Cold(ss)
  <2>1. Decision(ss) # <<>>
    BY <1>2, <1>5 DEF Drive, fan
  <2>2. ~(Decision(ss) = <<"on">> /\ ~motorIsOn)
    BY <1>1
  <2> QED BY <1>4, <2>1, <2>2, OneCall DEF IInv
<1>7. MAX_HUMIDITY \in Int /\ DELTA_HUMIDITY \in Int /\ startHumidity \in Int
  BY DEF IInv, TypeOK
<1> QED BY <1>1, <1>4, <1>5, <1>6, <1>7, ResetKeepsMeans, ThresholdDistance
        DEF Dry, Cold

\* Hysteresis holds between any start and the stop that follows it, however
\* many decisions lie between them.
THEOREM HysteresisAlwaysKept == Spec => HysteresisKept
<1>1. IInv /\ [Next]_vars
      => [ startHumidity # 0 /\ lastReport' = "off"
           => \/ startHumidity - sensors'["indoor"].humidity
                    > DELTA_HUMIDITY * Unit
              \/ sensors'["indoor"].temperature <= MIN_TEMP * Unit ]_vars
  BY HysteresisStep
<1> QED BY <1>1, Invariance, PTL DEF Spec, HysteresisKept

LEMMA SafeStep ==
    ASSUME IInv, Next, published' # <<>>, ~MOTOR_ON, motorIsOn'
    PROVE  /\ sensors'["indoor"].temperature > MIN_TEMP * Unit
           /\ sensors'["indoor"].humidity > (MAX_HUMIDITY - DELTA_HUMIDITY) * Unit
<1>1. PICK indoor, outdoor : read_DHT(indoor, outdoor)
  BY DEF Next, Tick, mqttDataCb, init_done_cb
<1> DEFINE ss == After(indoor, outdoor)
<1>2. ss \in [Sensors -> SensorState]
  BY AfterType DEF IInv
<1>3. /\ sensors' = Recounted(ss)
      /\ Drive(Decision(ss))
  BY <1>1 DEF read_DHT, After
<1> HIDE DEF ss
<1>4. ~Dry(ss) /\ ~Cold(ss)
  <2>1. CASE Decision(ss) = <<>>
    <3>1. motorIsOn
      BY <1>3, <2>1 DEF Drive, fan
    <3>2. CASE Dry(ss) \/ Cold(ss)
      <4>1. Decision(ss) = <<>> \o <<"off">>
        BY <3>1, <3>2 DEF Decision
      <4>2. <<>> \o <<"off">> = <<"off">>
        BY ConcatEmptySeq, <<"off">> \in Seq({"off"})
      <4> QED BY <2>1, <4>1, <4>2
    <3> QED BY <3>2
  <2>2. CASE Decision(ss) = <<"on">> /\ Damp(ss)
    BY <1>2, <2>2, DampNotDry DEF IInv, TypeOK
  <2>3. CASE Decision(ss) = <<"off">>
    <3>1. ~motorIsOn'
      <4>1. <<"off">>[Len(<<"off">>)] = "off" /\ <<"off">> # <<>>
        OBVIOUS
      <4> QED BY <1>3, <2>3, <4>1 DEF Drive
    <3> QED BY <3>1
  <2> QED BY <1>2, <2>1, <2>2, <2>3, OneCall DEF IInv
<1>5. /\ MIN_TEMP * Unit \in Int
      /\ (MAX_HUMIDITY - DELTA_HUMIDITY) * Unit \in Int
  <2>1. MIN_TEMP \in Int /\ MAX_HUMIDITY \in Int /\ DELTA_HUMIDITY \in Int
    BY DEF IInv, TypeOK
  <2> QED BY <2>1, UnitAssumption, Z3
<1>6. /\ sensors'["indoor"].humidity = ss["indoor"].humidity
      /\ sensors'["indoor"].temperature = ss["indoor"].temperature
      /\ ss["indoor"].humidity \in Int
      /\ ss["indoor"].temperature \in Int
  BY <1>2, <1>3, ResetKeepsMeans
<1>7. /\ ss["indoor"].humidity > (MAX_HUMIDITY - DELTA_HUMIDITY) * Unit
      /\ ss["indoor"].temperature > MIN_TEMP * Unit
  BY <1>4, <1>5, <1>6 DEF Dry, Cold
<1> QED BY <1>6, <1>7

\* Whatever the fan did before, and whichever of the two tests switched it, no
\* decision in automatic mode leaves it running in cold or dry air.
THEOREM DecisionsAreSafe == Spec => DecisionSafe
<1>1. IInv /\ [Next]_vars
      => [ published' # <<>> /\ ~MOTOR_ON /\ motorIsOn'
           => /\ sensors'["indoor"].temperature > MIN_TEMP * Unit
              /\ sensors'["indoor"].humidity
                    > (MAX_HUMIDITY - DELTA_HUMIDITY) * Unit ]_vars
  BY SafeStep
<1> QED BY <1>1, Invariance, PTL DEF Spec, DecisionSafe
=============================================================================
