------------------------------- MODULE Device -------------------------------
(***************************************************************************)
(* The whole device and its broker: the fan control of FanControl, the     *)
(* client as MqttSession promises it, and the two retained messages that   *)
(* matter: the fan report the device leaves with the broker, and the       *)
(* command motor_on a server leaves there for the device.                  *)
(*                                                                         *)
(* A callback hands its messages to the queue before it ends, so a tick of *)
(* the sensors is one step here with all it publishes.  The broker         *)
(* delivers what it sends in order, while the connection lasts.  The       *)
(* thresholds keep their defaults: what messages do to them is the subject *)
(* of FanControl.                                                          *)
(***************************************************************************)
EXTENDS Integers, Sequences, SequencesExt

CONSTANTS
    DHT_COUNTER, Unit, Readings, AbsHumidity(_, _),     \* see FanControl
    OutdoorAir,     \* readings of the outdoor sensor
    QueueLen,       \* packets the queue holds
    MaxFaults,      \* bound on sessions lost or refused and restarts
    MaxCommands     \* bound on the commands the server gives

ASSUME OutdoorAssumption == OutdoorAir \subseteq Readings
ASSUME BoundsAssumption ==
    QueueLen \in Nat \ {0} /\ MaxFaults \in Nat /\ MaxCommands \in Nat

VARIABLES
    \* the fan control
    sensors, MAX_HUMIDITY, DELTA_HUMIDITY, MIN_TEMP, MOTOR_ON, motorIsOn, pin,
    published, reports, lastReport, rested, startHumidity,
    \* the client
    queue, session,
    \* the broker and the server
    retained,       \* the fan report the broker keeps
    command,        \* the command the broker keeps
    inbox,          \* commands on their way to the device
    \* the bounds
    faults, commands,
    \* history
    reportLost,     \* the last fan report will not reach the broker: it was
                    \* given up, or the device restarted
    subLost,        \* the SUBSCRIBE of this session was given up
    skipped         \* the last command to arrive was not looked at

F == INSTANCE FanControl WITH Payloads <- {}

FanPackets == {"on", "off"}
S == INSTANCE MqttSession WITH Packets <- FanPackets \cup {"data"}

fan == <<sensors, MAX_HUMIDITY, DELTA_HUMIDITY, MIN_TEMP, MOTOR_ON, motorIsOn, pin,
         published, reports, lastReport, rested, startHumidity>>
client == <<queue, session>>
broker == <<retained, command, inbox>>
bounds == <<faults, commands>>
history == <<reportLost, subLost, skipped>>
vars == <<fan, client, broker, bounds, history>>

Init ==
    /\ F!Init
    /\ S!Init
    /\ retained = "none"
    /\ command = "none"
    /\ inbox = <<>>
    /\ faults = MaxFaults
    /\ commands = MaxCommands
    /\ reportLost = FALSE
    /\ subLost = FALSE
    /\ skipped = FALSE

-----------------------------------------------------------------------------
(* The device.                                                              *)

IsReport(packet) == packet \in FanPackets

\* Where in the queue the fan reports wait that are still to reach the broker.
Waiting(q) == { i \in DOMAIN q : IsReport(q[i]) }

\* Mutant: the confirmations of motorOn and motorOff are forgotten.
HandedWithoutReports(readings, fanReports) == [i \in DOMAIN readings |-> "data"]

\* What a tick hands to MQTT_Publish, in order.
Handed(readings, fanReports) == [i \in DOMAIN readings |-> "data"] \o fanReports

\* The queues that one callback may leave, for the packets it publishes.
AllEnqueued(qs, packet) == UNION { S!Enqueued(q, packet) : q \in qs }

AfterPublishing(packets) == FoldLeft(AllEnqueued, {queue}, packets)

\* What becomes of the history when packets are queued or given up.
Accounted(new) ==
    /\ reportLost' = /\ reportLost \/ Waiting(queue \o new) # {}
                     /\ Waiting(queue') = {}
    /\ subLost' = ( \/ subLost
                    \/ Contains(queue \o new, "SUBSCRIBE") /\ ~Contains(queue', "SUBSCRIBE") )

Tick(indoor) ==
    /\ \E outdoor \in OutdoorAir : F!read_DHT(indoor, outdoor)
    /\ queue' \in AfterPublishing(Handed(published', reports'))
    /\ Accounted(Handed(published', reports'))
    /\ UNCHANGED <<session, broker, bounds, skipped>>

\* A tick on which the indoor sensor answers, and one on which it does not.
GoodTick == \E indoor \in Readings : Tick(indoor)
BadTick == Tick(F!Failed)

\* What the client takes for the start of a session: SUBSCRIBE is queued.
SessionStarts ==
    /\ subLost' = ~Contains(queue', "SUBSCRIBE")
    /\ reportLost' = ( /\ reportLost \/ Waiting(queue) # {}
                       /\ Waiting(queue') = {} )
    /\ skipped' = FALSE
    /\ UNCHANGED <<fan, broker, commands>>

Accept ==
    /\ S!Accept
    /\ SessionStarts
    /\ UNCHANGED faults

\* The broker refuses the session, and the client serves its queue to a
\* connection on which nothing will be answered.
Refuse ==
    /\ faults > 0
    /\ faults' = faults - 1
    /\ S!Refuse
    /\ SessionStarts

\* A SUBSCRIBE makes the broker send the command it keeps.
Deliver ==
    /\ S!Deliver
    /\ retained' = IF IsReport(Head(queue)) THEN Head(queue) ELSE retained
    /\ reportLost' = (reportLost /\ ~IsReport(Head(queue)))
    /\ inbox' = IF Head(queue) = "SUBSCRIBE" /\ command # "none"
                THEN Append(inbox, command) ELSE inbox
    /\ UNCHANGED <<fan, command, bounds, subLost, skipped>>

Lose ==
    /\ S!Lose
    /\ Accounted(<<>>)
    /\ UNCHANGED <<fan, broker, bounds, skipped>>

Serve == Deliver \/ Lose

Subscribed ==
    /\ S!Subscribed
    /\ UNCHANGED <<fan, broker, bounds, history>>

\* A command arrives at the head of a segment.
Receive ==
    /\ session = "subscribed"
    /\ inbox # <<>>
    /\ F!mqttDataCb /\ F!SetMotorOn(Head(inbox))
    /\ inbox' = Tail(inbox)
    /\ skipped' = FALSE
    /\ UNCHANGED <<client, retained, command, bounds, reportLost, subLost>>

\* A command arrives in one segment behind an answer of the broker, and is
\* not looked at.
Skip ==
    /\ session = "subscribed"
    /\ inbox # <<>>
    /\ inbox' = Tail(inbox)
    /\ skipped' = TRUE
    /\ UNCHANGED <<fan, client, retained, command, bounds, reportLost, subLost>>

-----------------------------------------------------------------------------
(* The server, and what may go wrong.                                       *)

ServerCommands ==
    /\ commands > 0
    /\ commands' = commands - 1
    /\ command' \in FanPackets
    /\ inbox' = IF session \in {"subscribing", "subscribed"}
                THEN Append(inbox, command') ELSE inbox
    /\ UNCHANGED <<fan, client, retained, faults, history>>

\* The connection is lost, with what the broker has sent on it.
SessionEnds ==
    /\ faults > 0
    /\ faults' = faults - 1
    /\ S!End
    /\ inbox' = <<>>
    /\ UNCHANGED <<fan, retained, command, commands, history>>

\* The power comes back, or the watchdog has fired: fan off, defaults set,
\* queue empty, and nothing is published about it.
Restart ==
    /\ faults > 0
    /\ faults' = faults - 1
    /\ F!init_done_cb
    /\ S!Restart
    /\ inbox' = <<>>
    /\ reportLost' = (reportLost \/ motorIsOn \/ Waiting(queue) # {})
    /\ subLost' = FALSE
    /\ skipped' = FALSE
    /\ UNCHANGED <<retained, command, commands>>

Next ==
    \/ GoodTick \/ BadTick \/ Accept \/ Deliver \/ Lose \/ Subscribed \/ Receive \/ Skip
    \/ ServerCommands \/ SessionEnds \/ Refuse \/ Restart

Spec == Init /\ [][Next]_vars

\* The timer of the sensors ticks on and the indoor sensor answers now and
\* then; the client keeps the promises of MqttSession; what the broker sends
\* on a connection that lasts arrives.
FairSpec ==
    /\ Spec
    /\ WF_vars(GoodTick)
    /\ WF_vars(Accept)
    /\ WF_vars(Serve)
    /\ WF_vars(Subscribed)
    /\ WF_vars(Receive \/ Skip)

-----------------------------------------------------------------------------
(* Properties.                                                              *)

\* What the server is told of the fan (README.md:52) catches up with the fan:
\* the last report that reached the broker or will reach it is the state of
\* the fan, unless the last one was given up by the queue or the connection,
\* or the device restarted (user_main.c:78-93 with mqtt.c:397-403, 449-467).
ServerFollowsFan ==
    ~reportLost
        => LET last == IF Waiting(queue) = {} THEN retained
                       ELSE queue[Max(Waiting(queue))]
           IN  (last = "on") <=> motorIsOn

\* With the session up and nothing on its way, the device is under the
\* command the server gave last, though that may have been long before this
\* session, or before a restart that put the setting back to its default;
\* unless the client skipped it (user_main.c:163-167, 217-232, 258).
DeviceFollowsServer ==
    session = "subscribed" /\ inbox = <<>> /\ ~skipped
        => (MOTOR_ON <=> command = "on")

\* A server that wants the fan on gets it on for good once faults cease,
\* whenever it gave the command; unless the SUBSCRIBE or the command was lost.
CommandObeyed ==
    <>[](command = "on") => <>[](motorIsOn \/ subLost \/ skipped)

\* And it gets to know: a fan that runs for good is in the end reported on,
\* one that stands still for good is not, unless the report was lost.
FanReported ==
    /\ <>[]motorIsOn => <>[](retained = "on" \/ reportLost)
    /\ <>[]~motorIsOn => <>[](retained # "on" \/ reportLost)

=============================================================================
