----------------------------- MODULE MqttClient -----------------------------
(***************************************************************************)
(* The connection to the broker: mqtt/mqtt.c with the Wi-Fi poll of        *)
(* mqtt/wifi.c and the callbacks user_main.c gives them.                   *)
(*                                                                         *)
(* Every callback of the SDK (the two timers, the events of the TCP        *)
(* connection, the client's task) runs to completion: one action each.     *)
(* They only meet in the state below, in any order.                        *)
(*                                                                         *)
(* Simplifications:                                                        *)
(*  - security is off, as shipped;                                         *)
(*  - every lookup of a name and every attempt to connect is answered by   *)
(*    a callback (the code looks at no return code); client->ip, which     *)
(*    nothing sets, is 0;                                                  *)
(*  - the queue holds whole packets, up to QueueLen of them; what an       *)
(*    overflow may do to it is what MsgQueue shows it does;                *)
(*  - the only subscription is for QoS 0, so the broker sends no packet    *)
(*    the client has to answer;                                            *)
(*  - espconn_sent never fails on an open connection with nothing under    *)
(*    way (the SDK running out of memory is left out).                     *)
(***************************************************************************)
EXTENDS Integers, Sequences

CONSTANTS
    KEEPALIVE,          \* connect_info->keepalive, seconds
    RECONNECT_TIMEOUT,  \* MQTT_RECONNECT_TIMEOUT, seconds
    SEND_TIMEOUT,       \* MQTT_SEND_TIMOUT, seconds
    QueueLen,           \* packets the queue holds
    HostIsName,         \* the host is a name to look up, not an address
    MaxFaults,          \* bound on failures of any kind
    OrphansCallBack     \* a connection whose espconn was freed may call back

ASSUME TimesAssumption ==
    {KEEPALIVE, RECONNECT_TIMEOUT, SEND_TIMEOUT, QueueLen} \subseteq Nat \ {0}
ASSUME HostAssumption == HostIsName \in BOOLEAN
ASSUME FaultsAssumption == MaxFaults \in Nat /\ OrphansCallBack \in BOOLEAN

VARIABLES
    \* the client
    connState, pCon, mqttTimer, keepAliveTick, reconnectTick, sendTimeout,
    queue,              \* msgQueue, as packets
    pending_msg_type,
    posted,             \* the one slot of the task's event queue is taken
    lastWifiStatus,
    \* its surroundings
    link,               \* what wifi_station_get_connect_status would say
    unsent,             \* sends on the connection not yet reported as done
    broker,             \* how far the session on this connection has got
    orphans,            \* connections whose espconn was freed while in use
    faults,             \* failures still to come
    \* history
    subLost,            \* the SUBSCRIBE of this session was dropped
    outageLoss,         \* packets sent nowhere since the poll saw Wi-Fi come or
                        \* go, or a callback last opened the gate
    skipped             \* the last segment held a PUBLISH nobody looked at

client == <<connState, pCon, mqttTimer, keepAliveTick, reconnectTick, sendTimeout>>
tcp == <<unsent, broker, orphans>>
vars == <<client, queue, pending_msg_type, posted, lastWifiStatus, link, tcp,
          faults, subLost, outageLoss, skipped>>

ConnStates == {"WIFI_INIT", "TCP_CONNECTING", "MQTT_CONNECT_SENDING",
               "MQTT_DATA", "TCP_RECONNECT_REQ", "TCP_RECONNECT"}

\* pCon: NULL; allocated and waiting for the name, connecting, connected;
\* allocated but over.
InUse == {"looking", "opening", "open"}
PConStates == InUse \cup {"NULL", "over"}

\* The session as the broker sees it.
BrokerStates == {"none", "connecting", "refused", "accepted", "subscribing", "subscribed"}

Queued == {"SUBSCRIBE", "PUBLISH"}      \* the packets that go through the queue
Packets == Queued \cup {"CONNECT", "PINGREQ"}

Init ==
    /\ connState = "WIFI_INIT"
    /\ pCon = "NULL"
    /\ mqttTimer = FALSE
    /\ keepAliveTick = 0
    /\ reconnectTick = 0
    /\ sendTimeout = 0
    /\ queue = <<>>
    /\ pending_msg_type = "none"
    /\ posted = TRUE            \* MQTT_InitClient posts once
    /\ lastWifiStatus = "down"
    /\ link = "down"
    /\ unsent = 0
    /\ broker = "none"
    /\ orphans = {}
    /\ faults = MaxFaults
    /\ subLost = FALSE
    /\ outageLoss = 0
    /\ skipped = FALSE

\* The device starts again, by init_done_cb: MQTT_InitConnection clears all.
Boot ==
    /\ connState' = "WIFI_INIT"
    /\ pCon' = "NULL"
    /\ mqttTimer' = FALSE
    /\ keepAliveTick' = 0
    /\ reconnectTick' = 0
    /\ sendTimeout' = 0
    /\ queue' = <<>>
    /\ pending_msg_type' = "none"
    /\ posted' = TRUE
    /\ lastWifiStatus' = "down"
    /\ link' = "down"
    /\ unsent' = 0
    /\ broker' = "none"
    /\ orphans' = {}
    /\ subLost' = FALSE
    /\ outageLoss' = 0
    /\ skipped' = FALSE

-----------------------------------------------------------------------------
(* MQTT_Disconnect frees the espconn whatever state its connection is in,   *)
(* and MQTT_Connect begins with it.  Neither closes the connection.         *)

Orphaned == IF OrphansCallBack /\ pCon \in InUse
            THEN orphans \cup {pCon} ELSE orphans

Forget ==
    /\ orphans' = Orphaned
    /\ unsent' = 0
    /\ broker' = "none"

\* Mutant: the timer is left running.
DisconnectKeepsTimer ==
    /\ Forget
    /\ pCon' = "NULL"
    /\ UNCHANGED <<mqttTimer, connState, keepAliveTick, reconnectTick, sendTimeout>>

MQTT_Disconnect ==
    /\ Forget
    /\ pCon' = "NULL"
    /\ mqttTimer' = FALSE
    /\ UNCHANGED <<connState, keepAliveTick, reconnectTick, sendTimeout>>

Attempt == IF HostIsName THEN "looking" ELSE "opening"

MQTT_Connect ==
    /\ Forget
    /\ pCon' = Attempt
    /\ mqttTimer' = TRUE
    /\ keepAliveTick' = 0
    /\ reconnectTick' = 0
    /\ connState' = "TCP_CONNECTING"
    /\ UNCHANGED sendTimeout

-----------------------------------------------------------------------------
(* The Wi-Fi poll, every 0.5 or 2 s: only a change seen by two polls is     *)
(* reported, a short loss between them is not.  A station that is not       *)
(* connected has one of several statuses, all "down" here: a change from    *)
(* one to another is reported too, and disconnects once more.               *)

wifiConnectCb(status) == IF status = "up" THEN MQTT_Connect ELSE MQTT_Disconnect

wifi_check_ip ==
    /\ link # lastWifiStatus \/ link = "down"
    /\ lastWifiStatus' = link
    /\ wifiConnectCb(link)
    /\ outageLoss' = IF link # lastWifiStatus THEN 0 ELSE outageLoss
    /\ UNCHANGED <<queue, pending_msg_type, posted, link, faults, subLost>>
    /\ skipped' = FALSE

-----------------------------------------------------------------------------
(* The queue.  On overflow the oldest packets make room, or all are lost    *)
(* and the new one with them (see MsgQueue).                                *)

Holds(s, packet) == \E i \in DOMAIN s : s[i] = packet

Enqueued(packet) ==
    IF Len(queue) < QueueLen
    THEN {Append(queue, packet)}
    ELSE {<<>>} \cup { Append(SubSeq(queue, n, QueueLen), packet) : n \in 2 .. QueueLen + 1 }

\* MQTT_Publish, called by read_DHT; what the queue gives up for it may be
\* the SUBSCRIBE of this session.
MQTT_Publish ==
    /\ queue' \in Enqueued("PUBLISH")
    /\ posted' = (posted \/ queue' # <<>>)    \* not on "Serious buffer error"
    /\ subLost' = (subLost \/ (Holds(queue, "SUBSCRIBE") /\ ~Holds(queue', "SUBSCRIBE")))
    /\ UNCHANGED <<client, pending_msg_type, lastWifiStatus, link, tcp, faults, outageLoss>>
    /\ skipped' = FALSE

\* Bound on the sends under way on a connection.
MaxUnsent == 2

\* espconn_sent, its result ignored: a packet is lost when the connection is
\* not open, and may be refused while an earlier one is under way.
Delivered(packet) ==
    CASE packet = "CONNECT" /\ broker = "none" -> "connecting"
      [] packet = "CONNECT" /\ broker # "none" -> "none"   \* a protocol error
      [] packet = "SUBSCRIBE" /\ broker = "accepted" -> "subscribing"
      [] OTHER -> broker

espconn_sent(packet) ==
    \/ /\ pCon = "open"
       /\ unsent < MaxUnsent
       /\ unsent' = unsent + 1
       /\ broker' = Delivered(packet)
       /\ UNCHANGED subLost
    \/ /\ pCon # "open" \/ unsent > 0
       /\ subLost' = (subLost \/ packet = "SUBSCRIBE")
       /\ UNCHANGED <<unsent, broker>>

-----------------------------------------------------------------------------
(* The client's task.                                                       *)

TaskReconnect ==
    /\ connState = "TCP_RECONNECT"
    /\ MQTT_Connect
    /\ UNCHANGED <<queue, pending_msg_type, subLost, outageLoss>>

TaskSend ==
    /\ connState = "MQTT_DATA"
    /\ queue # <<>>
    /\ sendTimeout = 0
    /\ queue' = Tail(queue)
    /\ pending_msg_type' = Head(queue)
    /\ sendTimeout' = SEND_TIMEOUT
    /\ espconn_sent(Head(queue))
    /\ outageLoss' = IF pCon = "NULL" /\ outageLoss < 2 THEN outageLoss + 1 ELSE outageLoss
    /\ UNCHANGED <<connState, pCon, mqttTimer, keepAliveTick, reconnectTick, orphans>>

TaskNothing ==
    /\ connState # "TCP_RECONNECT"
    /\ connState = "MQTT_DATA" => (queue = <<>> \/ sendTimeout # 0)
    /\ UNCHANGED <<client, queue, pending_msg_type, tcp, subLost, outageLoss>>

MQTT_Task ==
    /\ posted
    /\ posted' = FALSE
    /\ TaskReconnect \/ TaskSend \/ TaskNothing
    /\ UNCHANGED <<lastWifiStatus, link, faults>>
    /\ skipped' = FALSE

-----------------------------------------------------------------------------
(* The client's one-second timer.  The keep-alive goes past the queue and   *)
(* its gate; the gate counts down whatever else the tick has done.          *)

CountedDown(t) == IF t > 0 THEN t - 1 ELSE t

TimerPing ==
    /\ connState = "MQTT_DATA"
    /\ keepAliveTick + 1 > KEEPALIVE
    /\ keepAliveTick' = 0
    /\ pending_msg_type' = "PINGREQ"
    /\ sendTimeout' = CountedDown(SEND_TIMEOUT)
    /\ espconn_sent("PINGREQ")
    /\ posted' = TRUE
    /\ UNCHANGED <<connState, reconnectTick>>

\* Mutant: the task is not woken to reconnect.
ReconnectUnposted ==
    /\ connState = "TCP_RECONNECT_REQ"
    /\ reconnectTick + 1 > RECONNECT_TIMEOUT
    /\ reconnectTick' = 0
    /\ connState' = "TCP_RECONNECT"
    /\ sendTimeout' = CountedDown(sendTimeout)
    /\ UNCHANGED <<posted, keepAliveTick, pending_msg_type, unsent, broker, subLost>>

TimerReconnect ==
    /\ connState = "TCP_RECONNECT_REQ"
    /\ reconnectTick + 1 > RECONNECT_TIMEOUT
    /\ reconnectTick' = 0
    /\ connState' = "TCP_RECONNECT"
    /\ posted' = TRUE
    /\ sendTimeout' = CountedDown(sendTimeout)
    /\ UNCHANGED <<keepAliveTick, pending_msg_type, unsent, broker, subLost>>

TimerCount ==
    /\ \/ /\ connState = "MQTT_DATA"
          /\ keepAliveTick < KEEPALIVE
          /\ keepAliveTick' = keepAliveTick + 1
          /\ UNCHANGED reconnectTick
       \/ /\ connState = "TCP_RECONNECT_REQ"
          /\ reconnectTick < RECONNECT_TIMEOUT
          /\ reconnectTick' = reconnectTick + 1
          /\ UNCHANGED keepAliveTick
       \/ /\ connState \notin {"MQTT_DATA", "TCP_RECONNECT_REQ"}
          /\ UNCHANGED <<keepAliveTick, reconnectTick>>
    /\ sendTimeout' = CountedDown(sendTimeout)
    /\ UNCHANGED <<connState, posted, pending_msg_type, unsent, broker, subLost>>

mqtt_timer ==
    /\ mqttTimer
    /\ TimerPing \/ TimerReconnect \/ TimerCount
    /\ UNCHANGED <<pCon, mqttTimer, queue, lastWifiStatus, link, orphans, faults, outageLoss>>
    /\ skipped' = FALSE

-----------------------------------------------------------------------------
(* Events of the TCP connection.  The callbacks find the client through the *)
(* espconn they are given, so those of an orphan act on the client as it    *)
(* now is: each handler is stated apart from the event that calls it.       *)

\* Mutant: the client takes the connection for a session.
ConnectedAtOnce ==
    /\ connState' = "MQTT_DATA"
    /\ pending_msg_type' = "CONNECT"
    /\ sendTimeout' = SEND_TIMEOUT
    /\ posted' = TRUE
    /\ UNCHANGED <<mqttTimer, keepAliveTick, reconnectTick>>

\* CONNECT goes to the client's espconn, whichever called back.
mqtt_tcpclient_connect_cb ==
    /\ connState' = "MQTT_CONNECT_SENDING"
    /\ pending_msg_type' = "CONNECT"
    /\ sendTimeout' = SEND_TIMEOUT
    /\ posted' = TRUE
    /\ UNCHANGED <<mqttTimer, keepAliveTick, reconnectTick>>

\* mqtt_tcpclient_discon_cb and mqtt_tcpclient_recon_cb do the same to the
\* client, mqttDisconnectedCb only writing to the console.
mqtt_tcpclient_lost_cb ==
    /\ connState' = "TCP_RECONNECT_REQ"
    /\ posted' = TRUE
    /\ UNCHANGED <<mqttTimer, keepAliveTick, reconnectTick, sendTimeout,
                   pending_msg_type>>

\* Mutant: the client goes on waiting.
DnsFailureIgnored ==
    UNCHANGED <<connState, posted, mqttTimer, keepAliveTick, reconnectTick, sendTimeout,
                pending_msg_type, unsent, broker>>

\* mqtt_dns_found with no address: nobody is woken, the timer will see.
mqtt_dns_failed ==
    /\ connState' = "TCP_RECONNECT_REQ"
    /\ UNCHANGED <<posted, mqttTimer, keepAliveTick, reconnectTick, sendTimeout,
                   pending_msg_type, unsent, broker>>

\* mqtt_dns_found with an address; it connects the client's espconn,
\* whichever the lookup was for, which fails when that one is in use.
mqtt_dns_found ==
    /\ connState' = "TCP_CONNECTING"
    /\ posted' = TRUE
    /\ pCon' = IF pCon = "open" THEN "open" ELSE "opening"
    /\ UNCHANGED <<mqttTimer, keepAliveTick, reconnectTick, sendTimeout,
                   pending_msg_type, unsent, broker>>

NameFound ==
    /\ pCon = "looking"
    /\ link = "up"
    /\ mqtt_dns_found
    /\ UNCHANGED <<queue, lastWifiStatus, link, orphans, faults, subLost, outageLoss>>
    /\ skipped' = FALSE

NameUnknown ==
    /\ pCon = "looking"
    /\ \/ /\ faults > 0
          /\ faults' = faults - 1
       \/ /\ link = "down"
          /\ UNCHANGED faults
    /\ pCon' = "over"
    /\ mqtt_dns_failed
    /\ UNCHANGED <<queue, lastWifiStatus, link, orphans, subLost, outageLoss>>
    /\ skipped' = FALSE

TcpOpened ==
    /\ pCon = "opening"
    /\ link = "up"
    /\ pCon' = "open"
    /\ unsent' = 1
    /\ broker' = "connecting"
    /\ mqtt_tcpclient_connect_cb
    /\ UNCHANGED <<queue, lastWifiStatus, link, orphans, faults, subLost, outageLoss>>
    /\ skipped' = FALSE

TcpLost ==
    /\ pCon \in {"opening", "open"}
    /\ \/ /\ faults > 0
          /\ faults' = faults - 1
       \/ /\ link = "down" \/ (pCon = "open" /\ broker \in {"none", "refused"})
          /\ UNCHANGED faults
    /\ pCon' = "over"
    /\ unsent' = 0
    /\ broker' = "none"
    /\ mqtt_tcpclient_lost_cb
    /\ UNCHANGED <<queue, lastWifiStatus, link, orphans, subLost, outageLoss>>
    /\ skipped' = FALSE

OrphanOpened ==
    /\ "opening" \in orphans
    /\ link = "up"
    /\ orphans' = (orphans \ {"opening"}) \cup {"open"}
    /\ espconn_sent("CONNECT")
    /\ mqtt_tcpclient_connect_cb
    /\ UNCHANGED <<pCon, queue, lastWifiStatus, link, faults, outageLoss>>
    /\ skipped' = FALSE

\* Answered before its own, a lookup under way becomes as good as orphaned.
OrphanNameFound ==
    /\ "looking" \in orphans
    /\ link = "up"
    /\ pCon # "NULL"
    /\ mqtt_dns_found
    /\ orphans' = IF pCon = "looking" THEN orphans ELSE orphans \ {"looking"}
    /\ UNCHANGED <<queue, lastWifiStatus, link, faults, subLost, outageLoss>>
    /\ skipped' = FALSE

\* The address is written through a NULL pointer: an exception.
OrphanNameCrash ==
    /\ "looking" \in orphans
    /\ link = "up"
    /\ pCon = "NULL"
    /\ Boot
    /\ UNCHANGED faults

OrphanNameUnknown ==
    /\ "looking" \in orphans
    /\ orphans' = orphans \ {"looking"}
    /\ mqtt_dns_failed
    /\ UNCHANGED <<pCon, queue, lastWifiStatus, link, faults, subLost, outageLoss>>
    /\ skipped' = FALSE

OrphanLost ==
    /\ \E kind \in orphans \ {"looking"} : orphans' = orphans \ {kind}
    /\ mqtt_tcpclient_lost_cb
    /\ UNCHANGED <<pCon, unsent, broker, queue, lastWifiStatus, link, faults, subLost, outageLoss>>
    /\ skipped' = FALSE

\* Mutant: the gate is opened and nobody woken.
SentUnposted ==
    /\ sendTimeout' = 0
    /\ outageLoss' = 0
    /\ UNCHANGED <<posted, connState, pCon, mqttTimer, keepAliveTick, reconnectTick,
                   queue, pending_msg_type, lastWifiStatus, link, broker, orphans,
                   faults, subLost>>
    /\ skipped' = FALSE

\* The oldest packet under way is reported as sent.
mqtt_tcpclient_sent_cb ==
    /\ sendTimeout' = 0
    /\ posted' = TRUE
    /\ outageLoss' = 0
    /\ UNCHANGED <<connState, pCon, mqttTimer, keepAliveTick, reconnectTick, queue,
                   pending_msg_type, lastWifiStatus, link, broker, orphans, faults,
                   subLost>>
    /\ skipped' = FALSE

TcpSent ==
    /\ pCon = "open"
    /\ unsent > 0
    /\ unsent' = unsent - 1
    /\ mqtt_tcpclient_sent_cb

OrphanSent ==
    /\ "open" \in orphans
    /\ mqtt_tcpclient_sent_cb
    /\ UNCHANGED unsent

-----------------------------------------------------------------------------
(* Data from the broker.  A segment is one or two packets; which ones the   *)
(* broker can send depends on the session.  ACK stands for those that       *)
(* change nothing: PUBACK and PINGRESP; REFUSAL is a CONNACK whose return   *)
(* code refuses the session, after which a broker closes the connection.    *)

Segments(session) ==
    CASE session = "connecting" -> { <<"CONNACK">>, <<"REFUSAL">> }
      [] session = "accepted" -> { <<"ACK">> }
      [] session = "subscribing" -> { <<"SUBACK">>, <<"SUBACK", "PUBLISH">>, <<"ACK">> }
      [] session = "subscribed" ->
            { <<"PUBLISH">>, <<"PUBLISH", "PUBLISH">>, <<"PUBLISH", "ACK">>,
              <<"ACK">>, <<"ACK", "PUBLISH">> }
      [] OTHER -> {}

Answered(segment) ==
    CASE segment[1] = "CONNACK" -> "accepted"
      [] segment[1] = "REFUSAL" -> "refused"
      [] segment[1] = "SUBACK" -> "subscribed"
      [] OTHER -> broker

\* In MQTT_DATA the handler goes on to the next packet of the segment after a
\* PUBLISH only.
Examined(segment) ==
    IF segment[1] = "PUBLISH" THEN 1 .. Len(segment) ELSE {1}

\* What the client takes for a CONNACK: it looks at the type, not at the code.
Connacks == {"CONNACK", "REFUSAL"}

\* Mutant: the session starts without a subscription.
ConnackUnsubscribed(segment, session) ==
    /\ connState = "MQTT_CONNECT_SENDING"
    /\ segment[1] \in Connacks
    /\ connState' = "MQTT_DATA"
    /\ broker' = session
    /\ subLost' = FALSE
    /\ UNCHANGED queue
    /\ skipped' = FALSE

\* The first CONNACK, whatever it says, starts the session for the client:
\* mqttConnectedCb subscribes.  Not expecting one ("Invalid packet"), the
\* client closes its connection.
RecvConnack(segment, session) ==
    /\ connState = "MQTT_CONNECT_SENDING"
    /\ segment[1] \in Connacks
    /\ IF pending_msg_type # "CONNECT"
       THEN /\ broker' = "none"
            /\ UNCHANGED <<connState, queue, subLost>>
       ELSE /\ connState' = "MQTT_DATA"
            /\ queue' \in Enqueued("SUBSCRIBE")
            /\ subLost' = ~Holds(queue', "SUBSCRIBE")
            /\ broker' = session
    /\ skipped' = FALSE

RecvOther(segment, session) ==
    /\ connState = "MQTT_CONNECT_SENDING" => segment[1] \notin Connacks
    /\ broker' = session
    /\ skipped' = ( /\ connState = "MQTT_DATA"
                    /\ \E i \in DOMAIN segment \ Examined(segment) :
                          segment[i] = "PUBLISH" )
    /\ UNCHANGED <<connState, queue, subLost>>

mqtt_tcpclient_recv(segment, session) ==
    /\ RecvConnack(segment, session) \/ RecvOther(segment, session)
    /\ posted' = TRUE
    /\ UNCHANGED <<pCon, mqttTimer, keepAliveTick, reconnectTick, sendTimeout, unsent,
                   pending_msg_type, lastWifiStatus, link, orphans, outageLoss>>

\* A refusal counts as a failure.
TcpReceived ==
    /\ pCon = "open"
    /\ link = "up"
    /\ \E segment \in Segments(broker) :
          /\ IF segment = <<"REFUSAL">>
             THEN faults > 0 /\ faults' = faults - 1
             ELSE UNCHANGED faults
          /\ mqtt_tcpclient_recv(segment, Answered(segment))

OrphanReceived ==
    /\ "open" \in orphans
    /\ link = "up"
    /\ \E segment \in UNION { Segments(session) : session \in BrokerStates } :
          mqtt_tcpclient_recv(segment, broker)
    /\ UNCHANGED faults

-----------------------------------------------------------------------------
LinkUp ==
    /\ link = "down"
    /\ link' = "up"
    /\ UNCHANGED <<client, queue, pending_msg_type, posted, lastWifiStatus, tcp,
                   faults, subLost, outageLoss>>
    /\ skipped' = FALSE

LinkDown ==
    /\ link = "up"
    /\ faults > 0
    /\ link' = "down"
    /\ faults' = faults - 1
    /\ UNCHANGED <<client, queue, pending_msg_type, posted, lastWifiStatus, tcp,
                   subLost, outageLoss>>
    /\ skipped' = FALSE

\* A power failure, or the watchdog.
Restart ==
    /\ faults > 0
    /\ faults' = faults - 1
    /\ Boot

Program == wifi_check_ip \/ MQTT_Publish \/ MQTT_Task \/ mqtt_timer
Connection == NameFound \/ NameUnknown \/ TcpOpened \/ TcpLost \/ TcpSent \/ TcpReceived
Orphan == OrphanNameFound \/ OrphanNameUnknown \/ OrphanOpened \/ OrphanLost \/ OrphanSent \/ OrphanReceived
Link == LinkUp \/ LinkDown

Reboot == Restart \/ OrphanNameCrash

Next == Program \/ Connection \/ Orphan \/ Link \/ Reboot

Spec == Init /\ [][Next]_vars

(* What the system owes the client: its timers fire, its task runs once     *)
(* posted, a lookup and an attempt to connect on a working link end, bytes  *)
(* sent are acknowledged, the broker answers CONNECT and SUBSCRIBE, and     *)
(* closes a connection it has refused.  The task runs milliseconds after    *)
(* the post and a ping is sent once in KEEPALIVE seconds: the ping may      *)
(* close the gate between a post and the task, but not every time, hence    *)
(* the strong fairness of a send.                                           *)
Fairness ==
    /\ WF_vars(wifi_check_ip)
    /\ WF_vars(MQTT_Task)
    /\ SF_vars(MQTT_Task /\ TaskSend)
    /\ WF_vars(mqtt_timer)
    /\ WF_vars(LinkUp)
    /\ WF_vars(NameFound)
    /\ WF_vars(TcpOpened)
    /\ WF_vars(TcpSent)
    /\ WF_vars(TcpReceived /\ broker' # broker)
    /\ WF_vars(TcpLost /\ broker = "refused")

FairSpec == Spec /\ Fairness

-----------------------------------------------------------------------------
(* Properties.                                                              *)

TypeOK ==
    /\ connState \in ConnStates
    /\ pCon \in PConStates
    /\ mqttTimer \in BOOLEAN
    /\ keepAliveTick \in 0 .. KEEPALIVE
    /\ reconnectTick \in 0 .. RECONNECT_TIMEOUT
    /\ sendTimeout \in 0 .. SEND_TIMEOUT
    /\ queue \in Seq(Queued) /\ Len(queue) <= QueueLen
    /\ pending_msg_type \in Packets \cup {"none"}
    /\ posted \in BOOLEAN
    /\ lastWifiStatus \in {"up", "down"} /\ link \in {"up", "down"}
    /\ unsent \in 0 .. MaxUnsent
    /\ broker \in BrokerStates
    /\ orphans \subseteq InUse
    /\ faults \in 0 .. MaxFaults
    /\ outageLoss \in 0 .. 2
    /\ subLost \in BOOLEAN /\ skipped \in BOOLEAN

\* The state TCP_RECONNECT is left by the task alone, and nothing else posts
\* while it lasts: the wakeup the timer gave is still there (mqtt.c:294-301).
NoLostWakeup == connState = "TCP_RECONNECT" => posted

\* The gate of the queue is opened by the timer without a post (mqtt.c:302):
\* with a packet waiting and the task asleep, a send must be under way whose
\* callback will wake it.
NoStall ==
    connState = "MQTT_DATA" /\ pCon = "open" /\ queue # <<>> /\ ~posted
        => unsent > 0

\* While Wi-Fi is up as far as the poll knows, the client has a lookup, an
\* attempt or a connection under way, or is in one of the states from which
\* it makes a new one; and the timer that would take it there runs.
Trying ==
    lastWifiStatus = "up"
        => /\ mqttTimer
           /\ pCon \in InUse \/ connState \in {"TCP_RECONNECT_REQ", "TCP_RECONNECT"}

\* One thing alone takes that from the client: the connect callback of a
\* connection freed before it was made, which puts the client, its own
\* connection over, in a state that neither timer nor task leaves
\* (mqtt.c:326-354 with 264-304, 440-447, 604-615).
OnlyLateConnectStrands == [][ Trying /\ ~Trying' => OrphanOpened ]_vars

\* CONNECT stays the last packet sent until it is answered, whatever is
\* published meanwhile: "Invalid packet" is never printed (mqtt.c:137-146).
ConnectPending == connState = "MQTT_CONNECT_SENDING" => pending_msg_type = "CONNECT"

\* A session that is not subscribed has its SUBSCRIBE waiting, unless the
\* queue or the connection lost it (mqtt.c:415-433, user_main.c:163-167).
SubscribeWaits ==
    connState = "MQTT_DATA" /\ pCon = "open" /\ broker = "accepted"
        => Holds(queue, "SUBSCRIBE") \/ subLost

\* The task goes on sending after Wi-Fi is lost, to no connection; but the
\* timer is stopped, so the gate that the first send closes stays closed until
\* a late callback of the connection torn down opens it: an outage costs one
\* packet, and one more for each such callback, not the queue (mqtt.c:251-257,
\* 449-468, 604-615).
OneLostPerOpening == outageLoss <= 1

\* No packet of the queue goes out on a connection before the broker has
\* answered the CONNECT sent on it.  More the code does not promise: it takes
\* a refusal for an acceptance and sends into it, and the CONNACK of a freed
\* connection, were there one, for its own (mqtt.c:137-155, 440-447, 449-468).
NothingBeforeConnack ==
    [][ MQTT_Task /\ TaskSend /\ unsent' > unsent
          => broker \notin {"none", "connecting"} ]_vars

\* Once the failures are over the client is connected for good, and
\* subscribed, unless its SUBSCRIBE was lost.
EventuallySubscribed ==
    <>[]( /\ connState = "MQTT_DATA"
          /\ pCon = "open"
          /\ broker = "subscribed" \/ subLost )

SessionSeen ==
    IF broker \in {"none", "connecting", "refused"} THEN "offline" ELSE broker

Session == INSTANCE MqttSession WITH Packets <- {"PUBLISH"}, session <- SessionSeen

\* To the program that uses it, the client is a queue emptied in order and a
\* session that comes and goes: no callback, in whatever order, does anything
\* else to the two (mqtt.c as a whole).
ImplementsSession == Session!Spec

\* And it never rests: it is not offline for good, a queue that stays filled
\* is served again and again, a SUBSCRIBE sent is answered.
SessionGoesOn == Session!Fairness

\* README.md:47 "the device receives settings from it": every PUBLISH that
\* arrives is looked at.
NoSettingSkipped == ~skipped

=============================================================================
