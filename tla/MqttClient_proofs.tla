------------------------- MODULE MqttClient_proofs -------------------------
(* Proofs about MqttClient for every value of the timers, every length of    *)
(* the queue and any number of failures.                                     *)
EXTENDS MqttClient, SequenceTheorems, TLAPS

(***************************************************************************)
(* Type correctness.                                                       *)
(***************************************************************************)

\* Whatever gives way on an overflow, the queue holds packets and no more of
\* them than it has room for.
LEMMA EnqueuedType ==
    ASSUME queue \in Seq(Queued), Len(queue) <= QueueLen,
           NEW packet \in Queued, NEW s \in Enqueued(packet)
    PROVE  s \in Seq(Queued) /\ Len(s) <= QueueLen
<1> QueueLen \in Nat \ {0}
  BY TimesAssumption
<1>1. CASE Len(queue) < QueueLen
  <2>1. s = Append(queue, packet)
    BY <1>1 DEF Enqueued
  <2> QED BY <1>1, <2>1
<1>2. CASE ~(Len(queue) < QueueLen) /\ s = <<>>
  BY <1>2
<1>3. CASE ~(Len(queue) < QueueLen) /\ s # <<>>
  <2>1. Len(queue) = QueueLen
    BY <1>3
  <2>2. PICK n \in 2 .. QueueLen + 1 : s = Append(SubSeq(queue, n, QueueLen), packet)
    BY <1>3 DEF Enqueued
  <2>3. /\ SubSeq(queue, n, QueueLen) \in Seq(Queued)
        /\ Len(SubSeq(queue, n, QueueLen)) = IF n <= QueueLen THEN QueueLen - n + 1 ELSE 0
    BY <2>1, SubSeqProperties
  <2> QED BY <2>2, <2>3
<1> QED BY <1>1, <1>2, <1>3

\* A send leaves what it touches well typed.
LEMMA SentType ==
    ASSUME TypeOK, NEW packet, espconn_sent(packet)
    PROVE  unsent' \in 0 .. MaxUnsent /\ broker' \in BrokerStates /\ subLost' \in BOOLEAN
<1>1. Delivered(packet) \in BrokerStates
  BY DEF Delivered, BrokerStates, TypeOK
<1>2. unsent' \in 0 .. MaxUnsent /\ broker' \in BrokerStates
  BY <1>1 DEF TypeOK, espconn_sent, MaxUnsent
<1>3. subLost' \in BOOLEAN
  BY Zenon DEF TypeOK, espconn_sent
<1> QED BY <1>2, <1>3

\* So does the teardown every new connection begins with.
LEMMA ForgetType ==
    ASSUME TypeOK, Forget
    PROVE  /\ orphans' \subseteq InUse
           /\ unsent' \in 0 .. MaxUnsent
           /\ broker' \in BrokerStates
<1>1. Orphaned \subseteq orphans \cup ({pCon} \cap InUse)
  BY Zenon DEF Orphaned
<1>2. orphans' \subseteq InUse
  BY <1>1 DEF TypeOK, Forget
<1>3. unsent' \in 0 .. MaxUnsent /\ broker' \in BrokerStates
  BY DEF Forget, MaxUnsent, BrokerStates
<1> QED BY <1>2, <1>3

LEMMA InitType == Init => TypeOK
<1> SUFFICES ASSUME Init PROVE TypeOK
  OBVIOUS
<1>1. {mqttTimer, posted, subLost, skipped} \subseteq BOOLEAN
  BY Zenon DEF Init
<1>2. /\ connState \in ConnStates
      /\ pCon \in PConStates
      /\ broker \in BrokerStates
      /\ queue \in Seq(Queued)
      /\ Len(queue) <= QueueLen
  BY TimesAssumption DEF Init, ConnStates, PConStates, InUse, BrokerStates
<1>3. /\ keepAliveTick \in 0 .. KEEPALIVE
      /\ reconnectTick \in 0 .. RECONNECT_TIMEOUT
      /\ sendTimeout \in 0 .. SEND_TIMEOUT
      /\ faults \in 0 .. MaxFaults
      /\ unsent \in 0 .. MaxUnsent
      /\ outageLoss \in 0 .. 2
  BY TimesAssumption, FaultsAssumption DEF Init, MaxUnsent
<1> QED BY <1>1, <1>2, <1>3 DEF Init, TypeOK, InUse


\* TypeOK in two parts: the flags, and the rest.
FlagsOK ==
    mqttTimer \in BOOLEAN /\ posted \in BOOLEAN /\ subLost \in BOOLEAN /\ skipped \in BOOLEAN

DataOK ==
    /\ connState \in ConnStates
    /\ pCon \in PConStates
    /\ keepAliveTick \in 0 .. KEEPALIVE
    /\ reconnectTick \in 0 .. RECONNECT_TIMEOUT
    /\ sendTimeout \in 0 .. SEND_TIMEOUT
    /\ queue \in Seq(Queued) /\ Len(queue) <= QueueLen
    /\ pending_msg_type \in Packets \cup {"none"}
    /\ lastWifiStatus \in {"up", "down"} /\ link \in {"up", "down"}
    /\ unsent \in 0 .. MaxUnsent
    /\ broker \in BrokerStates
    /\ orphans \subseteq InUse
    /\ faults \in 0 .. MaxFaults
    /\ outageLoss \in 0 .. 2

LEMMA TypeSplit == TypeOK <=> FlagsOK /\ DataOK
BY Zenon DEF TypeOK, FlagsOK, DataOK

LEMMA ConnectType ==
    ASSUME TypeOK, MQTT_Connect
    PROVE  /\ mqttTimer' \in BOOLEAN
           /\ connState' \in ConnStates /\ pCon' \in PConStates
           /\ keepAliveTick' \in 0 .. KEEPALIVE
           /\ reconnectTick' \in 0 .. RECONNECT_TIMEOUT
           /\ sendTimeout' \in 0 .. SEND_TIMEOUT
<1>1. mqttTimer' \in BOOLEAN
  BY Zenon DEF MQTT_Connect
<1> Attempt \in PConStates
  BY DEF Attempt, PConStates, InUse
<1>2. /\ connState' \in ConnStates /\ pCon' \in PConStates
      /\ keepAliveTick' \in 0 .. KEEPALIVE
      /\ reconnectTick' \in 0 .. RECONNECT_TIMEOUT
      /\ sendTimeout' \in 0 .. SEND_TIMEOUT
  BY TimesAssumption DEF MQTT_Connect, TypeOK, ConnStates
<1> QED BY <1>1, <1>2

LEMMA DisconnectType ==
    ASSUME TypeOK, MQTT_Disconnect
    PROVE  /\ mqttTimer' \in BOOLEAN
           /\ connState' \in ConnStates /\ pCon' \in PConStates
           /\ keepAliveTick' \in 0 .. KEEPALIVE
           /\ reconnectTick' \in 0 .. RECONNECT_TIMEOUT
           /\ sendTimeout' \in 0 .. SEND_TIMEOUT
<1>1. mqttTimer' \in BOOLEAN
  BY Zenon DEF MQTT_Disconnect
<1>2. /\ connState' \in ConnStates /\ pCon' \in PConStates
      /\ keepAliveTick' \in 0 .. KEEPALIVE
      /\ reconnectTick' \in 0 .. RECONNECT_TIMEOUT
      /\ sendTimeout' \in 0 .. SEND_TIMEOUT
  BY DEF MQTT_Disconnect, TypeOK, PConStates
<1> QED BY <1>1, <1>2

\* The poll, the task and the timer keep the types.
LEMMA ProgramType == TypeOK /\ Program => TypeOK'
<1> SUFFICES ASSUME TypeOK, Program PROVE FlagsOK' /\ DataOK'
  BY TypeSplit, PTL
<1> USE TimesAssumption
<1> FlagsOK /\ DataOK
  BY TypeSplit
<1>1. CASE wifi_check_ip
  <2>1. MQTT_Connect \/ MQTT_Disconnect
    BY <1>1 DEF wifi_check_ip, wifiConnectCb
  <2>2. Forget
    BY <2>1 DEF MQTT_Connect, MQTT_Disconnect
  <2>3. /\ mqttTimer' \in BOOLEAN
        /\ connState' \in ConnStates /\ pCon' \in PConStates
        /\ keepAliveTick' \in 0 .. KEEPALIVE
        /\ reconnectTick' \in 0 .. RECONNECT_TIMEOUT
        /\ sendTimeout' \in 0 .. SEND_TIMEOUT
    BY <2>1, ConnectType, DisconnectType
  <2>4. FlagsOK'
    BY <1>1, <2>3, Zenon DEF wifi_check_ip, FlagsOK
  <2>5. DataOK'
    BY <1>1, <2>2, <2>3, ForgetType DEF wifi_check_ip, DataOK
  <2> QED BY <2>4, <2>5
<1>2. CASE MQTT_Publish
  <2>1. FlagsOK'
    BY <1>2, Zenon DEF MQTT_Publish, client, tcp, FlagsOK
  <2>2. queue' \in Seq(Queued) /\ Len(queue') <= QueueLen
    BY <1>2, EnqueuedType DEF MQTT_Publish, DataOK, Queued
  <2>3. DataOK'
    BY <1>2, <2>2 DEF MQTT_Publish, client, tcp, DataOK
  <2> QED BY <2>1, <2>3
<1>3. CASE MQTT_Task /\ TaskReconnect
  <2>1. MQTT_Connect /\ Forget
    BY <1>3 DEF TaskReconnect, MQTT_Connect
  <2>2. FlagsOK'
    BY <1>3, <2>1, ConnectType, Zenon DEF MQTT_Task, TaskReconnect, FlagsOK
  <2>3. DataOK'
    BY <1>3, <2>1, ConnectType, ForgetType DEF MQTT_Task, TaskReconnect, DataOK
  <2> QED BY <2>2, <2>3
<1>4. CASE MQTT_Task /\ TaskSend
  <2>1. espconn_sent(Head(queue))
    BY <1>4 DEF TaskSend
  <2>2. FlagsOK'
    BY <1>4, <2>1, SentType, Zenon DEF MQTT_Task, TaskSend, FlagsOK
  <2>3. /\ Head(queue) \in Queued
        /\ queue' \in Seq(Queued) /\ Len(queue') <= QueueLen
    BY <1>4, HeadTailProperties DEF TaskSend, DataOK
  <2>4. DataOK'
    BY <1>4, <2>1, <2>3, SentType DEF MQTT_Task, TaskSend, DataOK, Packets
  <2> QED BY <2>2, <2>4
<1>5. CASE MQTT_Task /\ TaskNothing
  <2>1. FlagsOK'
    BY <1>5, Zenon DEF MQTT_Task, TaskNothing, client, FlagsOK
  <2>2. DataOK'
    BY <1>5 DEF MQTT_Task, TaskNothing, client, tcp, DataOK
  <2> QED BY <2>1, <2>2
<1>6. CASE mqtt_timer /\ TimerPing
  <2>1. espconn_sent("PINGREQ")
    BY <1>6 DEF TimerPing
  <2>2. FlagsOK'
    BY <1>6, <2>1, SentType, Zenon DEF mqtt_timer, TimerPing, FlagsOK
  <2>3. DataOK'
    BY <1>6, <2>1, SentType DEF mqtt_timer, TimerPing, CountedDown, DataOK, Packets
  <2> QED BY <2>2, <2>3
<1>7. CASE mqtt_timer /\ TimerReconnect
  <2>1. FlagsOK'
    BY <1>7, Zenon DEF mqtt_timer, TimerReconnect, FlagsOK
  <2>2. DataOK'
    BY <1>7 DEF mqtt_timer, TimerReconnect, CountedDown, DataOK, ConnStates
  <2> QED BY <2>1, <2>2
<1>8. CASE mqtt_timer /\ TimerCount
  <2>1. FlagsOK'
    BY <1>8, Zenon DEF mqtt_timer, TimerCount, FlagsOK
  <2>2. DataOK'
    BY <1>8 DEF mqtt_timer, TimerCount, CountedDown, DataOK
  <2> QED BY <2>1, <2>2
<1> QED
  BY <1>1, <1>2, <1>3, <1>4, <1>5, <1>6, <1>7, <1>8 DEF Program, MQTT_Task, mqtt_timer

\* Data from the broker keeps the types, whichever connection it came on.
LEMMA ReceivedType ==
    ASSUME TypeOK, NEW segment, NEW session \in BrokerStates,
           mqtt_tcpclient_recv(segment, session), faults' \in 0 .. MaxFaults
    PROVE  FlagsOK' /\ DataOK'
<1> FlagsOK /\ DataOK
  BY TypeSplit
<1>1. CASE RecvConnack(segment, session)
  <2>1. subLost' \in BOOLEAN /\ skipped' \in BOOLEAN
    BY <1>1, Zenon DEF RecvConnack, FlagsOK
  <2>2. queue' \in Seq(Queued) /\ Len(queue') <= QueueLen
    <3>1. CASE queue' \in Enqueued("SUBSCRIBE")
      BY <3>1, EnqueuedType DEF DataOK, Queued
    <3>2. CASE queue' = queue
      BY <3>2 DEF DataOK
    <3> QED BY <1>1, <3>1, <3>2 DEF RecvConnack
  <2>3. connState' \in ConnStates /\ broker' \in BrokerStates
    BY <1>1 DEF RecvConnack, DataOK, ConnStates, BrokerStates
  <2>4. FlagsOK'
    BY <2>1, Zenon DEF mqtt_tcpclient_recv, FlagsOK
  <2>5. DataOK'
    BY <2>2, <2>3 DEF mqtt_tcpclient_recv, DataOK
  <2> QED BY <2>4, <2>5
<1>2. CASE RecvOther(segment, session)
  <2>1. subLost' \in BOOLEAN /\ skipped' \in BOOLEAN
    BY <1>2, Zenon DEF RecvOther, FlagsOK
  <2>2. FlagsOK'
    BY <2>1, Zenon DEF mqtt_tcpclient_recv, FlagsOK
  <2>3. DataOK'
    BY <1>2 DEF RecvOther, mqtt_tcpclient_recv, DataOK
  <2> QED BY <2>2, <2>3
<1> QED BY <1>1, <1>2 DEF mqtt_tcpclient_recv

\* The events of the client's connection keep the types.
LEMMA ConnectionType == TypeOK /\ Connection => TypeOK'
<1> SUFFICES ASSUME TypeOK, Connection PROVE FlagsOK' /\ DataOK'
  BY TypeSplit, PTL
<1> USE TimesAssumption
<1> FlagsOK /\ DataOK
  BY TypeSplit
<1>5. CASE NameFound
  <2>1. FlagsOK'
    BY <1>5, Zenon DEF NameFound, mqtt_dns_found, FlagsOK
  <2>2. DataOK'
    BY <1>5 DEF NameFound, mqtt_dns_found, DataOK, ConnStates, PConStates, InUse
  <2> QED BY <2>1, <2>2
<1>6. CASE NameUnknown
  <2>1. FlagsOK'
    BY <1>6, Zenon DEF NameUnknown, mqtt_dns_failed, FlagsOK
  <2>2. DataOK'
    BY <1>6, FaultsAssumption
       DEF NameUnknown, mqtt_dns_failed, DataOK, ConnStates, PConStates
  <2> QED BY <2>1, <2>2
<1>1. CASE TcpOpened
  <2>1. FlagsOK'
    BY <1>1, Zenon DEF TcpOpened, mqtt_tcpclient_connect_cb, FlagsOK
  <2>2. DataOK'
    BY <1>1 DEF TcpOpened, mqtt_tcpclient_connect_cb, DataOK, MaxUnsent,
                ConnStates, PConStates, InUse, BrokerStates, Packets
  <2> QED BY <2>1, <2>2
<1>2. CASE TcpLost
  <2>1. FlagsOK'
    BY <1>2, Zenon DEF TcpLost, mqtt_tcpclient_lost_cb, FlagsOK
  <2>2. DataOK'
    BY <1>2, FaultsAssumption
       DEF TcpLost, mqtt_tcpclient_lost_cb, DataOK, MaxUnsent,
           ConnStates, PConStates, BrokerStates
  <2> QED BY <2>1, <2>2
<1>3. CASE TcpSent
  <2>1. FlagsOK'
    BY <1>3, Zenon DEF TcpSent, mqtt_tcpclient_sent_cb, FlagsOK
  <2>2. DataOK'
    BY <1>3 DEF TcpSent, mqtt_tcpclient_sent_cb, DataOK, MaxUnsent
  <2> QED BY <2>1, <2>2
<1>4. CASE TcpReceived
  <2>1. PICK segment \in Segments(broker) :
              mqtt_tcpclient_recv(segment, Answered(segment))
    BY <1>4 DEF TcpReceived
  <2>2. Answered(segment) \in BrokerStates
    BY DEF Answered, BrokerStates, DataOK
  <2>3. faults' \in 0 .. MaxFaults
    <3>1. faults' = faults \/ (faults > 0 /\ faults' = faults - 1)
      BY <1>4 DEF TcpReceived
    <3> QED BY <3>1, FaultsAssumption DEF DataOK
  <2> QED BY <2>1, <2>2, <2>3, ReceivedType
<1> QED BY <1>1, <1>2, <1>3, <1>4, <1>5, <1>6 DEF Connection

\* Nor do those of a connection whose espconn was freed break them.
LEMMA OrphanType == TypeOK /\ Orphan => TypeOK'
<1> SUFFICES ASSUME TypeOK, Orphan PROVE FlagsOK' /\ DataOK'
  BY TypeSplit, PTL
<1> USE TimesAssumption
<1> FlagsOK /\ DataOK
  BY TypeSplit
<1>5. CASE OrphanNameFound
  <2>1. FlagsOK'
    BY <1>5, Zenon DEF OrphanNameFound, mqtt_dns_found, FlagsOK
  <2>2. DataOK'
    BY <1>5 DEF OrphanNameFound, mqtt_dns_found, DataOK, ConnStates, PConStates, InUse
  <2> QED BY <2>1, <2>2
<1>6. CASE OrphanNameUnknown
  <2>1. FlagsOK'
    BY <1>6, Zenon DEF OrphanNameUnknown, mqtt_dns_failed, FlagsOK
  <2>2. DataOK'
    BY <1>6 DEF OrphanNameUnknown, mqtt_dns_failed, DataOK, ConnStates
  <2> QED BY <2>1, <2>2
<1>1. CASE OrphanOpened
  <2>1. espconn_sent("CONNECT")
    BY <1>1 DEF OrphanOpened
  <2>2. FlagsOK'
    BY <1>1, <2>1, SentType, Zenon DEF OrphanOpened, mqtt_tcpclient_connect_cb, FlagsOK
  <2>3. DataOK'
    BY <1>1, <2>1, SentType
       DEF OrphanOpened, mqtt_tcpclient_connect_cb, DataOK, ConnStates, InUse, Packets
  <2> QED BY <2>2, <2>3
<1>2. CASE OrphanLost
  <2>1. FlagsOK'
    BY <1>2, Zenon DEF OrphanLost, mqtt_tcpclient_lost_cb, FlagsOK
  <2>2. DataOK'
    BY <1>2 DEF OrphanLost, mqtt_tcpclient_lost_cb, DataOK, ConnStates
  <2> QED BY <2>1, <2>2
<1>3. CASE OrphanSent
  <2>1. FlagsOK'
    BY <1>3, Zenon DEF OrphanSent, mqtt_tcpclient_sent_cb, FlagsOK
  <2>2. DataOK'
    BY <1>3 DEF OrphanSent, mqtt_tcpclient_sent_cb, DataOK
  <2> QED BY <2>1, <2>2
<1>4. CASE OrphanReceived
  <2>1. \E segment : mqtt_tcpclient_recv(segment, broker)
    BY <1>4 DEF OrphanReceived
  <2>2. broker \in BrokerStates /\ faults' \in 0 .. MaxFaults
    BY <1>4 DEF OrphanReceived, DataOK
  <2> QED BY <2>1, <2>2, ReceivedType
<1> QED BY <1>1, <1>2, <1>3, <1>4, <1>5, <1>6 DEF Orphan

LEMMA LinkType == TypeOK /\ Link => TypeOK'
<1> SUFFICES ASSUME TypeOK, Link PROVE FlagsOK' /\ DataOK'
  BY TypeSplit, PTL
<1> FlagsOK /\ DataOK
  BY TypeSplit
<1>1. FlagsOK'
  BY Zenon DEF Link, LinkUp, LinkDown, client, FlagsOK
<1>2. MaxFaults \in Nat
  BY Zenon, FaultsAssumption
<1>3. /\ link' \in {"up", "down"} /\ faults' \in 0 .. MaxFaults
      /\ UNCHANGED <<client, queue, pending_msg_type, lastWifiStatus, tcp, outageLoss>>
  BY <1>2 DEF Link, LinkUp, LinkDown, DataOK
<1>4. DataOK'
  BY <1>3 DEF client, tcp, DataOK
<1> QED BY <1>1, <1>4

\* A restart begins as the first start did, with the failures still to come.
LEMMA RebootType == TypeOK /\ Reboot => TypeOK'
<1> SUFFICES ASSUME TypeOK, Reboot PROVE FlagsOK' /\ DataOK'
  BY TypeSplit, PTL
<1>1. Boot
  BY DEF Reboot, Restart, OrphanNameCrash
<1>2. FlagsOK'
  BY <1>1, Zenon DEF Boot, FlagsOK
<1>3. faults' \in 0 .. MaxFaults
  BY FaultsAssumption DEF Reboot, Restart, OrphanNameCrash, TypeOK
<1>4. DataOK'
  BY <1>1, <1>3, TimesAssumption
     DEF Boot, DataOK, ConnStates, PConStates, BrokerStates, MaxUnsent
<1> QED BY <1>2, <1>4

LEMMA StutterType == TypeOK /\ UNCHANGED vars => TypeOK'
<1> SUFFICES ASSUME TypeOK, UNCHANGED vars PROVE FlagsOK' /\ DataOK'
  BY TypeSplit, PTL
<1> FlagsOK /\ DataOK
  BY TypeSplit
<1>1. FlagsOK'
  BY Zenon DEF vars, client, FlagsOK
<1>2. DataOK'
  BY DEF vars, client, tcp, DataOK
<1> QED BY <1>1, <1>2

\* Every state the client reaches is well typed: in particular the ticks never
\* pass the times they are compared with and the queue keeps its length.
THEOREM TypeInvariance == Spec => []TypeOK
<1>1. TypeOK /\ [Next]_vars => TypeOK'
  BY ProgramType, ConnectionType, OrphanType, LinkType, RebootType, StutterType DEF Next
<1> QED BY InitType, <1>1, PTL DEF Spec

(***************************************************************************)
(* The client is never forgotten.                                          *)
(***************************************************************************)

\* The cases of a step, the ones of the program by branch.
LEMMA StepCases ==
    [Next]_vars =>
        \/ wifi_check_ip \/ MQTT_Publish
        \/ MQTT_Task /\ (TaskReconnect \/ TaskSend \/ TaskNothing)
        \/ mqtt_timer /\ (TimerPing \/ TimerReconnect \/ TimerCount)
        \/ Connection \/ Orphan \/ Link \/ Boot \/ UNCHANGED vars
BY Zenon DEF Next, Program, MQTT_Task, mqtt_timer, Reboot, Restart, OrphanNameCrash

\* What an event of a connection may do to the state of the client: it never
\* enters TCP_RECONNECT, enters MQTT_CONNECT_SENDING only as it sends a
\* CONNECT, and wakes the task unless it is a lookup that failed.
LEMMA EventState ==
    ASSUME Connection \/ Orphan
    PROVE  /\ \/ connState' = connState /\ pending_msg_type' = pending_msg_type
              \/ connState' = "MQTT_CONNECT_SENDING" /\ pending_msg_type' = "CONNECT"
              \/ connState' \in {"TCP_CONNECTING", "TCP_RECONNECT_REQ", "MQTT_DATA"}
           /\ posted' = TRUE \/ connState' = "TCP_RECONNECT_REQ"
<1>1. CASE TcpReceived \/ OrphanReceived
  <2>1. PICK segment, session : mqtt_tcpclient_recv(segment, session)
    BY <1>1, Zenon DEF TcpReceived, OrphanReceived
  <2> QED BY <2>1 DEF mqtt_tcpclient_recv, RecvConnack, RecvOther
<1>2. CASE TcpOpened \/ OrphanOpened
  BY <1>2 DEF TcpOpened, OrphanOpened, mqtt_tcpclient_connect_cb
<1>3. CASE TcpLost \/ OrphanLost
  BY <1>3 DEF TcpLost, OrphanLost, mqtt_tcpclient_lost_cb
<1>4. CASE TcpSent \/ OrphanSent
  BY <1>4 DEF TcpSent, OrphanSent, mqtt_tcpclient_sent_cb
<1>5. CASE NameFound \/ OrphanNameFound
  BY <1>5 DEF NameFound, OrphanNameFound, mqtt_dns_found
<1>6. CASE NameUnknown \/ OrphanNameUnknown
  BY <1>6 DEF NameUnknown, OrphanNameUnknown, mqtt_dns_failed
<1> QED BY <1>1, <1>2, <1>3, <1>4, <1>5, <1>6, Zenon DEF Connection, Orphan

LEMMA WakeupStep == NoLostWakeup /\ [Next]_vars => NoLostWakeup'
<1> SUFFICES ASSUME NoLostWakeup, [Next]_vars, connState' = "TCP_RECONNECT"
             PROVE  posted'
  BY Zenon DEF NoLostWakeup
<1>1. CASE wifi_check_ip
  BY <1>1 DEF NoLostWakeup, wifi_check_ip, wifiConnectCb, MQTT_Connect, MQTT_Disconnect
<1>2. CASE MQTT_Publish
  BY <1>2, Zenon DEF NoLostWakeup, MQTT_Publish, client
<1>3. CASE MQTT_Task /\ (TaskReconnect \/ TaskSend \/ TaskNothing)
  BY <1>3 DEF TaskReconnect, MQTT_Connect, TaskSend, TaskNothing, client
<1>4. CASE mqtt_timer /\ (TimerPing \/ TimerReconnect \/ TimerCount)
  BY <1>4 DEF NoLostWakeup, TimerPing, TimerReconnect, TimerCount
<1>5. CASE Connection \/ Orphan
  BY <1>5, EventState
<1>6. CASE Link \/ UNCHANGED vars
  BY <1>6 DEF NoLostWakeup, Link, LinkUp, LinkDown, vars, client
<1>7. CASE Boot
  BY <1>7, Zenon DEF Boot
<1> QED BY <1>1, <1>2, <1>3, <1>4, <1>5, <1>6, <1>7, StepCases

LEMMA TryingStep == Trying /\ [Next]_vars => Trying' \/ OrphanOpened
<1> SUFFICES ASSUME Trying, [Next]_vars, ~OrphanOpened, lastWifiStatus' = "up"
             PROVE  /\ mqttTimer'
                    /\ pCon' \in InUse \/ connState' \in {"TCP_RECONNECT_REQ", "TCP_RECONNECT"}
  BY Zenon DEF Trying
<1> Attempt \in InUse
  BY DEF Attempt, InUse
<1>1. CASE wifi_check_ip
  BY <1>1 DEF wifi_check_ip, wifiConnectCb, MQTT_Connect
<1>2. CASE MQTT_Publish
  BY <1>2 DEF Trying, MQTT_Publish, client
<1>3. CASE MQTT_Task /\ (TaskReconnect \/ TaskSend \/ TaskNothing)
  BY <1>3 DEF Trying, MQTT_Task, TaskReconnect, MQTT_Connect, TaskSend, TaskNothing, client
<1>4. CASE mqtt_timer /\ (TimerPing \/ TimerReconnect \/ TimerCount)
  BY <1>4 DEF Trying, mqtt_timer, TimerPing, TimerReconnect, TimerCount
<1>5. CASE Connection \/ Orphan
  <2>1. CASE TcpReceived \/ OrphanReceived
    <3>1. PICK segment, session : mqtt_tcpclient_recv(segment, session)
      BY <2>1, Zenon DEF TcpReceived, OrphanReceived
    <3>2. connState' = connState \/ connState = "MQTT_CONNECT_SENDING"
      BY <3>1 DEF mqtt_tcpclient_recv, RecvConnack, RecvOther
    <3> QED BY <3>1, <3>2 DEF Trying, mqtt_tcpclient_recv
  <2>2. CASE TcpOpened
    BY <2>2 DEF Trying, TcpOpened, mqtt_tcpclient_connect_cb, InUse
  <2>3. CASE TcpLost \/ OrphanLost
    BY <2>3 DEF Trying, TcpLost, OrphanLost, mqtt_tcpclient_lost_cb
  <2>4. CASE TcpSent \/ OrphanSent
    BY <2>4 DEF Trying, TcpSent, OrphanSent, mqtt_tcpclient_sent_cb
  <2>5. CASE NameFound \/ OrphanNameFound
    BY <2>5 DEF Trying, NameFound, OrphanNameFound, mqtt_dns_found, InUse
  <2>6. CASE NameUnknown \/ OrphanNameUnknown
    BY <2>6 DEF Trying, NameUnknown, OrphanNameUnknown, mqtt_dns_failed
  <2> QED BY <1>5, <2>1, <2>2, <2>3, <2>4, <2>5, <2>6, Zenon DEF Connection, Orphan
<1>6. CASE Link \/ UNCHANGED vars
  BY <1>6 DEF Trying, Link, LinkUp, LinkDown, vars, client
<1>7. CASE Boot
  BY <1>7 DEF Boot
<1> QED BY <1>1, <1>2, <1>3, <1>4, <1>5, <1>6, <1>7, StepCases

LEMMA PendingStep == ConnectPending /\ [Next]_vars => ConnectPending'
<1> SUFFICES ASSUME ConnectPending, [Next]_vars, connState' = "MQTT_CONNECT_SENDING"
             PROVE  pending_msg_type' = "CONNECT"
  BY Zenon DEF ConnectPending
<1>1. CASE wifi_check_ip
  BY <1>1 DEF ConnectPending, wifi_check_ip, wifiConnectCb, MQTT_Connect, MQTT_Disconnect
<1>2. CASE MQTT_Publish
  BY <1>2 DEF ConnectPending, MQTT_Publish, client
<1>3. CASE MQTT_Task /\ (TaskReconnect \/ TaskSend \/ TaskNothing)
  BY <1>3 DEF ConnectPending, TaskReconnect, MQTT_Connect, TaskSend, TaskNothing, client
<1>4. CASE mqtt_timer /\ (TimerPing \/ TimerReconnect \/ TimerCount)
  BY <1>4 DEF ConnectPending, TimerPing, TimerReconnect, TimerCount
<1>5. CASE Connection \/ Orphan
  BY <1>5, EventState DEF ConnectPending
<1>6. CASE Link \/ UNCHANGED vars
  BY <1>6 DEF ConnectPending, Link, LinkUp, LinkDown, vars, client
<1>7. CASE Boot
  BY <1>7, Zenon DEF Boot
<1> QED BY <1>1, <1>2, <1>3, <1>4, <1>5, <1>6, <1>7, StepCases

(***************************************************************************)
(* The queue never stalls.  The inductive part: while the gate is closed   *)
(* on an open connection, a send is under way whose callback will open it. *)
(***************************************************************************)

GateHasSend == pCon = "open" /\ sendTimeout # 0 => unsent > 0

LEMMA SentOnOpen ==
    ASSUME TypeOK, NEW packet, espconn_sent(packet), pCon = "open"
    PROVE  unsent' > 0
BY DEF TypeOK, espconn_sent, MaxUnsent

LEMMA GateStep == TypeOK /\ GateHasSend /\ [Next]_vars => GateHasSend'
<1> SUFFICES ASSUME TypeOK, GateHasSend, [Next]_vars, pCon' = "open", sendTimeout' # 0
             PROVE  unsent' > 0
  BY Zenon DEF GateHasSend
<1> unsent \in Nat /\ sendTimeout \in Nat
  BY DEF TypeOK, MaxUnsent
<1>1. CASE wifi_check_ip
  BY <1>1 DEF wifi_check_ip, wifiConnectCb, MQTT_Connect, Attempt, MQTT_Disconnect
<1>2. CASE MQTT_Publish
  BY <1>2 DEF GateHasSend, MQTT_Publish, client, tcp
<1>3. CASE MQTT_Task /\ (TaskReconnect \/ TaskSend \/ TaskNothing)
  <2>1. CASE TaskReconnect
    BY <2>1 DEF TaskReconnect, MQTT_Connect, Attempt
  <2>2. CASE TaskSend
    BY <2>2, SentOnOpen DEF TaskSend
  <2>3. CASE TaskNothing
    BY <2>3 DEF GateHasSend, TaskNothing, client, tcp
  <2> QED BY <1>3, <2>1, <2>2, <2>3
<1>4. CASE mqtt_timer /\ (TimerPing \/ TimerReconnect \/ TimerCount)
  <2>1. CASE TimerPing
    BY <1>4, <2>1, SentOnOpen DEF mqtt_timer, TimerPing
  <2>2. CASE TimerReconnect \/ TimerCount
    BY <1>4, <2>2 DEF GateHasSend, mqtt_timer, TimerReconnect, TimerCount, CountedDown
  <2> QED BY <1>4, <2>1, <2>2
<1>5. CASE Connection \/ Orphan
  <2>1. CASE TcpOpened \/ TcpLost
    BY <2>1 DEF TcpOpened, TcpLost
  <2>2. CASE TcpSent \/ OrphanSent
    BY <2>2 DEF TcpSent, OrphanSent, mqtt_tcpclient_sent_cb
  <2>3. CASE TcpReceived \/ OrphanReceived
    <3>1. PICK segment, session : mqtt_tcpclient_recv(segment, session)
      BY <2>3, Zenon DEF TcpReceived, OrphanReceived
    <3> QED BY <3>1 DEF GateHasSend, mqtt_tcpclient_recv
  <2>4. CASE OrphanOpened
    BY <2>4, SentOnOpen DEF OrphanOpened
  <2>5. CASE OrphanLost
    BY <2>5 DEF GateHasSend, OrphanLost, mqtt_tcpclient_lost_cb
  <2>6. CASE NameFound \/ OrphanNameFound
    BY <2>6 DEF GateHasSend, NameFound, OrphanNameFound, mqtt_dns_found
  <2>7. CASE NameUnknown \/ OrphanNameUnknown
    BY <2>7 DEF GateHasSend, NameUnknown, OrphanNameUnknown, mqtt_dns_failed
  <2> QED BY <1>5, <2>1, <2>2, <2>3, <2>4, <2>5, <2>6, <2>7, Zenon DEF Connection, Orphan
<1>6. CASE Link \/ UNCHANGED vars
  BY <1>6 DEF GateHasSend, Link, LinkUp, LinkDown, vars, client, tcp
<1>7. CASE Boot
  BY <1>7, Zenon DEF Boot
<1> QED BY <1>1, <1>2, <1>3, <1>4, <1>5, <1>6, <1>7, StepCases

LEMMA StallStep ==
    TypeOK /\ GateHasSend /\ NoStall /\ [Next]_vars => NoStall'
<1> SUFFICES ASSUME TypeOK, GateHasSend, NoStall, [Next]_vars,
                    connState' = "MQTT_DATA", pCon' = "open", queue' # <<>>, ~posted'
             PROVE  unsent' > 0
  BY Zenon DEF NoStall
<1>1. CASE wifi_check_ip
  BY <1>1 DEF wifi_check_ip, wifiConnectCb, MQTT_Connect, MQTT_Disconnect
<1>2. CASE MQTT_Publish
  <2>1. posted'
    BY <1>2, Zenon DEF MQTT_Publish
  <2> QED BY <2>1
<1>3. CASE MQTT_Task /\ (TaskReconnect \/ TaskSend \/ TaskNothing)
  <2>1. CASE TaskReconnect
    BY <2>1 DEF TaskReconnect, MQTT_Connect
  <2>2. CASE TaskSend
    BY <2>2, SentOnOpen DEF TaskSend
  <2>3. CASE TaskNothing
    BY <2>3 DEF GateHasSend, TaskNothing, client, tcp
  <2> QED BY <1>3, <2>1, <2>2, <2>3
<1>4. CASE mqtt_timer /\ (TimerPing \/ TimerReconnect \/ TimerCount)
  BY <1>4 DEF NoStall, mqtt_timer, TimerPing, TimerReconnect, TimerCount
<1>5. CASE Connection \/ Orphan
  BY <1>5, EventState
<1>6. CASE Link \/ UNCHANGED vars
  BY <1>6 DEF NoStall, Link, LinkUp, LinkDown, vars, client, tcp
<1>7. CASE Boot
  BY <1>7, Zenon DEF Boot
<1> QED BY <1>1, <1>2, <1>3, <1>4, <1>5, <1>6, <1>7, StepCases

(***************************************************************************)
(* An outage of the Wi-Fi does not empty the queue.  The inductive part:   *)
(* without a connection the timer is stopped; and once a packet was sent   *)
(* to none, there is none, the gate is closed and the task will not make   *)
(* one, until Wi-Fi is back or a callback opens the gate.                  *)
(***************************************************************************)

OutageInv ==
    /\ pCon = "NULL" => mqttTimer = FALSE
    /\ outageLoss \in 0 .. 1
    /\ outageLoss = 1 => pCon = "NULL" /\ sendTimeout # 0 /\ connState # "TCP_RECONNECT"

LEMMA OutageStep == TypeOK /\ OutageInv /\ [Next]_vars => OutageInv'
<1> SUFFICES ASSUME TypeOK, OutageInv, [Next]_vars PROVE OutageInv'
  OBVIOUS
<1> SEND_TIMEOUT # 0
  BY TimesAssumption
<1> Attempt # "NULL"
  BY DEF Attempt
<1>1. CASE wifi_check_ip
  <2>1. CASE link # lastWifiStatus
    BY <1>1, <2>1 DEF wifi_check_ip, wifiConnectCb, MQTT_Connect, MQTT_Disconnect, OutageInv
  <2>2. CASE link = lastWifiStatus
    <3>1. MQTT_Disconnect /\ outageLoss' = outageLoss
      BY <1>1, <2>2 DEF wifi_check_ip, wifiConnectCb
    <3> QED BY <3>1 DEF MQTT_Disconnect, OutageInv
  <2> QED BY <2>1, <2>2
<1>2. CASE MQTT_Publish
  BY <1>2 DEF MQTT_Publish, client, OutageInv
<1>3. CASE MQTT_Task /\ (TaskReconnect \/ TaskSend \/ TaskNothing)
  <2>1. CASE TaskReconnect
    BY <2>1 DEF TaskReconnect, MQTT_Connect, OutageInv
  <2>2. CASE TaskSend
    BY <2>2 DEF TaskSend, OutageInv
  <2>3. CASE TaskNothing
    BY <2>3 DEF TaskNothing, client, OutageInv
  <2> QED BY <1>3, <2>1, <2>2, <2>3
<1>4. CASE mqtt_timer /\ (TimerPing \/ TimerReconnect \/ TimerCount)
  <2>1. pCon # "NULL"
    BY <1>4 DEF mqtt_timer, OutageInv
  <2> QED BY <1>4, <2>1 DEF mqtt_timer, OutageInv
<1>5. CASE Connection \/ Orphan
  <2>1. CASE TcpReceived \/ OrphanReceived
    <3>1. PICK segment, session : mqtt_tcpclient_recv(segment, session)
      BY <2>1, Zenon DEF TcpReceived, OrphanReceived
    <3> QED BY <3>1 DEF mqtt_tcpclient_recv, RecvConnack, RecvOther, OutageInv
  <2>2. CASE TcpOpened \/ TcpLost \/ NameFound \/ NameUnknown
    BY <2>2 DEF TcpOpened, TcpLost, NameFound, NameUnknown, mqtt_dns_found, OutageInv
  <2>3. CASE TcpSent \/ OrphanSent
    BY <2>3 DEF TcpSent, OrphanSent, mqtt_tcpclient_sent_cb, OutageInv
  <2>4. CASE OrphanOpened
    BY <2>4 DEF OrphanOpened, mqtt_tcpclient_connect_cb, OutageInv
  <2>5. CASE OrphanLost
    BY <2>5 DEF OrphanLost, mqtt_tcpclient_lost_cb, OutageInv
  <2>6. CASE OrphanNameFound
    BY <2>6 DEF OrphanNameFound, mqtt_dns_found, OutageInv
  <2>7. CASE OrphanNameUnknown
    BY <2>7 DEF OrphanNameUnknown, mqtt_dns_failed, OutageInv
  <2> QED BY <1>5, <2>1, <2>2, <2>3, <2>4, <2>5, <2>6, <2>7, Zenon DEF Connection, Orphan
<1>6. CASE Link \/ UNCHANGED vars
  BY <1>6 DEF Link, LinkUp, LinkDown, vars, client, OutageInv
<1>7. CASE Boot
  BY <1>7 DEF Boot, OutageInv
<1> QED BY <1>1, <1>2, <1>3, <1>4, <1>5, <1>6, <1>7, StepCases

-----------------------------------------------------------------------------
LEMMA InitSafe ==
    Init => NoLostWakeup /\ ConnectPending /\ GateHasSend /\ NoStall /\ OutageInv
BY DEF Init, NoLostWakeup, ConnectPending, GateHasSend, NoStall, OutageInv

\* With or without callbacks of freed connections, whenever the client is to
\* reconnect its task has been woken for it (mqtt.c:294-301).
THEOREM WakeupNeverLost == Spec => []NoLostWakeup
BY InitSafe, WakeupStep, PTL DEF Spec

\* As long as Wi-Fi is up for the poll, a connection is being made or kept and
\* the timer runs, until a connect callback comes for a connection that was
\* freed: nothing else, in whatever order, leaves the client with neither
\* (wifi.c:68-72, mqtt.c:294-301, 326-354, 567-615).
THEOREM StrandedByLateConnectOnly == Spec => OnlyLateConnectStrands
<1>1. [Next]_vars => [ Trying /\ ~Trying' => OrphanOpened ]_vars
  BY TryingStep, Zenon
<1> QED BY <1>1, PTL DEF Spec, OnlyLateConnectStrands

\* "Invalid packet" (mqtt.c:139-146) is dead code.
THEOREM InvalidPacketNeverSeen == Spec => []ConnectPending
BY InitSafe, PendingStep, PTL DEF Spec

\* A packet waiting on an open session always has a wakeup to come: a post, or
\* the callback of a send under way (mqtt.c:251-262 with 302-303 and 449-468).
THEOREM QueueNeverStalls == Spec => []NoStall
BY TypeInvariance, InitSafe, GateStep, StallStep, PTL DEF Spec

\* An outage of the Wi-Fi costs one packet of the queue, and one more for each
\* late callback that opens the gate meanwhile (mqtt.c:251-257, 449-468 with
\* 604-615), whatever freed connections do.
THEOREM OutageCostsOnePacket == Spec => []OneLostPerOpening
<1>1. OutageInv => OneLostPerOpening
  BY DEF OutageInv, OneLostPerOpening
<1> QED BY TypeInvariance, InitSafe, OutageStep, <1>1, PTL DEF Spec

(***************************************************************************)
(* What holds when a freed connection does not call back: nothing of the   *)
(* queue is sent before the broker's CONNACK.                              *)
(***************************************************************************)

NoOrphans == orphans = {}

LEMMA OrphansStep ==
    ASSUME ~OrphansCallBack
    PROVE  NoOrphans /\ [Next]_vars => NoOrphans'
<1> SUFFICES ASSUME NoOrphans, [Next]_vars PROVE orphans' = {}
  BY DEF NoOrphans
<1>1. Forget => orphans' = orphans
  BY Zenon DEF Forget, Orphaned
<1>2. CASE wifi_check_ip
  BY <1>1, <1>2 DEF NoOrphans, wifi_check_ip, wifiConnectCb, MQTT_Connect, MQTT_Disconnect
<1>3. CASE MQTT_Publish
  BY <1>3 DEF NoOrphans, MQTT_Publish, tcp
<1>4. CASE MQTT_Task /\ (TaskReconnect \/ TaskSend \/ TaskNothing)
  BY <1>1, <1>4 DEF NoOrphans, TaskReconnect, MQTT_Connect, TaskSend, TaskNothing, tcp
<1>5. CASE mqtt_timer /\ (TimerPing \/ TimerReconnect \/ TimerCount)
  BY <1>5 DEF NoOrphans, mqtt_timer
<1>6. CASE Connection
  BY <1>6 DEF NoOrphans, Connection, NameFound, NameUnknown, TcpOpened, TcpLost, TcpSent, TcpReceived,
              mqtt_tcpclient_sent_cb, mqtt_tcpclient_recv
<1>7. CASE Orphan
  BY <1>7 DEF NoOrphans, Orphan, OrphanNameFound, OrphanNameUnknown, OrphanOpened, OrphanLost, OrphanSent,
              OrphanReceived
<1>8. CASE Link \/ UNCHANGED vars
  BY <1>8 DEF NoOrphans, Link, LinkUp, LinkDown, vars, tcp
<1>9. CASE Boot
  BY <1>9 DEF Boot
<1> QED BY <1>2, <1>3, <1>4, <1>5, <1>6, <1>7, <1>8, <1>9, StepCases

\* In MQTT_DATA on an open connection, the broker has answered: it has accepted
\* the session, or refused it.
HasAnswered == {"refused", "accepted", "subscribing", "subscribed"}

Accepted == connState = "MQTT_DATA" /\ pCon = "open" => broker \in HasAnswered

\* Sending anything but a second CONNECT takes no answer back.
LEMMA SentAccepted ==
    ASSUME NEW packet, packet # "CONNECT", espconn_sent(packet), broker \in HasAnswered
    PROVE  broker' \in HasAnswered
<1> USE DEF HasAnswered
<1>1. Delivered(packet) \in HasAnswered
  BY DEF Delivered
<1> QED BY <1>1 DEF espconn_sent

LEMMA AcceptedStep ==
    NoOrphans /\ TypeOK /\ Accepted /\ [Next]_vars => Accepted'
<1> SUFFICES ASSUME NoOrphans, TypeOK, Accepted, [Next]_vars,
                    connState' = "MQTT_DATA", pCon' = "open"
             PROVE  broker' \in HasAnswered
  BY Zenon DEF Accepted
<1>1. CASE wifi_check_ip
  BY <1>1 DEF wifi_check_ip, wifiConnectCb, MQTT_Connect, MQTT_Disconnect
<1>2. CASE MQTT_Publish
  BY <1>2 DEF MQTT_Publish, client, tcp, Accepted
<1>3. CASE MQTT_Task /\ (TaskReconnect \/ TaskSend \/ TaskNothing)
  <2>1. CASE TaskReconnect
    BY <2>1 DEF TaskReconnect, MQTT_Connect
  <2>2. CASE TaskSend
    <3>1. Head(queue) \in Queued
      BY <2>2, HeadTailProperties DEF TaskSend, TypeOK
    <3> QED BY <2>2, <3>1, SentAccepted DEF TaskSend, Queued, Accepted
  <2>3. CASE TaskNothing
    BY <2>3 DEF TaskNothing, client, tcp, Accepted
  <2> QED BY <1>3, <2>1, <2>2, <2>3
<1>4. CASE mqtt_timer /\ (TimerPing \/ TimerReconnect \/ TimerCount)
  BY <1>4, SentAccepted DEF mqtt_timer, TimerPing, TimerReconnect, TimerCount, Accepted
<1>5. CASE Connection
  <2>1. CASE TcpReceived
    <3>1. PICK segment \in Segments(broker) :
                mqtt_tcpclient_recv(segment, Answered(segment))
      BY <2>1 DEF TcpReceived
    <3>2. CASE connState = "MQTT_DATA"
      <4>1. broker' = Answered(segment)
        BY <3>1, <3>2 DEF mqtt_tcpclient_recv, RecvConnack, RecvOther
      <4>2. Answered(segment) \in {"refused", "accepted", "subscribed", broker}
        BY DEF Answered
      <4> QED BY <2>1, <3>2, <4>1, <4>2 DEF TcpReceived, Accepted, HasAnswered
    <3>3. CASE connState # "MQTT_DATA"
      <4>1. RecvConnack(segment, Answered(segment)) /\ broker' = Answered(segment)
        BY <3>1, <3>3 DEF mqtt_tcpclient_recv, RecvConnack, RecvOther
      <4> QED BY <4>1 DEF RecvConnack, Answered, Connacks, HasAnswered
    <3> QED BY <3>2, <3>3
  <2>2. CASE TcpOpened \/ TcpLost
    BY <2>2 DEF TcpOpened, TcpLost, mqtt_tcpclient_connect_cb
  <2>3. CASE TcpSent
    BY <2>3 DEF TcpSent, mqtt_tcpclient_sent_cb, Accepted
  <2>4. CASE NameFound \/ NameUnknown
    BY <2>4 DEF NameFound, NameUnknown, mqtt_dns_found
  <2> QED BY <1>5, <2>1, <2>2, <2>3, <2>4 DEF Connection
<1>6. CASE Orphan
  BY <1>6 DEF NoOrphans, Orphan, OrphanNameFound, OrphanNameUnknown, OrphanOpened, OrphanLost, OrphanSent,
              OrphanReceived
<1>7. CASE Link \/ UNCHANGED vars
  BY <1>7 DEF Link, LinkUp, LinkDown, vars, client, tcp, Accepted
<1>8. CASE Boot
  BY <1>8 DEF Boot
<1> QED BY <1>1, <1>2, <1>3, <1>4, <1>5, <1>6, <1>7, <1>8, StepCases

LEMMA InitQuiet == Init => NoOrphans /\ Accepted
BY DEF Init, NoOrphans, Accepted

\* Packets of the queue follow the CONNACK on every connection, be it a refusal
\* (mqtt.c:137-155 with 449-468), if connections torn down stay silent.
THEOREM ConnackComesFirst ==
    ASSUME ~OrphansCallBack
    PROVE  Spec => NothingBeforeConnack
<1>1. TypeOK /\ Accepted /\ [Next]_vars =>
        [ MQTT_Task /\ TaskSend /\ unsent' > unsent
            => broker \notin {"none", "connecting"} ]_vars
  <2> SUFFICES ASSUME TypeOK, Accepted, TaskSend, unsent' > unsent
               PROVE  broker \notin {"none", "connecting"}
    BY Zenon
  <2>1. pCon = "open"
    BY DEF TypeOK, TaskSend, espconn_sent, MaxUnsent
  <2> QED BY <2>1 DEF TaskSend, Accepted, HasAnswered
<1> QED
  BY TypeInvariance, InitQuiet, OrphansStep, AcceptedStep, <1>1, PTL
     DEF Spec, NothingBeforeConnack

(***************************************************************************)
(* The client implements the session it promises.  Needed beside Accepted: *)
(* the broker has a session only with the connection the client has open,  *)
(* and one it has not answered yet only while the client waits for that.   *)
(***************************************************************************)

OneSession ==
    /\ broker # "none" => pCon = "open"
    /\ broker = "connecting" => connState = "MQTT_CONNECT_SENDING"

\* What a send from MQTT_DATA leaves of the session.
LEMMA SentSession ==
    ASSUME NEW packet, packet # "CONNECT", espconn_sent(packet)
    PROVE  broker' = broker \/ (broker = "accepted" /\ broker' = "subscribing" /\ packet = "SUBSCRIBE")
<1>1. Delivered(packet) = broker
      \/ (broker = "accepted" /\ Delivered(packet) = "subscribing" /\ packet = "SUBSCRIBE")
  BY DEF Delivered
<1> QED BY <1>1 DEF espconn_sent

LEMMA OneSessionStep ==
    NoOrphans /\ TypeOK /\ OneSession /\ [Next]_vars => OneSession'
<1> SUFFICES ASSUME NoOrphans, TypeOK, OneSession, [Next]_vars, broker' # "none"
             PROVE  /\ pCon' = "open"
                    /\ broker' = "connecting" => connState' = "MQTT_CONNECT_SENDING"
  BY DEF OneSession
<1>1. CASE wifi_check_ip
  BY <1>1 DEF wifi_check_ip, wifiConnectCb, MQTT_Connect, MQTT_Disconnect, Forget
<1>2. CASE MQTT_Publish
  BY <1>2 DEF MQTT_Publish, client, tcp, OneSession
<1>3. CASE MQTT_Task /\ (TaskReconnect \/ TaskSend \/ TaskNothing)
  <2>1. CASE TaskReconnect
    BY <2>1 DEF TaskReconnect, MQTT_Connect, Forget
  <2>2. CASE TaskSend
    <3>1. Head(queue) # "CONNECT"
      BY <2>2, HeadTailProperties DEF TaskSend, TypeOK, Queued
    <3> QED BY <2>2, <3>1, SentSession DEF TaskSend, OneSession
  <2>3. CASE TaskNothing
    BY <2>3 DEF TaskNothing, client, tcp, OneSession
  <2> QED BY <1>3, <2>1, <2>2, <2>3
<1>4. CASE mqtt_timer /\ (TimerPing \/ TimerReconnect \/ TimerCount)
  BY <1>4, SentSession DEF mqtt_timer, TimerPing, TimerReconnect, TimerCount, OneSession
<1>5. CASE Connection
  <2>1. CASE NameFound \/ NameUnknown
    BY <2>1 DEF NameFound, NameUnknown, mqtt_dns_found, mqtt_dns_failed, OneSession
  <2>2. CASE TcpOpened \/ TcpLost
    BY <2>2 DEF TcpOpened, TcpLost, mqtt_tcpclient_connect_cb
  <2>3. CASE TcpSent
    BY <2>3 DEF TcpSent, mqtt_tcpclient_sent_cb, OneSession
  <2>4. CASE TcpReceived
    <3>1. PICK segment \in Segments(broker) :
                mqtt_tcpclient_recv(segment, Answered(segment))
      BY <2>4 DEF TcpReceived
    <3>2. pCon' = "open"
      BY <2>4, <3>1 DEF TcpReceived, mqtt_tcpclient_recv
    <3>3. CASE RecvConnack(segment, Answered(segment))
      <4>1. segment[1] = "CONNACK" \/ segment[1] = "REFUSAL"
        BY <3>3 DEF RecvConnack, Connacks
      <4>2. Answered(segment) \in {"accepted", "refused"}
        BY <4>1 DEF Answered
      <4>3. CASE broker' = "none" /\ connState' = connState
        BY <3>2, <4>3 DEF OneSession
      <4> QED BY <3>2, <3>3, <4>2, <4>3 DEF RecvConnack, OneSession
    <3>4. CASE RecvOther(segment, Answered(segment))
      <4>1. broker' = Answered(segment) /\ connState' = connState
        BY <3>4 DEF RecvOther
      <4> QED BY <3>2, <4>1 DEF Answered, OneSession
    <3> QED BY <3>1, <3>3, <3>4 DEF mqtt_tcpclient_recv
  <2> QED BY <1>5, <2>1, <2>2, <2>3, <2>4 DEF Connection
<1>6. CASE Orphan
  BY <1>6 DEF NoOrphans, Orphan, OrphanNameFound, OrphanNameUnknown, OrphanOpened, OrphanLost,
              OrphanSent, OrphanReceived
<1>7. CASE Link \/ UNCHANGED vars
  BY <1>7 DEF Link, LinkUp, LinkDown, vars, client, tcp, OneSession
<1>8. CASE Boot
  BY <1>8 DEF Boot
<1> QED BY <1>1, <1>2, <1>3, <1>4, <1>5, <1>6, <1>7, <1>8, StepCases

\* Steps that leave the queue alone and take the session away, or leave it.
LEMMA Quiet ==
    ASSUME queue' = queue, broker' \in {"none", "connecting", "refused", broker}
    PROVE  [Session!Next]_(Session!vars)
BY DEF SessionSeen, Session!Next, Session!End, Session!vars

\* A turn of the task that sends is a delivery or a loss.
LEMMA SendServes ==
    ASSUME TypeOK, Accepted, TaskSend
    PROVE  Session!Serve
<1>1. Head(queue) # "CONNECT"
  BY HeadTailProperties DEF TaskSend, TypeOK, Queued
<1>2. CASE pCon = "open" /\ broker' = Delivered(Head(queue)) /\ broker # "refused"
  <2>1. broker \in {"accepted", "subscribing", "subscribed"}
    BY <1>2 DEF TaskSend, Accepted, HasAnswered
  <2>2. broker' = IF Head(queue) = "SUBSCRIBE" /\ broker = "accepted"
                  THEN "subscribing" ELSE broker
    BY <1>1, <1>2 DEF Delivered
  <2> QED BY <2>1, <2>2 DEF TaskSend, SessionSeen, Session!Serve, Session!Deliver
<1>3. CASE broker' = broker
  BY <1>3 DEF TaskSend, SessionSeen, Session!Serve, Session!Lose
<1>4. CASE broker' = Delivered(Head(queue)) /\ broker = "refused"
  BY <1>1, <1>3, <1>4 DEF Delivered
<1> QED BY <1>2, <1>3, <1>4 DEF TaskSend, espconn_sent

\* Data from the broker starts the session or completes the subscription.
LEMMA ReceivedStep ==
    ASSUME TypeOK, OneSession, TcpReceived
    PROVE  [Session!Next]_(Session!vars)
<1>1. PICK segment \in Segments(broker) :
            mqtt_tcpclient_recv(segment, Answered(segment))
  BY DEF TcpReceived
<1>2. CASE broker = "connecting"
  <2>1. segment \in {<<"CONNACK">>, <<"REFUSAL">>}
    BY <1>1, <1>2 DEF Segments
  <2>6. segment[1] \in Connacks /\ Answered(segment) \in {"accepted", "refused"}
    <3>1. CASE segment = <<"CONNACK">>
      BY <3>1 DEF Connacks, Answered
    <3>2. CASE segment = <<"REFUSAL">>
      BY <3>2 DEF Connacks, Answered
    <3> QED BY <2>1, <3>1, <3>2
  <2>2. RecvConnack(segment, Answered(segment))
    BY <2>6, <1>1, <1>2, <2>1 DEF mqtt_tcpclient_recv, RecvOther, Connacks, OneSession
  <2>3. CASE broker' = "none" /\ queue' = queue
    BY <2>3, Quiet
  <2>4. CASE queue' \in Enqueued("SUBSCRIBE") /\ broker' = "accepted"
    BY <1>2, <2>4 DEF Enqueued, SessionSeen, Session!Next, Session!Accept, Session!Enqueued
  <2>5. CASE queue' \in Enqueued("SUBSCRIBE") /\ broker' = "refused"
    BY <1>2, <2>5 DEF Enqueued, SessionSeen, Session!Next, Session!Refuse, Session!Enqueued
  <2> QED BY <2>2, <2>3, <2>4, <2>5, <2>6 DEF RecvConnack
<1>3. CASE broker # "connecting"
  <2>1. segment[1] \notin Connacks
    BY <1>3 DEF Segments, Connacks
  <2>2. broker' = Answered(segment) /\ queue' = queue
    BY <1>1, <2>1 DEF mqtt_tcpclient_recv, RecvConnack, RecvOther
  <2>3. CASE segment[1] = "SUBACK"
    <3>1. broker = "subscribing"
      BY <2>3 DEF Segments
    <3>2. broker' = "subscribed"
      BY <2>2, <2>3 DEF Answered
    <3> QED BY <2>2, <3>1, <3>2 DEF SessionSeen, Session!Next, Session!Subscribed
  <2>4. CASE segment[1] # "SUBACK"
    BY <2>1, <2>2, <2>4, Quiet DEF Answered, Connacks
  <2> QED BY <2>3, <2>4
<1> QED BY <1>2, <1>3

LEMMA SessionStep ==
    NoOrphans /\ TypeOK /\ Accepted /\ OneSession /\ [Next]_vars
        => [Session!Next]_(Session!vars)
<1> SUFFICES ASSUME NoOrphans, TypeOK, Accepted, OneSession, [Next]_vars
             PROVE  [Session!Next]_(Session!vars)
  OBVIOUS
<1>1. CASE wifi_check_ip
  BY <1>1, Quiet DEF wifi_check_ip, wifiConnectCb, MQTT_Connect, MQTT_Disconnect, Forget
<1>2. CASE MQTT_Publish
  BY <1>2 DEF MQTT_Publish, tcp, Enqueued, SessionSeen,
              Session!Next, Session!Publish, Session!Enqueued
<1>3. CASE MQTT_Task /\ (TaskReconnect \/ TaskSend \/ TaskNothing)
  <2>1. CASE TaskReconnect
    BY <2>1, Quiet DEF TaskReconnect, MQTT_Connect, Forget
  <2>2. CASE TaskSend
    BY <2>2, SendServes DEF Session!Next
  <2>3. CASE TaskNothing
    BY <2>3, Quiet DEF TaskNothing, tcp
  <2> QED BY <1>3, <2>1, <2>2, <2>3
<1>4. CASE mqtt_timer /\ (TimerPing \/ TimerReconnect \/ TimerCount)
  <2>1. broker' = broker
    BY <1>4, SentSession DEF TimerPing, TimerReconnect, TimerCount
  <2> QED BY <1>4, <2>1, Quiet DEF mqtt_timer
<1>5. CASE Connection
  <2>1. CASE NameFound \/ NameUnknown
    BY <2>1, Quiet DEF NameFound, NameUnknown, mqtt_dns_found, mqtt_dns_failed
  <2>2. CASE TcpOpened \/ TcpLost
    BY <2>2, Quiet DEF TcpOpened, TcpLost
  <2>3. CASE TcpSent
    BY <2>3, Quiet DEF TcpSent, mqtt_tcpclient_sent_cb
  <2>4. CASE TcpReceived
    BY <2>4, ReceivedStep
  <2> QED BY <1>5, <2>1, <2>2, <2>3, <2>4 DEF Connection
<1>6. CASE Orphan
  BY <1>6 DEF NoOrphans, Orphan, OrphanNameFound, OrphanNameUnknown, OrphanOpened, OrphanLost,
              OrphanSent, OrphanReceived
<1>7. CASE Link \/ UNCHANGED vars
  BY <1>7, Quiet DEF Link, LinkUp, LinkDown, vars, tcp
<1>8. CASE Boot
  BY <1>8 DEF Boot, SessionSeen, Session!Next, Session!Restart
<1> QED BY <1>1, <1>2, <1>3, <1>4, <1>5, <1>6, <1>7, <1>8, StepCases

\* The program above the client (Device) may rely on the contract: whatever the
\* order of callbacks, failures and restarts, the queue only grows by packets
\* published and one SUBSCRIBE per session, and shrinks one by one from its
\* head or by an overflow (mqtt.c:126-477 with 397-433), if connections torn
\* down stay silent.
THEOREM ClientKeepsContract ==
    ASSUME ~OrphansCallBack
    PROVE  Spec => ImplementsSession
<1>1. Init => Session!Init /\ OneSession
  BY DEF Init, SessionSeen, Session!Init, OneSession
<1> QED
  BY TypeInvariance, InitQuiet, OrphansStep, AcceptedStep, OneSessionStep, SessionStep,
     <1>1, PTL DEF Spec, ImplementsSession, Session!Spec

(***************************************************************************)
(* A session that is accepted and not subscribed has its SUBSCRIBE waiting *)
(* or has lost it: together with OneSession, which excludes that a CONNACK *)
(* is taken as the answer to anything but this connection's CONNECT.       *)
(***************************************************************************)

\* Serving the queue takes no packet from it but its head.
LEMMA TailHolds ==
    ASSUME NEW s \in Seq(Queued), s # <<>>, NEW packet, Holds(s, packet),
           Head(s) # packet
    PROVE  Holds(Tail(s), packet)
<1>1. PICK i \in DOMAIN s : s[i] = packet
  BY DEF Holds
<1>2. i # 1
  BY <1>1
<1>3. i - 1 \in DOMAIN Tail(s) /\ Tail(s)[i - 1] = s[i]
  BY <1>2
<1> QED BY <1>1, <1>3 DEF Holds

LEMMA WaitsStep ==
    NoOrphans /\ TypeOK /\ OneSession /\ SubscribeWaits /\ [Next]_vars => SubscribeWaits'
<1> SUFFICES ASSUME NoOrphans, TypeOK, OneSession, SubscribeWaits, [Next]_vars,
                    connState' = "MQTT_DATA", pCon' = "open", broker' = "accepted",
                    ~subLost'
             PROVE  Holds(queue', "SUBSCRIBE")
  BY Zenon DEF SubscribeWaits
<1> DEFINE Waiting == connState = "MQTT_DATA" /\ broker = "accepted" /\ ~subLost
<1>0. ASSUME Waiting PROVE Holds(queue, "SUBSCRIBE")
  BY <1>0 DEF OneSession, SubscribeWaits
<1>1. CASE wifi_check_ip
  BY <1>1 DEF wifi_check_ip, wifiConnectCb, MQTT_Connect, MQTT_Disconnect
<1>2. CASE MQTT_Publish
  <2>1. Waiting
    BY <1>2, Zenon DEF MQTT_Publish, client, tcp
  <2> QED BY <1>0, <1>2, <2>1, Zenon DEF MQTT_Publish
<1>3. CASE MQTT_Task /\ (TaskReconnect \/ TaskSend \/ TaskNothing)
  <2>1. CASE TaskReconnect
    BY <2>1 DEF TaskReconnect, MQTT_Connect
  <2>2. CASE TaskSend
    <3>1. Head(queue) # "CONNECT" /\ queue \in Seq(Queued) /\ queue # <<>>
      BY <2>2, HeadTailProperties DEF TaskSend, TypeOK, Queued
    <3>2. espconn_sent(Head(queue))
      BY <2>2 DEF TaskSend
    <3>3. broker = "accepted"
      BY <3>1, <3>2, SentSession
    <3>4. Head(queue) # "SUBSCRIBE" /\ ~subLost
      <4>1. ~subLost
        BY <3>2, Zenon DEF espconn_sent
      <4>2. ASSUME Head(queue) = "SUBSCRIBE" PROVE FALSE
        <5>1. Delivered(Head(queue)) = "subscribing"
          BY <3>3, <4>2 DEF Delivered
        <5>2. broker' = Delivered(Head(queue)) \/ subLost'
          BY <3>2, <4>2, Zenon DEF espconn_sent
        <5> QED BY <5>1, <5>2
      <4> QED BY <4>1, <4>2
    <3>5. Holds(queue, "SUBSCRIBE")
      BY <1>0, <2>2, <3>3, <3>4 DEF TaskSend
    <3> QED BY <2>2, <3>1, <3>4, <3>5, TailHolds DEF TaskSend
  <2>3. CASE TaskNothing
    <3>1. Waiting /\ queue' = queue
      BY <2>3, Zenon DEF TaskNothing, client, tcp
    <3> QED BY <1>0, <3>1
  <2> QED BY <1>3, <2>1, <2>2, <2>3
<1>4. CASE mqtt_timer /\ (TimerPing \/ TimerReconnect \/ TimerCount)
  <2>1. queue' = queue
    BY <1>4 DEF mqtt_timer
  <2>2. connState = "MQTT_DATA"
    BY <1>4 DEF TimerPing, TimerReconnect, TimerCount
  <2>3. broker = "accepted"
    BY <1>4, SentSession DEF TimerPing, TimerReconnect, TimerCount
  <2>4. ~subLost
    BY <1>4, Zenon DEF TimerPing, TimerReconnect, TimerCount, espconn_sent
  <2> QED BY <1>0, <2>1, <2>2, <2>3, <2>4
<1>5. CASE Connection
  <2>1. CASE NameFound \/ NameUnknown
    BY <2>1 DEF NameFound, NameUnknown, mqtt_dns_found, mqtt_dns_failed
  <2>2. CASE TcpOpened \/ TcpLost
    BY <2>2 DEF TcpOpened, TcpLost
  <2>3. CASE TcpSent
    <3>1. Waiting /\ queue' = queue
      BY <2>3, Zenon DEF TcpSent, mqtt_tcpclient_sent_cb
    <3> QED BY <1>0, <3>1
  <2>4. CASE TcpReceived
    <3>1. PICK segment \in Segments(broker) :
                mqtt_tcpclient_recv(segment, Answered(segment))
      BY <2>4 DEF TcpReceived
    <3>2. CASE RecvConnack(segment, Answered(segment))
      <4>1. subLost' = ~Holds(queue', "SUBSCRIBE")
        BY <3>2 DEF RecvConnack
      <4> QED BY <4>1, Zenon
    <3>3. CASE RecvOther(segment, Answered(segment))
      <4>1. /\ queue' = queue /\ subLost' = subLost
            /\ connState' = connState /\ broker' = Answered(segment)
        BY <3>3, Zenon DEF RecvOther
      <4>2. broker # "connecting"
        BY <4>1 DEF OneSession
      <4>3. segment[1] # "CONNACK"
        BY <4>2 DEF Segments
      <4>4. broker = "accepted"
        BY <4>1, <4>3 DEF Answered
      <4> QED BY <1>0, <4>1, <4>4, Zenon
    <3> QED BY <3>1, <3>2, <3>3 DEF mqtt_tcpclient_recv
  <2> QED BY <1>5, <2>1, <2>2, <2>3, <2>4 DEF Connection
<1>6. CASE Orphan
  BY <1>6 DEF NoOrphans, Orphan, OrphanNameFound, OrphanNameUnknown, OrphanOpened, OrphanLost,
              OrphanSent, OrphanReceived
<1>7. CASE Link \/ UNCHANGED vars
  <2>1. /\ queue' = queue /\ connState' = connState /\ broker' = broker
        /\ subLost' = subLost
    BY <1>7 DEF Link, LinkUp, LinkDown, vars, client, tcp
  <2>2. Waiting
    BY <2>1, Zenon
  <2> QED BY <1>0, <2>1, <2>2
<1>8. CASE Boot
  BY <1>8 DEF Boot
<1> QED BY <1>1, <1>2, <1>3, <1>4, <1>5, <1>6, <1>7, <1>8, StepCases

\* No order of callbacks makes the client forget to subscribe: until its
\* SUBSCRIBE is sent it waits in the queue, or the queue or the connection lost
\* it (mqtt.c:415-433 with user_main.c:163-167).
THEOREM SubscribeNotForgotten ==
    ASSUME ~OrphansCallBack
    PROVE  Spec => []SubscribeWaits
<1>1. Init => SubscribeWaits /\ OneSession
  BY DEF Init, SubscribeWaits, OneSession
<1> QED
  BY TypeInvariance, InitQuiet, OrphansStep, OneSessionStep, WaitsStep, <1>1, PTL
     DEF Spec

=============================================================================
