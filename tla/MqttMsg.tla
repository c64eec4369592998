------------------------------ MODULE MqttMsg ------------------------------
(***************************************************************************)
(* Packets built and taken apart: mqtt/mqtt_msg.c, with the loop of        *)
(* mqtt_tcpclient_recv that takes a segment of PUBLISH packets apart.      *)
(*                                                                         *)
(* A buffer is a sequence of bytes.  buffer[i] of the code is element      *)
(* i + 1, so an index i of the code that points behind a part is the       *)
(* length of what comes before.  A NULL result is an empty sequence.       *)
(*                                                                         *)
(* Only what the program can build is asked for: the builders of answers   *)
(* to QoS 1 and 2 packets are not called, for the only subscription is     *)
(* for QoS 0, nor are those of PINGRESP, UNSUBSCRIBE and DISCONNECT.       *)
(* Likewise the broker sends whole packets, in segments of any number of   *)
(* them, all PUBLISH for QoS 0 but possibly the last.                      *)
(***************************************************************************)
EXTENDS Integers, Sequences, FiniteSetsExt, SequencesExt

CONSTANTS
    BUF_SIZE,   \* MQTT_BUF_SIZE, of the buffers for packets out and in
    Infos,      \* what CONNECT may be told: see ConnectInfo
    Topics,     \* topics published or subscribed to, not empty
    Datas,      \* payloads of the readings and reports published
    Settings,   \* payloads of the settings the broker sends
    FirstIds,   \* values message_id has reached when a run starts
    MaxIds,     \* bound on the ids given out in a run
    MaxSegment  \* bound on the packets in a segment from the broker

Byte == 0 .. 255
UINT16_MAX == 65535

ASSUME SizeAssumption == BUF_SIZE \in Nat /\ BUF_SIZE < 128 * 128
ASSUME IdsAssumption == FirstIds \subseteq 0 .. UINT16_MAX /\ MaxIds \in Nat

\* The part of mqtt_connect_info_t that differs between devices.
ConnectInfo == [client_id : Seq(Byte), username : Seq(Byte), password : Seq(Byte),
                will_topic : Seq(Byte), will_message : Seq(Byte),
                will_qos : 0 .. 3, will_retain : BOOLEAN,
                clean_session : BOOLEAN, keepalive : 0 .. UINT16_MAX]

ASSUME TextAssumption ==
    /\ Infos \subseteq ConnectInfo
    /\ Topics \cup Datas \cup Settings \subseteq Seq(Byte)
    /\ <<>> \notin Topics

\* Two length bytes are enough for a packet that comes in a single segment.
ASSUME SettingAssumption ==
    \A topic \in Topics, data \in Settings : 2 + Len(topic) + Len(data) < 128 * 128

-----------------------------------------------------------------------------
(* Building.  The body of a packet grows in the buffer behind the room kept *)
(* for the fixed header; whatever does not fit makes the whole packet fail. *)

CONNECT == 1
PUBLISH == 3
PUBACK == 4
SUBSCRIBE == 8
SUBACK == 9
UNSUBACK == 11
PINGREQ == 12
PINGRESP == 13

MQTT_MAX_FIXED_HEADER_SIZE == 3

Word(n) == <<n \div 256, n % 256>>
append_string(string) == Word(Len(string)) \o string

\* Mutant: the room for the fixed header is forgotten.
FitsWithoutHeader(body) == Len(body) <= BUF_SIZE

Fits(body) == MQTT_MAX_FIXED_HEADER_SIZE + Len(body) <= BUF_SIZE

\* Mutant: the short header for one byte too many.
HeaderShortAt128(type, qos, retain, n) ==
    LET first == type * 16 + qos * 2 + retain
    IN  IF n > 128
        THEN <<first, 128 + (n % 128), n \div 128>>
        ELSE <<first, n>>

\* The fixed header that fini_message writes before a body of n bytes.
Header(type, qos, retain, n) ==
    LET first == type * 16 + qos * 2 + retain
    IN  IF n > 127
        THEN <<first, 128 + (n % 128), n \div 128>>
        ELSE <<first, n>>

\* fail_message is the empty packet.
fini_message(type, qos, retain, body) ==
    IF Fits(body) THEN Header(type, qos, retain, Len(body)) \o body ELSE <<>>

Flag(value, condition) == IF condition THEN value ELSE 0

mqtt_msg_connect(info) ==
    LET will == info.will_topic # <<>>
        flags == Flag(2, info.clean_session)
                 + Flag(4 + 8 * info.will_qos + Flag(32, info.will_retain), will)
                 + Flag(128, info.username # <<>>)
                 + Flag(64, info.password # <<>>)
        Optional(present, string) ==
            IF present THEN append_string(string) ELSE <<>>
    IN  IF info.client_id = <<>>
        THEN <<>>
        ELSE fini_message(CONNECT, 0, 0,
                append_string(<<77, 81, 73, 115, 100, 112>>)        \* MQIsdp
                \o <<3, flags>> \o Word(info.keepalive)
                \o append_string(info.client_id)
                \o Optional(will, info.will_topic)
                \o Optional(will, info.will_message)
                \o Optional(info.username # <<>>, info.username)
                \o Optional(info.password # <<>>, info.password))

mqtt_msg_publish(topic, data, qos, retain, id) ==
    fini_message(PUBLISH, qos, retain,
        append_string(topic) \o (IF qos > 0 THEN Word(id) ELSE <<>>) \o data)

mqtt_msg_subscribe(topic, qos, id) ==
    fini_message(SUBSCRIBE, 1, 0, Word(id) \o append_string(topic) \o <<qos>>)

mqtt_msg_pingreq == fini_message(PINGREQ, 0, 0, <<>>)

\* append_message_id asked for a new id: the next one of the uint16 that is
\* not 0.
NextId(id) ==
    LET next == (id + 1) % (UINT16_MAX + 1)
    IN  IF next = 0 THEN 1 ELSE next

-----------------------------------------------------------------------------
(* Taking apart.                                                            *)

mqtt_get_type(p) == p[1] \div 16
mqtt_get_qos(p) == (p[1] % 8) \div 2

\* The length bytes end with the first one below 128, or with the buffer.
HeaderEnd(p) == Min({i \in 2 .. Len(p) : p[i] < 128} \cup {Len(p)})

mqtt_get_total_length(p) ==
    HeaderEnd(p)
    + MapThenSumSet(LAMBDA i : (p[i] % 128) * 128 ^ (i - 2), 2 .. HeaderEnd(p))

Number(p, i) == p[i + 1] * 256 + p[i + 2]
TopicEnd(p) == HeaderEnd(p) + 2 + Number(p, HeaderEnd(p))

Cut(p) == HeaderEnd(p) + 2 >= Len(p)
Nothing(n) == [length |-> n, bytes |-> <<>>]
Part(p, from, upto) == [length |-> upto - from, bytes |-> SubSeq(p, from + 1, upto)]

\* Where it returns NULL the code leaves the length it was given.
mqtt_get_publish_topic(p) ==
    IF Cut(p) \/ TopicEnd(p) > Len(p)
    THEN Nothing(Len(p))
    ELSE Part(p, HeaderEnd(p) + 2, TopicEnd(p))

DataStart(p) == TopicEnd(p) + (IF mqtt_get_qos(p) > 0 THEN 2 ELSE 0)

\* Mutant: the data go on to the end of the segment.
PublishDataToEnd(p) == Part(p, DataStart(p), Len(p))

\* The data end with the packet or with the segment.
mqtt_get_publish_data(p) ==
    LET total == mqtt_get_total_length(p)
    IN  IF Cut(p) THEN Nothing(Len(p))
        ELSE IF TopicEnd(p) >= Len(p) THEN Nothing(0)
        ELSE IF \/ mqtt_get_qos(p) > 0 /\ DataStart(p) >= Len(p)
                \/ total < DataStart(p)
        THEN Nothing(Len(p))
        ELSE Part(p, DataStart(p), IF total <= Len(p) THEN total ELSE Len(p))

mqtt_get_id(p) ==
    CASE mqtt_get_type(p) = PUBLISH ->
            IF \/ Cut(p)
               \/ TopicEnd(p) >= Len(p)
               \/ mqtt_get_qos(p) = 0
               \/ TopicEnd(p) + 2 >= Len(p)
            THEN 0
            ELSE Number(p, TopicEnd(p))
      [] mqtt_get_type(p) \in (PUBACK .. SUBACK) \cup {UNSUBACK} ->
            IF Len(p) >= 4 /\ p[2] < 128 THEN Number(p, 2) ELSE 0
      [] OTHER -> 0

-----------------------------------------------------------------------------
(* The broker reads and writes packets by the standard.                     *)

\* What is behind the fixed header; the number of length bytes is found by
\* their high bits, the last being below 128.
Body(p) ==
    LET n == CHOOSE n \in 1 .. 4 : /\ p[n + 1] < 128
                                   /\ \A i \in 1 .. (n - 1) : p[i + 1] >= 128
    IN  SubSeq(p, n + 2, Len(p))

\* A packet as it is on the wire.
Wire(first, body) ==
    <<first>>
    \o (IF Len(body) < 128 THEN <<Len(body)>>
        ELSE <<128 + (Len(body) % 128), Len(body) \div 128>>)
    \o body

\* The first string of a sequence of bytes, and what follows it.
Text(b) == SubSeq(b, 3, 2 + 256 * b[1] + b[2])
Behind(b) == SubSeq(b, 3 + 256 * b[1] + b[2], Len(b))

Bit(flags, value) == (flags \div value) % 2 = 1

\* A CONNECT read field by field, as its flags announce them.
ReadConnect(p) ==
    LET flags == Body(p)[10]
        Optional(value, rest) ==
            IF Bit(flags, value) THEN [is |-> Text(rest), then |-> Behind(rest)]
                                 ELSE [is |-> <<>>, then |-> rest]
        start == SubSeq(Body(p), 13, Len(Body(p)))
        topic == Optional(4, Behind(start))
        message == Optional(4, topic.then)
        user == Optional(128, message.then)
        pass == Optional(64, user.then)
    IN  [client_id |-> Text(start), username |-> user.is, password |-> pass.is,
         will_topic |-> topic.is, will_message |-> message.is,
         will_qos |-> (flags \div 8) % 4, will_retain |-> Bit(flags, 32),
         clean_session |-> Bit(flags, 2),
         keepalive |-> 256 * Body(p)[11] + Body(p)[12]]

\* Another packet the client asked for, with the id it was given.
ReadPublish(p) ==
    LET qos == (p[1] \div 2) % 4
        rest == Behind(Body(p))
    IN  [type |-> "PUBLISH", topic |-> Text(Body(p)), qos |-> qos, retain |-> p[1] % 2,
         id |-> IF qos = 0 THEN 0 ELSE 256 * rest[1] + rest[2],
         data |-> SubSeq(rest, IF qos = 0 THEN 1 ELSE 3, Len(rest))]

ReadSubscribe(p) ==
    LET rest == SubSeq(Body(p), 3, Len(Body(p)))
    IN  [type |-> "SUBSCRIBE", topic |-> Text(rest), qos |-> Behind(rest)[1],
         id |-> 256 * Body(p)[1] + Body(p)[2]]

\* What the broker understands a packet to be.
Read(p) ==
    CASE p[1] \div 16 = CONNECT -> [type |-> "CONNECT", info |-> ReadConnect(p)]
      [] p[1] \div 16 = PUBLISH -> ReadPublish(p)
      [] p[1] \div 16 = SUBSCRIBE -> ReadSubscribe(p)
      [] p[1] \div 16 = PINGREQ -> [type |-> "PINGREQ"]

-----------------------------------------------------------------------------
(* The client at work: packets are built one after the other, each taking   *)
(* the place of the last, and segments from the broker are taken apart.     *)

VARIABLES
    message_id, \* of mqtt_connection_t
    packet,     \* outbound_message, <<>> when it failed
    asked,      \* history: what that packet was to say
    pdata,      \* the part of a segment the loop has still to read
    delivered,  \* what dataCb was given of the segment, in order
    sent,       \* history: what the broker put into it
    ids         \* history: the ids given out

building == <<message_id, packet, asked, ids>>
reading == <<pdata, delivered, sent>>
vars == <<building, reading>>

Init ==
    /\ message_id \in FirstIds
    /\ packet = <<>>
    /\ asked = [type |-> "none"]
    /\ ids = <<>>
    /\ pdata = <<>>
    /\ delivered = <<>>
    /\ sent = <<>>

\* Nothing else runs while a segment is taken apart.
Idle == pdata = <<>>

\* Mutant: message_id starts anew with the connection.
ConnectResetsId(info) ==
    /\ Idle
    /\ packet' = mqtt_msg_connect(info)
    /\ asked' = [type |-> "CONNECT", info |-> info]
    /\ message_id' = 0
    /\ UNCHANGED <<ids, reading>>

\* On a new connection mqtt_msg_init clears only the first bytes of the
\* structure, not message_id.
Connect(info) ==
    /\ Idle
    /\ packet' = mqtt_msg_connect(info)
    /\ asked' = [type |-> "CONNECT", info |-> info]
    /\ UNCHANGED <<message_id, ids, reading>>

Ping ==
    /\ Idle
    /\ packet' = mqtt_msg_pingreq
    /\ asked' = [type |-> "PINGREQ"]
    /\ UNCHANGED <<message_id, ids, reading>>

\* append_message_id: the id is used up even if the packet fails.
append_message_id ==
    /\ Len(ids) < MaxIds
    /\ message_id' = NextId(message_id)
    /\ ids' = Append(ids, message_id')

\* A topic too long fails before an id is taken.
Publish(topic, data, qos, retain) ==
    /\ Idle
    /\ \/ qos > 0 /\ Fits(append_string(topic)) /\ append_message_id
       \/ (qos = 0 \/ ~Fits(append_string(topic))) /\ UNCHANGED <<message_id, ids>>
    /\ LET id == IF qos > 0 THEN message_id' ELSE 0
       IN  /\ packet' = mqtt_msg_publish(topic, data, qos, retain, id)
           /\ asked' = [type |-> "PUBLISH", topic |-> topic, qos |-> qos,
                        retain |-> retain, id |-> id, data |-> data]
    /\ UNCHANGED reading

\* MQTT_Subscribe asks for QoS 0 whatever it is told.
Subscribe(topic) ==
    /\ Idle
    /\ append_message_id
    /\ packet' = mqtt_msg_subscribe(topic, 0, message_id')
    /\ asked' = [type |-> "SUBSCRIBE", topic |-> topic, qos |-> 0, id |-> message_id']
    /\ UNCHANGED reading

\* A segment from the broker arrives, the client being in MQTT_DATA: PUBLISH
\* packets, and behind them perhaps the answer to a ping.
Receive(messages, answer) ==
    /\ Idle
    /\ pdata' = FlattenSeq([i \in DOMAIN messages |->
                              Wire(16 * PUBLISH + 1,
                                   Word(Len(messages[i].topic)) \o messages[i].topic
                                   \o messages[i].data)])
                \o answer
    /\ delivered' = <<>>
    /\ sent' = IF Len(pdata') < BUF_SIZE THEN messages ELSE <<>>
    /\ UNCHANGED building

deliver_publish(p) ==
    [topic |-> mqtt_get_publish_topic(p), data |-> mqtt_get_publish_data(p)]

\* What is left for the next turn of the loop.
Rest(p) == SubSeq(p, mqtt_get_total_length(p) + 1, Len(p))

\* One turn of the loop at READPACKET; only a PUBLISH is followed by another.
ReadPacket ==
    /\ ~Idle
    /\ \/ /\ Len(pdata) < BUF_SIZE
          /\ mqtt_get_type(pdata) = PUBLISH
          /\ delivered' = Append(delivered, deliver_publish(pdata))
          /\ pdata' = Rest(pdata)
       \/ /\ Len(pdata) >= BUF_SIZE \/ mqtt_get_type(pdata) # PUBLISH
          /\ pdata' = <<>>
          /\ UNCHANGED delivered
    /\ UNCHANGED <<building, sent>>

\* What the program publishes with QoS 1 is "on" and "off", never nothing.
Build ==
    \/ \E info \in Infos : Connect(info)
    \/ \E topic \in Topics, data \in Datas, retain \in {0, 1} :
          \/ Publish(topic, data, 0, retain)
          \/ data # <<>> /\ Publish(topic, data, 1, retain)
    \/ \E topic \in Topics : Subscribe(topic)
    \/ Ping

Messages == [topic : Topics, data : Settings]

Next ==
    \/ Build
    \/ \E n \in 1 .. MaxSegment : \E messages \in [1 .. n -> Messages] :
          \E answer \in {<<>>, <<16 * PINGRESP, 0>>} : Receive(messages, answer)
    \/ ReadPacket

Spec == Init /\ [][Next]_vars

-----------------------------------------------------------------------------
(* Properties.                                                              *)

\* The state has the types the code declares, and no packet overflows the
\* buffer it is built in.
TypeOK ==
    /\ message_id \in 0 .. UINT16_MAX
    /\ packet \in Seq(Byte) /\ Len(packet) <= BUF_SIZE
    /\ pdata \in Seq(Byte)
    /\ \A i \in DOMAIN delivered :
          delivered[i].topic.length \in Nat /\ delivered[i].data.length \in Nat

\* A packet that was built says to the broker what it was to say, and to
\* MQTT_Task, which knows only its bytes, what type and id it has; the one
\* or two length bytes, in front of which it may start late in the buffer,
\* agree with its length (mqtt_msg.c:105-126, mqtt.c:454-455).
PacketsReadBack ==
    packet # <<>> =>
        /\ mqtt_get_total_length(packet) = Len(packet)
        /\ Read(packet) = asked
        /\ asked.type \in {"PUBLISH", "SUBSCRIBE"} => mqtt_get_id(packet) = asked.id

\* No id is 0, which the standard reserves, and none comes again while others
\* may still be waiting in the queue, across the wrap of the counter and
\* across reconnections (mqtt_msg.c:76-90, 128-133).
IdsFresh ==
    \A i \in DOMAIN ids : ids[i] # 0 /\ \A j \in DOMAIN ids : ids[i] = ids[j] => i = j

\* All the settings of a segment that fits the buffer reach dataCb once each,
\* in order, with the topic and data they were sent with and lengths that
\* match them, a setting cleared to nothing included (mqtt.c:119-244).
SettingsTakenApart ==
    LET whole(bytes) == [length |-> Len(bytes), bytes |-> bytes]
        given == [i \in DOMAIN sent |-> [topic |-> whole(sent[i].topic),
                                        data |-> whole(sent[i].data)]]
    IN  Idle => delivered = given

=============================================================================
