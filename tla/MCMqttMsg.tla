----------------------------- MODULE MCMqttMsg -----------------------------
(* Packets and segments for TLC: bodies of 127 and 128 bytes, where the     *)
(* header grows; packets that just fit and that do not; ids that wrap.      *)
EXTENDS MqttMsg

Line(n) == [i \in 1 .. n |-> 48 + i]

Device(id, user, pass) ==
    [client_id |-> id, username |-> user, password |-> pass, will_topic |-> <<>>,
     will_message |-> <<>>, will_qos |-> 0, will_retain |-> FALSE,
     clean_session |-> TRUE, keepalive |-> 300]

WithWill(info, qos, retain) ==
    [info EXCEPT !.will_topic = <<47, 108>>, !.will_message = <<111>>,
                 !.will_qos = qos, !.will_retain = retain]

MCInfos ==
    LET devices == { Device(<<68>>, user, pass) :
                        user \in {<<>>, <<117, 49>>}, pass \in {<<>>, <<112>>} }
    IN  devices
        \cup { WithWill(info, 0, FALSE) : info \in devices }
        \cup { WithWill(Device(Line(n), <<117>>, <<112>>), 1, TRUE) : n \in {98, 99, 120} }
        \cup { Device(<<>>, <<117>>, <<112>>) }

MCTopics == {<<97>>, <<97, 47, 98>>}

\* With these topics and QoS 0 or 1 the bodies have 4 to 11, 125 to 131 and
\* 137 to 141 bytes.
MCDatas == { Line(n) : n \in {0, 1, 4, 122, 123, 124, 134} }

MCSettings == { Line(n) : n \in {0, 2, 124, 125} }

=============================================================================
