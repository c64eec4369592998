---------------------------- MODULE MqttSession ----------------------------
(***************************************************************************)
(* What the MQTT client promises the program that uses it: packets enter a *)
(* queue and leave it in order, one by one, to the broker or nowhere; a    *)
(* session begins with a SUBSCRIBE put in the queue and ends at any time;  *)
(* one that the broker refuses does not begin, but the SUBSCRIBE is put in *)
(* the queue all the same; a restart loses everything.                     *)
(*                                                                         *)
(* MqttClient implements this (MqttClient!ImplementsSession); Device is    *)
(* built on it.                                                            *)
(***************************************************************************)
EXTENDS Integers, Sequences

CONSTANTS
    Packets,    \* what the program publishes
    QueueLen    \* packets the queue holds

VARIABLES queue, session

vars == <<queue, session>>

\* accepted: CONNACK has come; subscribing: SUBSCRIBE is with the broker;
\* subscribed: SUBACK has come.
Sessions == {"offline", "accepted", "subscribing", "subscribed"}

Init == queue = <<>> /\ session = "offline"

\* Mutant: a packet goes to the front of the queue.
EnqueuedFirst(q, packet) ==
    IF Len(q) < QueueLen
    THEN {<<packet>> \o q}
    ELSE {<<>>} \cup { <<packet>> \o SubSeq(q, n, QueueLen) : n \in 2 .. QueueLen + 1 }

\* The queue q after one more packet: on overflow the oldest make room, or
\* all are lost and the new one with them.
Enqueued(q, packet) ==
    IF Len(q) < QueueLen
    THEN {Append(q, packet)}
    ELSE {<<>>} \cup { Append(SubSeq(q, n, QueueLen), packet) : n \in 2 .. QueueLen + 1 }

Publish(packet) ==
    /\ queue' \in Enqueued(queue, packet)
    /\ UNCHANGED session

Accept ==
    /\ session = "offline"
    /\ session' = "accepted"
    /\ queue' \in Enqueued(queue, "SUBSCRIBE")

\* The client takes the refusal for an acceptance.
Refuse ==
    /\ session = "offline"
    /\ queue' \in Enqueued(queue, "SUBSCRIBE")
    /\ UNCHANGED session

Deliver ==
    /\ queue # <<>>
    /\ session # "offline"
    /\ queue' = Tail(queue)
    /\ session' = IF Head(queue) = "SUBSCRIBE" /\ session = "accepted"
                  THEN "subscribing" ELSE session

\* A packet is sent to no connection, or refused by a busy one.
Lose ==
    /\ queue # <<>>
    /\ queue' = Tail(queue)
    /\ UNCHANGED session

Subscribed ==
    /\ session = "subscribing"
    /\ session' = "subscribed"
    /\ UNCHANGED queue

End ==
    /\ session' = "offline"
    /\ UNCHANGED queue

Restart ==
    /\ queue' = <<>>
    /\ session' = "offline"

Serve == Deliver \/ Lose

Next ==
    \/ \E packet \in Packets : Publish(packet)
    \/ Accept \/ Refuse \/ Serve \/ Subscribed \/ End \/ Restart

Spec == Init /\ [][Next]_vars

\* Weak fairness of Accept, Serve and Subscribed, with the states they are
\* enabled in written out.
Fairness ==
    /\ <>[](session = "offline") => []<><<Accept>>_vars
    /\ <>[](queue # <<>>) => []<><<Serve>>_vars
    /\ <>[](session = "subscribing") => []<><<Subscribed>>_vars

FairSpec == Spec /\ Fairness

=============================================================================
