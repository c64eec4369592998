------------------------------ MODULE MsgQueue ------------------------------
(***************************************************************************)
(* The queue of outgoing packets: mqtt/queue.c and mqtt/proto.c over the   *)
(* ring buffer, with the loop of MQTT_Publish and MQTT_Subscribe that      *)
(* fills it and the branch of MQTT_Task that empties it.                   *)
(*                                                                         *)
(* A packet is put in the ring as a frame: a begin mark, its bytes with    *)
(* the three marks escaped, an end mark.  A frame that does not fit is     *)
(* written as far as it goes and what was written stays there: the loop    *)
(* then takes the oldest frame out and puts the whole packet again.        *)
(*                                                                         *)
(* The ring is the bounded queue that RingBuf is proved to be.  The calls  *)
(* of QUEUE_Puts and QUEUE_Gets in one run of the loop are steps of their  *)
(* own, but nothing else happens between them: callbacks do not preempt    *)
(* one another.                                                            *)
(***************************************************************************)
EXTENDS Integers, Sequences, SequencesExt

CONSTANTS
    RB_SIZE,    \* QUEUE_BUFFER_SIZE
    BUF_SIZE,   \* MQTT_BUF_SIZE, the size of the buffer a packet is read into
    Packets     \* the packets the client builds, as sequences of bytes

-----------------------------------------------------------------------------
(* proto.c: frames in a ring of bytes.                                      *)

Byte == 0 .. 255

Esc == 125      \* 0x7D
Begin == 126    \* 0x7E
End == 127      \* 0x7F

Marks == {Esc, Begin, End}

\* v ^ 0x20 on a byte.
Xor20(v) == IF (v \div 32) % 2 = 1 THEN v - 32 ELSE v + 32

\* Mutant: the escape mark itself is not escaped.
EscapedButEsc(v) == IF v \in {Begin, End} THEN <<Esc, Xor20(v)>> ELSE <<v>>

Escaped(v) == IF v \in Marks THEN <<Esc, Xor20(v)>> ELSE <<v>>

\* Mutant: frames without a begin mark.
FrameByEndOnly(packet) ==
    FlattenSeq([i \in DOMAIN packet |-> Escaped(packet[i])]) \o <<End>>

Frame(packet) ==
    <<Begin>> \o FlattenSeq([i \in DOMAIN packet |-> Escaped(packet[i])])
              \o <<End>>

\* Mutant: the ring is not asked whether it is full.
AddRbUnbounded(rb, packet) == [ok |-> TRUE, rb |-> rb \o Frame(packet)]

\* The bytes go in one by one until the ring is full; a full ring is not
\* cleared of what the failed call has put.
PROTO_AddRb(rb, packet) ==
    LET frame == Frame(packet)
        room == RB_SIZE - Len(rb)
    IN  IF Len(frame) <= room
        THEN [ok |-> TRUE, rb |-> rb \o frame]
        ELSE [ok |-> FALSE, rb |-> rb \o SubSeq(frame, 1, room)]

\* PROTO_Init leaves isBegin as it was on the stack.
PROTO_Init(isBegin) == [data |-> <<>>, isEsc |-> FALSE, isBegin |-> isBegin]

\* One byte other than the end mark.
PROTO_ParseByte(p, v) ==
    CASE v = Esc -> [p EXCEPT !.isEsc = TRUE]
      [] v = Begin -> [data |-> <<>>, isEsc |-> FALSE, isBegin |-> TRUE]
      [] v \notin {Esc, Begin} /\ ~p.isBegin -> p
      [] OTHER ->
            LET w == IF p.isEsc THEN Xor20(v) ELSE v
            IN  [p EXCEPT !.isEsc = FALSE,
                          !.data = IF Len(@) < BUF_SIZE THEN Append(@, w) ELSE @]

\* Any byte: at the end mark PROTO_ParseByte returns 0 and the packet is found.
ScanByte(s, v) ==
    IF v = End
    THEN [s EXCEPT !.parser.isBegin = FALSE, !.found = Append(@, s.parser.data)]
    ELSE [s EXCEPT !.parser = PROTO_ParseByte(@, v)]

Scan(s, bytes) == FoldLeft(ScanByte, s, bytes)

Start(isBegin) == [parser |-> PROTO_Init(isBegin), found |-> <<>>]

\* Mutant: a ring without an end mark is left as it is.
ParseRbKeepsPartial(rb, isBegin) ==
    LET last == SelectInSeq(rb, LAMBDA v : v = End)
    IN  IF last = 0
        THEN [ok |-> FALSE, packet |-> <<>>, rb |-> rb]
        ELSE [ok |-> TRUE,
              packet |-> Scan(Start(isBegin), SubSeq(rb, 1, last)).found[1],
              rb |-> SubSeq(rb, last + 1, Len(rb))]

\* Bytes are taken out up to the first end mark, or all of them if there is
\* none.
PROTO_ParseRb(rb, isBegin) ==
    LET last == SelectInSeq(rb, LAMBDA v : v = End)
    IN  IF last = 0
        THEN [ok |-> FALSE, packet |-> <<>>, rb |-> <<>>]
        ELSE [ok |-> TRUE,
              packet |-> Scan(Start(isBegin), SubSeq(rb, 1, last)).found[1],
              rb |-> SubSeq(rb, last + 1, Len(rb))]

ASSUME SizesAssumption ==
    /\ RB_SIZE \in Nat /\ RB_SIZE >= 2
    /\ BUF_SIZE \in Nat

\* A packet is built in a buffer of MQTT_BUF_SIZE bytes and half the ring.
ASSUME PacketsAssumption ==
    \A p \in Packets :
        p \in Seq(Byte) /\ Len(p) \in 1 .. BUF_SIZE /\ Len(Frame(p)) <= RB_SIZE

-----------------------------------------------------------------------------
VARIABLES
    rb,         \* the bytes in the ring, oldest first
    pc,         \* where the publishing loop is: "idle", "puts" or "gets"
    msg,        \* the packet it is queuing
    result,     \* what MQTT_Publish last returned
    sent        \* the packet MQTT_Task last handed to the connection

vars == <<rb, pc, msg, result, sent>>

Init ==
    /\ rb = <<>>
    /\ pc = "idle"
    /\ msg = <<>>
    /\ result = TRUE
    /\ sent = <<>>

\* MQTT_Publish or MQTT_Subscribe, the packet built.
Publish(p) ==
    /\ pc = "idle"
    /\ pc' = "puts"
    /\ msg' = p
    /\ UNCHANGED <<rb, result, sent>>

\* The condition of the loop.
QUEUE_Puts ==
    /\ pc = "puts"
    /\ LET r == PROTO_AddRb(rb, msg)
       IN  /\ rb' = r.rb
           /\ \/ r.ok /\ pc' = "idle" /\ msg' = <<>> /\ result' = TRUE
              \/ ~r.ok /\ pc' = "gets" /\ UNCHANGED <<msg, result>>
    /\ UNCHANGED sent

\* Mutant: the oldest packet is looked at and not taken out.
GetsPeeks ==
    /\ pc = "gets"
    /\ pc' = "puts"
    /\ UNCHANGED <<rb, msg, result, sent>>

\* Its body: the packet taken out is dropped.
QUEUE_Gets ==
    /\ pc = "gets"
    /\ \E isBegin \in BOOLEAN :
          LET r == PROTO_ParseRb(rb, isBegin)
          IN  /\ rb' = r.rb
              /\ \/ r.ok /\ pc' = "puts" /\ UNCHANGED <<msg, result>>
                 \/ ~r.ok /\ pc' = "idle" /\ msg' = <<>> /\ result' = FALSE
    /\ UNCHANGED sent

\* The MQTT_DATA branch of MQTT_Task, the queue not being empty: a parse that
\* fails sends nothing.
MQTT_Task ==
    /\ pc = "idle"
    /\ rb # <<>>
    /\ \E isBegin \in BOOLEAN :
          LET r == PROTO_ParseRb(rb, isBegin)
          IN  /\ rb' = r.rb
              /\ sent' = IF r.ok THEN r.packet ELSE sent
    /\ UNCHANGED <<pc, msg, result>>

Loop == QUEUE_Puts \/ QUEUE_Gets

Next == (\E p \in Packets : Publish(p)) \/ Loop \/ MQTT_Task

Spec == Init /\ [][Next]_vars

\* A callback that runs is run to its end.
FairSpec == Spec /\ WF_vars(Loop)

-----------------------------------------------------------------------------
(* Properties.                                                              *)

\* The state has the types the code declares, and the ring never overflows.
TypeOK ==
    /\ rb \in Seq(Byte) /\ Len(rb) <= RB_SIZE
    /\ pc \in {"idle", "puts", "gets"}
    /\ msg \in Packets \cup {<<>>}
    /\ result \in BOOLEAN
    /\ sent \in Packets \cup {<<>>}

\* isBegin is read before anything has set it, and it does not matter: however
\* full the ring got and whatever partial frames are in it, what is read from
\* it always starts with a begin mark.
StaleBeginHarmless == PROTO_ParseRb(rb, TRUE) = PROTO_ParseRb(rb, FALSE)

\* Between callbacks a ring that is not empty has a packet in it: MQTT_Task,
\* which only asks whether the ring is empty, never wakes up to send nothing.
NonemptyHasPacket == pc = "idle" /\ rb # <<>> => PROTO_ParseRb(rb, FALSE).ok

\* The packets whose frames are complete in a ring of bytes.
Queued(bytes) == Scan(Start(FALSE), bytes).found

Abstract == INSTANCE PacketQueue WITH q <- Queued(rb), taken <- sent

\* Escaping, partial frames left in the ring, dropping and parsing together
\* lose, change and reorder nothing but the oldest packets.
ImplementsQueue == Abstract!Spec

\* The loop of MQTT_Publish ends: the firmware has no other thread that could
\* make room for it.
PublishEnds == pc # "idle" ~> pc = "idle"

\* A packet that would fit the empty ring is queued in the end: the code calls
\* the other outcome a "Serious buffer error" (mqtt.c:400), and all information
\* is said to be transferred to the server (README.md:47).
FittingPacketQueued == result = TRUE

=============================================================================
