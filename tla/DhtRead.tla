------------------------------ MODULE DhtRead ------------------------------
(***************************************************************************)
(* One reading of a sensor, pulse by pulse: dht_read of driver/dht.c with  *)
(* the single-wire line it listens to.                                     *)
(*                                                                         *)
(* The line is a sequence of segments of one level each: idle high (0),    *)
(* the answer's low and high (1, 2), then a low and a high for each of the *)
(* 40 bits (2k + 3, 2k + 4), a last low (83) and idle high for good (84).  *)
(* The width of the high says what the bit is.  The program polls the line *)
(* in loops that count; nothing but these counts tells it the time, and an *)
(* interrupt (Wi-Fi) may stop it anywhere while the line goes on.          *)
(*                                                                         *)
(* The reading ends with the bytes decoded and their checksum compared;    *)
(* folding them into the means is part of FanControl.  The array data is   *)
(* longer in the code than any reading fills.                              *)
(***************************************************************************)
EXTENDS Dht

CONSTANTS
    Readings,       \* what a sensor may measure, with the type of the sensor
    ShortPolls,     \* polls in the high of a 0, of a 1, and in a low
    LongPolls,
    LowPolls,
    DHT_BREAKTIME,
    MaxFaults,      \* bound on interrupts and failures of the sensor
    MaxSkip         \* bound on the edges one interrupt takes away

\* A DHT11 measures whole units and no frost.
ASSUME ReadingsAssumption ==
    \A r \in Readings :
        \/ /\ r \in [type : {"DHT22"}, h : 0 .. 1000, t : -400 .. 800]
        \/ /\ r \in [type : {"DHT11"}, h : 0 .. 1000, t : 0 .. 800]
           /\ r.h % 10 = 0 /\ r.t % 10 = 0
ASSUME PollsAssumption ==
    /\ {ShortPolls, LongPolls, LowPolls, DHT_BREAKTIME} \subseteq Nat \ {0}
    /\ ShortPolls <= DHT_BREAKTIME
    /\ DHT_BREAKTIME < LongPolls
ASSUME BoundsAssumption == MaxFaults \in Nat /\ MaxSkip \in Nat

VARIABLES
    \* the sensor and its line
    reading,        \* what the sensor has measured
    seg,            \* the segment the line is in
    faults,         \* interrupts and failures still to come
    \* the program
    phase,          \* "drop": waiting for the answer; "poll": counting a
                    \* level; "edge": the count has ended; "check"; "done"
    i, j, laststate, counter, data,
    accepted,       \* what dht_read returns
    \* history
    late,           \* an interrupt took a part of this segment
    missed          \* an interrupt took a whole level, or its edge, away

line == <<reading, seg, faults>>
vars == <<line, phase, i, j, laststate, counter, data, accepted, late, missed>>

-----------------------------------------------------------------------------
(* The line.                                                                *)

Idle == 84
Segments == 0 .. Idle
BitHighs == { s \in 4 .. 82 : s % 2 = 0 }

Level(s) == IF s % 2 = 0 THEN 1 ELSE 0

\* The five bytes of a reading, by the sensors' data sheets: whole units, or
\* tenths with the sign in the highest bit; the last byte is the sum.
Measured(r) ==
    IF r.type = "DHT11"
    THEN <<r.h \div 10, 0, r.t \div 10, 0>>
    ELSE <<r.h \div 256, r.h % 256,
           AbsValue(r.t) \div 256 + (IF r.t < 0 THEN 128 ELSE 0), AbsValue(r.t) % 256>>

Sent == [b \in 0 .. 4 |->
            IF b < 4 THEN Measured(reading)[b + 1]
            ELSE checksum([n \in 0 .. 3 |-> Measured(reading)[n + 1]])]

Weight == <<128, 64, 32, 16, 8, 4, 2, 1>>

\* Bit k of the 40 sent, the highest of each byte first.
SentBit(k) == (Sent[k \div 8] \div Weight[1 + (k % 8)]) % 2

\* The answer's own high is long; a segment is polled this often if nothing
\* interrupts.
Polls(s) ==
    IF s % 2 = 1 THEN LowPolls
    ELSE IF s \in BitHighs /\ SentBit((s - 4) \div 2) = 0 THEN ShortPolls
    ELSE LongPolls

Counted(s) == IF late THEN 0 .. Polls(s) ELSE {Polls(s)}

Init ==
    /\ reading \in Readings
    /\ seg \in {0, Idle}        \* Idle: no sensor answers
    /\ faults = MaxFaults
    /\ phase = "drop"
    /\ i = 0
    /\ j = 0
    /\ laststate = 1
    /\ counter = 0
    /\ data = [b \in 0 .. 5 |-> 0]
    /\ accepted = FALSE
    /\ late = FALSE
    /\ missed = FALSE

-----------------------------------------------------------------------------
(* The program.                                                             *)

\* "wait for pin to drop?": up to DHT_MAXCOUNT polls, many more than an
\* answering sensor needs.
WaitForDrop ==
    /\ phase = "drop"
    /\ \/ /\ Level(seg) = 0
          /\ phase' = "poll"
          /\ UNCHANGED <<seg, late>>
       \/ /\ Level(seg) = 1
          /\ seg # Idle
          /\ seg' = seg + 1
          /\ late' = FALSE
          /\ UNCHANGED phase
       \/ /\ seg = Idle
          /\ phase' = "done"
          /\ UNCHANGED <<seg, late>>
    /\ UNCHANGED <<reading, faults, i, j, laststate, counter, data, accepted, missed>>

\* Mutant: the loop counts for as long as the level lasts.
PollWithoutEnd ==
    /\ phase = "poll"
    /\ \/ /\ Level(seg) = laststate
          /\ seg # Idle
          /\ \E n \in Counted(seg) : counter' = counter + n
          /\ seg' = seg + 1
          /\ late' = FALSE
          /\ UNCHANGED phase
       \/ /\ Level(seg) # laststate
          /\ phase' = "edge"
          /\ UNCHANGED <<seg, late, counter>>
    /\ UNCHANGED <<reading, faults, i, j, laststate, data, accepted, missed>>

\* "Count high time": to the end of the level, or to 1000 polls of a line
\* that has gone idle, which end the reading.
CountLevel ==
    /\ phase = "poll"
    /\ \/ /\ Level(seg) = laststate
          /\ seg # Idle
          /\ \E n \in Counted(seg) : counter' = counter + n
          /\ seg' = seg + 1
          /\ late' = FALSE
          /\ UNCHANGED phase
       \/ /\ Level(seg) # laststate
          /\ phase' = "edge"
          /\ UNCHANGED <<seg, late, counter>>
       \/ /\ Level(seg) = laststate
          /\ seg = Idle
          /\ phase' = "check"
          /\ UNCHANGED <<seg, late, counter>>
    /\ UNCHANGED <<reading, faults, i, j, laststate, data, accepted, missed>>

\* Mutant: one level too many is taken for the sensor's answer.
StoresLate(n) == n > 5 /\ n % 2 = 0

\* Every second level after the answer's is a bit.
Stores(n) == n > 3 /\ n % 2 = 0

\* The level is read once more, not the one that ended the count, and the
\* bit just counted is stored.
NoteEdge ==
    /\ phase = "edge"
    /\ laststate' = Level(seg)
    /\ IF Stores(i)
       THEN /\ data' = [data EXCEPT ![j \div 8] =
                           2 * @ + (IF counter > DHT_BREAKTIME THEN 1 ELSE 0)]
            /\ j' = j + 1
       ELSE UNCHANGED <<data, j>>
    /\ i' = i + 1
    /\ counter' = 0
    /\ phase' = "poll"
    /\ UNCHANGED <<line, accepted, late, missed>>

\* Mutant: the checksum need only be as large.
BelievesLargeChecksum == j >= 39 /\ data[4] >= checksum(data)

Believes == j >= 39 /\ data[4] = checksum(data)

Check ==
    /\ phase = "check"
    /\ accepted' = Believes
    /\ phase' = "done"
    /\ UNCHANGED <<line, i, j, laststate, counter, data, late, missed>>

Program == WaitForDrop \/ CountLevel \/ NoteEdge \/ Check

-----------------------------------------------------------------------------
(* What may go wrong.                                                       *)

Listening == phase \in {"drop", "poll", "edge"}

\* The program stands still while the line goes on by some edges.  It has
\* missed one when it had still to see the level that is now over.
Interrupt ==
    /\ Listening
    /\ faults > 0
    /\ faults' = faults - 1
    /\ late' = TRUE
    /\ \E skip \in 0 .. MaxSkip :
          /\ seg + skip <= Idle
          /\ seg' = seg + skip
          /\ missed' = (missed \/ skip > 1 \/ (skip = 1 /\ Level(seg) # laststate))
          /\ \/ UNCHANGED counter
             \/ /\ phase = "poll" /\ skip > 0 /\ Level(seg) = laststate
                /\ \E n \in 1 .. Polls(seg) : counter' = counter + n
    /\ UNCHANGED <<reading, phase, i, j, laststate, data, accepted>>

\* The sensor falls silent and the pull-up resistor takes the line.
SensorStops ==
    /\ Listening
    /\ faults > 0
    /\ seg # Idle
    /\ faults' = faults - 1
    /\ seg' = Idle
    /\ UNCHANGED <<reading, phase, i, j, laststate, counter, data, accepted, late, missed>>

Next == Program \/ Interrupt \/ SensorStops

\* A processor that is not interrupted for ever goes on.
Spec == Init /\ [][Next]_vars /\ WF_vars(Program)

-----------------------------------------------------------------------------
(* Properties.                                                              *)

Bytes == 0 .. 255

\* Every count and index of the reading stays in its range: 40 bits at most
\* are stored, eight to a byte, and none of them behind the five bytes.
TypeOK ==
    /\ reading \in Readings /\ seg \in Segments /\ faults \in 0 .. MaxFaults
    /\ phase \in {"drop", "poll", "edge", "check", "done"}
    /\ i \in 0 .. Idle /\ j \in 0 .. 40
    /\ laststate \in {0, 1} /\ counter \in Nat
    /\ data \in [0 .. 5 -> Bytes]
    /\ accepted \in BOOLEAN /\ late \in BOOLEAN /\ missed \in BOOLEAN

\* The reading dht_read decodes is the one the sensor made.
Exact ==
    /\ scale_humidity(reading.type, data) = reading.h
    /\ scale_temperature(reading.type, data) = reading.t

\* A sensor that answers, on a line nothing disturbs, is read and believed
\* (dht.c:116-166).
CleanReadingAccepted ==
    phase = "done" /\ faults = MaxFaults /\ seg = Idle /\ i > 0 => accepted /\ Exact

\* One pulse cut short, or a sensor that stops at any point, never makes the
\* program believe a reading that was not made: either shows in the
\* checksum, or does not reach the data (dht.c:151-182).
BelievedIsSent == accepted /\ ~missed => Exact

\* The reading, which runs in a timer callback, comes to an end whatever the
\* line does (dht.c:108, 124-134).
ReadingEnds == <>(phase = "done")

=============================================================================
