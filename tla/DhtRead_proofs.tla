--------------------------- MODULE DhtRead_proofs ---------------------------
(* Proofs about DhtRead for every reading, every width of the pulses and     *)
(* interrupts that take away any number of edges: any number of them, or one *)
(* where that is what a theorem is about.                                    *)
EXTENDS DhtRead, TLAPS

(***************************************************************************)
(* The inductive invariant.                                                *)
(***************************************************************************)

Shape ==
    /\ reading \in Readings /\ seg \in Segments /\ faults \in 0 .. MaxFaults
    /\ phase \in {"drop", "poll", "edge", "check", "done"}
    /\ i \in Nat /\ j \in Nat
    /\ laststate \in {0, 1} /\ counter \in Nat
    /\ data \in [0 .. 5 -> Nat]
    /\ accepted \in BOOLEAN /\ late \in BOOLEAN /\ missed \in BOOLEAN

\* The count of the levels seen is never ahead of the line, since each level
\* noted differs from the one before.
Behind ==
    /\ phase = "drop" => i = 0 /\ laststate = 1
    /\ phase = "edge" \/ (phase = "poll" /\ laststate # Level(seg)) => i < seg
    /\ i <= seg

\* A bit is stored for every second level after the answer's.
EverySecond == j = 0 \/ 2 * j + 3 <= i

\* What n bits are less than.
Room == <<1, 2, 4, 8, 16, 32, 64, 128, 256>>

\* How many of the bits stored have gone to byte b.
StoredIn(b) == IF j <= 8 * b THEN 0 ELSE IF j >= 8 * b + 8 THEN 8 ELSE j - 8 * b

Filled == \A b \in 0 .. 5 : data[b] < Room[StoredIn(b) + 1]

IInv == Shape /\ Behind /\ EverySecond /\ Filled

(***************************************************************************)
(* Lemmas.                                                                 *)
(***************************************************************************)

LEMMA LevelType == \A s \in Segments : Level(s) \in {0, 1}
BY DEF Level

LEMMA LevelAlternates ==
    \A s \in Segments : s # Idle => s + 1 \in Segments /\ Level(s + 1) # Level(s)
BY Z3 DEF Level, Segments, Idle

\* A level counted adds to the count.
LEMMA CountedType ==
    ASSUME NEW s \in Segments, NEW n \in Counted(s) PROVE n \in Nat
BY PollsAssumption DEF Counted, Polls

\* One bit more doubles the room.
LEMMA RoomDoubles ==
    ASSUME NEW n \in 0 .. 7
    PROVE  /\ Room[n + 1] \in Nat
           /\ Room[n + 2] = 2 * Room[n + 1]
BY Z3 DEF Room

\* Forty bits need forty levels and the answer's: a frame has no more.
LEMMA FortyBits ==
    ASSUME IInv PROVE i <= Idle /\ j <= 40
BY Z3 DEF IInv, Shape, Behind, EverySecond, Segments, Idle

\* A full byte has eight bits.
LEMMA BytesFit ==
    ASSUME IInv, NEW b \in 0 .. 5 PROVE data[b] \in Bytes
<1>1. StoredIn(b) \in 0 .. 8
  BY Z3 DEF IInv, Shape, StoredIn
<1>2. \A n \in 0 .. 8 : Room[n + 1] <= 256
  BY Z3 DEF Room
<1>3. data[b] \in Nat /\ data[b] < Room[StoredIn(b) + 1]
  BY DEF IInv, Shape, Filled
<1>4. \A n \in 0 .. 8 : Room[n + 1] \in Nat
  BY Z3 DEF Room
<1> QED BY <1>1, <1>2, <1>3, <1>4, Z3 DEF Bytes

LEMMA IInvImpliesTypeOK == IInv => TypeOK
<1> SUFFICES ASSUME IInv PROVE TypeOK
  OBVIOUS
<1>1. i \in 0 .. Idle /\ j \in 0 .. 40
  BY FortyBits, Z3 DEF IInv, Shape, Idle
<1>2. data \in [0 .. 5 -> Bytes]
  BY BytesFit DEF IInv, Shape
<1> QED BY <1>1, <1>2 DEF TypeOK, IInv, Shape

\* Storing a bit fills the byte it goes to and no other.
LEMMA BitStored ==
    ASSUME IInv, j <= 39, NEW bit \in {0, 1},
           data' = [data EXCEPT ![j \div 8] = 2 * @ + bit], j' = j + 1
    PROVE  data' \in [0 .. 5 -> Nat] /\ Filled'
<1>1. j \in Nat /\ data \in [0 .. 5 -> Nat]
  BY DEF IInv, Shape
<1>2. PICK b \in 0 .. 4 : b = j \div 8 /\ 8 * b <= j /\ j < 8 * b + 8
  BY <1>1, Z3
<1>3. PICK n \in 0 .. 7 : n = j - 8 * b
  BY <1>1, <1>2, Z3
<1>4. data' = [data EXCEPT ![b] = 2 * data[b] + bit]
  BY <1>2
<1>5. data' \in [0 .. 5 -> Nat]
  <2>1. 2 * data[b] + bit \in Nat
    BY <1>1, <1>2
  <2> QED BY <2>1, <1>1, <1>4
<1>6. data'[b] < Room[StoredIn(b)' + 1]
  <2>1. StoredIn(b) = n /\ StoredIn(b)' = n + 1
    BY <1>1, <1>2, <1>3, Z3 DEF StoredIn
  <2>2. data[b] \in Nat /\ data[b] < Room[n + 1]
    BY <1>1, <1>2, <2>1 DEF IInv, Filled
  <2>3. data'[b] = 2 * data[b] + bit
    BY <1>1, <1>2, <1>4
  <2>4. Room[n + 1] \in Nat /\ Room[n + 2] = 2 * Room[n + 1]
    BY RoomDoubles
  <2>5. StoredIn(b)' + 1 = n + 2
    BY <2>1
  <2> QED BY <2>2, <2>3, <2>4, <2>5
<1>7. ASSUME NEW c \in 0 .. 5, c # b PROVE data'[c] < Room[StoredIn(c)' + 1]
  <2>1. data'[c] = data[c]
    BY <1>1, <1>4, <1>7
  <2>2. StoredIn(c)' = StoredIn(c)
    BY <1>1, <1>2, <1>7, Z3 DEF StoredIn
  <2> QED BY <2>1, <2>2 DEF IInv, Filled
<1>8. Filled'
  <2> SUFFICES ASSUME NEW c \in 0 .. 5 PROVE data'[c] < Room[StoredIn(c)' + 1]
    BY DEF Filled
  <2> QED BY <1>6, <1>7
<1> QED BY <1>5, <1>8

(***************************************************************************)
(* Every step.                                                             *)
(***************************************************************************)

LEMMA InitIInv == Init => IInv
<1> SUFFICES ASSUME Init PROVE IInv
  OBVIOUS
<1>1. Shape
  <2>1. faults \in 0 .. MaxFaults /\ seg \in Segments /\ counter \in Nat
    BY BoundsAssumption DEF Init, Segments, Idle
  <2>2. data \in [0 .. 5 -> Nat]
    BY DEF Init
  <2>3. accepted \in BOOLEAN /\ late \in BOOLEAN /\ missed \in BOOLEAN
    BY Zenon DEF Init
  <2> QED BY <2>1, <2>2, <2>3 DEF Init, Shape
<1>2. Behind /\ EverySecond
  BY Z3 DEF Init, Behind, EverySecond, Idle
<1>3. Filled
  <2>1. ASSUME NEW b \in 0 .. 5 PROVE data[b] = 0 /\ StoredIn(b) = 0
    BY Z3 DEF Init, StoredIn
  <2>2. Room[0 + 1] = 1
    BY DEF Room
  <2> QED BY <2>1, <2>2 DEF Filled
<1> QED BY <1>1, <1>2, <1>3 DEF IInv

\* The steps that store nothing keep the bytes.
LEMMA FilledKept == Filled /\ UNCHANGED <<data, j>> => Filled'
BY DEF Filled, StoredIn

LEMMA WaitStep == IInv /\ WaitForDrop => IInv'
<1> SUFFICES ASSUME IInv, WaitForDrop PROVE IInv'
  OBVIOUS
<1> USE DEF IInv, WaitForDrop
<1>1. Shape'
  BY LevelAlternates DEF Shape
<1>2. Behind'
  BY LevelAlternates, Z3 DEF Behind, Shape, Segments, Level, Idle
<1>3. EverySecond' /\ Filled'
  BY FilledKept DEF EverySecond
<1> QED BY <1>1, <1>2, <1>3

LEMMA CountStep == IInv /\ CountLevel => IInv'
<1> SUFFICES ASSUME IInv, CountLevel PROVE IInv'
  OBVIOUS
<1> USE DEF IInv, CountLevel
<1>1. Shape'
  <2>1. counter' \in Nat
    <3>1. CASE UNCHANGED counter
      BY <3>1 DEF Shape
    <3>2. CASE \E n \in Counted(seg) : counter' = counter + n
      BY <3>2, CountedType DEF Shape
    <3> QED BY <3>1, <3>2
  <2>2. seg' \in Segments
    BY LevelAlternates DEF Shape
  <2>3. late' \in BOOLEAN
    BY Zenon DEF Shape
  <2>4. phase' \in {"drop", "poll", "edge", "check", "done"}
    BY DEF Shape
  <2> QED BY <2>1, <2>2, <2>3, <2>4 DEF Shape
<1>2. Behind'
  BY LevelAlternates, Z3 DEF Behind, Shape, Segments, Level, Idle
<1>3. EverySecond' /\ Filled'
  BY FilledKept DEF EverySecond
<1> QED BY <1>1, <1>2, <1>3

LEMMA NoteStep == IInv /\ NoteEdge => IInv'
<1> SUFFICES ASSUME IInv, NoteEdge PROVE IInv'
  OBVIOUS
<1>1. /\ i \in Nat /\ j \in Nat /\ seg \in 0 .. 84
      /\ i < seg /\ i' = i + 1 /\ laststate' = Level(seg) /\ seg' = seg
      /\ phase' = "poll"
  BY Z3 DEF IInv, Shape, Behind, NoteEdge, Segments, Idle, line
<1>2. Behind'
  BY <1>1, Z3 DEF Behind, Level
<1>3. CASE Stores(i)
  <2> DEFINE bit == IF counter > DHT_BREAKTIME THEN 1 ELSE 0
  <2>1. bit \in {0, 1} /\ data' = [data EXCEPT ![j \div 8] = 2 * @ + bit] /\ j' = j + 1
    BY <1>3 DEF NoteEdge
  <2>2. j <= 39 /\ EverySecond'
    BY <1>1, <1>3, <2>1, Z3 DEF EverySecond, IInv, Stores
  <2> HIDE DEF bit
  <2>3. data' \in [0 .. 5 -> Nat] /\ Filled'
    BY <2>1, <2>2, BitStored
  <2>4. Shape'
    BY <1>1, <2>1, <2>3, LevelType DEF IInv, Shape, NoteEdge, line
  <2> QED BY <1>2, <2>2, <2>3, <2>4 DEF IInv
<1>4. CASE ~Stores(i)
  <2>1. UNCHANGED <<data, j>>
    BY <1>4 DEF NoteEdge
  <2>2. EverySecond'
    BY <1>1, <2>1, Z3 DEF EverySecond, IInv
  <2>3. Shape'
    BY <1>1, <2>1, LevelType DEF IInv, Shape, NoteEdge, line
  <2> QED BY <1>2, <2>1, <2>2, <2>3, FilledKept DEF IInv
<1> QED BY <1>3, <1>4

LEMMA CheckStep == IInv /\ Check => IInv'
<1> SUFFICES ASSUME IInv, Check PROVE IInv'
  OBVIOUS
<1> USE DEF IInv, Check
<1>1. Believes \in BOOLEAN
  BY DEF Believes
<1>2. Shape'
  BY <1>1 DEF Shape, line
<1>3. Behind' /\ EverySecond' /\ Filled'
  BY FilledKept DEF Behind, EverySecond, line
<1> QED BY <1>2, <1>3

\* The line only ever runs ahead.
LEMMA FaultStep == IInv /\ (Interrupt \/ SensorStops) => IInv'
<1> SUFFICES ASSUME IInv, Interrupt \/ SensorStops PROVE IInv'
  OBVIOUS
<1>1. /\ seg \in 0 .. 84 /\ seg' \in 0 .. 84 /\ seg <= seg'
      /\ i \in Nat
      /\ UNCHANGED <<phase, i, j, laststate, data>>
  BY BoundsAssumption, Z3 DEF IInv, Shape, Interrupt, SensorStops, Segments, Idle
<1>2. Shape'
  <2>1. faults' \in 0 .. MaxFaults
    BY BoundsAssumption, Z3 DEF IInv, Shape, Interrupt, SensorStops
  <2>2. counter' \in Nat
    BY PollsAssumption DEF IInv, Shape, Interrupt, SensorStops
  <2>3. late' \in BOOLEAN /\ missed' \in BOOLEAN
    BY Zenon DEF IInv, Shape, Interrupt, SensorStops
  <2>4. UNCHANGED <<reading, accepted>>
    BY DEF Interrupt, SensorStops
  <2> QED BY <1>1, <2>1, <2>2, <2>3, <2>4 DEF IInv, Shape, Segments, Idle
<1>3. Behind'
  <2>1. CASE seg' = seg
    BY <1>1, <2>1 DEF IInv, Behind
  <2>2. CASE seg < seg'
    BY <1>1, <2>2 DEF IInv, Behind
  <2> QED BY <1>1, <2>1, <2>2
<1>4. EverySecond' /\ Filled'
  BY <1>1, FilledKept DEF IInv, EverySecond
<1> QED BY <1>2, <1>3, <1>4 DEF IInv

\* Whatever interrupts do, each level noted is another one of the frame and
\* each bit stored takes two of them (dht.c:126-154).
THEOREM Invariance == Spec => []IInv
<1>1. Init => IInv
  BY InitIInv
<1>2. IInv /\ [Next]_vars => IInv'
  <2> SUFFICES ASSUME IInv, [Next]_vars PROVE IInv'
    OBVIOUS
  <2>1. CASE Next
    BY <2>1, WaitStep, CountStep, NoteStep, CheckStep, FaultStep DEF Next, Program
  <2>2. CASE UNCHANGED vars
    BY <2>2, FilledKept DEF IInv, Shape, Behind, EverySecond, vars, line
  <2> QED BY <2>1, <2>2
<1> QED BY <1>1, <1>2, PTL DEF Spec

\* Every reading, however disturbed, stores 40 bits at most, eight to a byte:
\* data is never filled past its five bytes and no byte past eight bits
\* (dht.c:147-153).
THEOREM FrameFits == Spec => []TypeOK
BY Invariance, IInvImpliesTypeOK, PTL

(***************************************************************************)
(* A reading that nothing disturbs.                                        *)
(***************************************************************************)

\* The bits stored so far are the first ones of what the sensor sends.
DecodedIn(b) == data[b] = Sent[b] \div Room[9 - StoredIn(b)]
Decoded == \A b \in 0 .. 4 : DecodedIn(b)

\* The polls counted in the level that is over; the one the line had dropped
\* from before the first count took none.
Width == IF i = 0 THEN 0 ELSE Polls(i)

\* Program and line go in step, one level after the other.
InStep ==
    /\ ~late
    /\ phase = "drop" => seg \in {0, 1, Idle} /\ i = 0 /\ counter = 0
    /\ phase = "poll" => \/ seg = i /\ i > 0 /\ laststate = Level(seg) /\ counter = 0
                         \/ seg = i + 1 /\ laststate # Level(seg) /\ counter = Width
    /\ phase = "edge" => seg = i + 1 /\ laststate # Level(seg) /\ counter = Width
    /\ phase = "check" => i = Idle
    /\ phase = "done" => i = 0 \/ (i = Idle /\ (accepted <=> Believes))
    /\ j = IF i < 4 THEN 0 ELSE (i - 3) \div 2

Clean == faults = MaxFaults => InStep /\ Decoded

\* The sensor sends bytes.
LEMMA SentType == IInv => \A b \in 0 .. 4 : Sent[b] \in Bytes
<1> SUFFICES ASSUME IInv PROVE \A b \in 0 .. 4 : Sent[b] \in Bytes
  OBVIOUS
<1>1. \/ reading.type = "DHT22" /\ reading.h \in 0 .. 1000 /\ reading.t \in -400 .. 800
      \/ reading.type = "DHT11" /\ reading.h \in 0 .. 1000 /\ reading.t \in 0 .. 800
  BY ReadingsAssumption DEF IInv, Shape
<1>2. \A n \in 1 .. 4 : Measured(reading)[n] \in Bytes
  <2>1. \A h \in 0 .. 1000 : {h \div 10, h \div 256, h % 256} \subseteq Bytes
    BY Z3 DEF Bytes
  <2>2. \A t \in -400 .. 800 : /\ AbsValue(t) % 256 \in Bytes
                               /\ AbsValue(t) \div 256 + (IF t < 0 THEN 128 ELSE 0) \in Bytes
    BY Z3 DEF Bytes, AbsValue
  <2>3. 0 \in Bytes
    BY DEF Bytes
  <2>4. \A t \in 0 .. 800 : t \div 10 \in Bytes
    BY Z3 DEF Bytes
  <2>5. ASSUME NEW x1 \in Bytes, NEW x2 \in Bytes, NEW x3 \in Bytes, NEW x4 \in Bytes,
               Measured(reading) = <<x1, x2, x3, x4>>
        PROVE  \A n \in 1 .. 4 : Measured(reading)[n] \in Bytes
    BY <2>5
  <2>6. CASE reading.type = "DHT11"
    <3> DEFINE h == reading.h
               t == reading.t
    <3>1. h \in 0 .. 1000 /\ t \in 0 .. 800
      BY <1>1, <2>6
    <3>2. Measured(reading) = <<h \div 10, 0, t \div 10, 0>>
      BY <2>6 DEF Measured
    <3> HIDE DEF h, t
    <3>3. h \div 10 \in Bytes /\ 0 \in Bytes /\ t \div 10 \in Bytes
      BY <3>1, <2>1, <2>3, <2>4, SMTT(30)
    <3> QED BY <3>2, <3>3, <2>5
  <2>7. CASE reading.type = "DHT22"
    <3> DEFINE h == reading.h
               t == reading.t
               x == AbsValue(t) \div 256 + (IF t < 0 THEN 128 ELSE 0)
    <3>1. h \in 0 .. 1000 /\ t \in -400 .. 800
      BY <1>1, <2>7
    <3>2. Measured(reading) = <<h \div 256, h % 256, x, AbsValue(t) % 256>>
      BY <2>7 DEF Measured
    <3>3. x \in Bytes /\ AbsValue(t) % 256 \in Bytes
      BY <3>1, <2>2, SMTT(30)
    <3> HIDE DEF h, t, x
    <3>4. h \div 256 \in Bytes /\ h % 256 \in Bytes
      BY <3>1, <2>1
    <3> QED BY <3>2, <3>3, <3>4, <2>5
  <2> QED BY <1>1, <2>6, <2>7
<1>3. \A x1, x2, x3, x4 \in Bytes : (x1 + x2 + x3 + x4) % 256 \in Bytes
  BY Z3 DEF Bytes
<1>4. ASSUME NEW b \in 0 .. 3 PROVE Sent[b] = Measured(reading)[b + 1]
  BY DEF Sent
<1>5. Sent[4] = (Measured(reading)[1] + Measured(reading)[2] + Measured(reading)[3]
                   + Measured(reading)[4]) % 256
  BY DEF Sent, checksum
<1> QED BY <1>2, <1>3, <1>4, <1>5

LEMMA SentKept ==
    UNCHANGED reading => Sent' = Sent /\ \A s : Polls(s)' = Polls(s)
BY DEF Sent, Polls, SentBit

\* A bit more of x: the quotient by the next lower power of two.
LEMMA OneBitMore ==
    ASSUME NEW x \in Bytes, NEW n \in 0 .. 7
    PROVE  x \div Room[8 - n] = 2 * (x \div Room[9 - n]) + ((x \div Weight[1 + n]) % 2)
<1>1. ASSUME NEW w \in {1, 2, 4, 8, 16, 32, 64, 128}
      PROVE  x \div w = 2 * (x \div (2 * w)) + ((x \div w) % 2)
  <2>1. x \in Nat
    BY DEF Bytes
  <2>2. CASE w = 1
    BY <2>1, <2>2, Z3
  <2>3. CASE w = 2
    BY <2>1, <2>3, Z3
  <2>4. CASE w = 4
    BY <2>1, <2>4, Z3
  <2>5. CASE w = 8
    BY <2>1, <2>5, Z3
  <2>6. CASE w = 16
    BY <2>1, <2>6, Z3
  <2>7. CASE w = 32
    BY <2>1, <2>7, Z3
  <2>8. CASE w = 64
    BY <2>1, <2>8, Z3
  <2>9. CASE w = 128
    BY <2>1, <2>9, Z3
  <2> QED BY <2>2, <2>3, <2>4, <2>5, <2>6, <2>7, <2>8, <2>9
<1>2. /\ Room[8 - n] \in {1, 2, 4, 8, 16, 32, 64, 128}
      /\ Room[9 - n] = 2 * Room[8 - n]
      /\ Weight[1 + n] = Room[8 - n]
  BY Z3 DEF Room, Weight
<1> QED BY <1>1, <1>2

LEMMA ByteKept ==
    ASSUME NEW b \in 0 .. 4
    PROVE  DecodedIn(b) /\ UNCHANGED <<reading, data, j>> => DecodedIn(b)'
<1> SUFFICES ASSUME DecodedIn(b), UNCHANGED <<reading, data, j>> PROVE DecodedIn(b)'
  OBVIOUS
<1>1. Sent' = Sent
  BY SentKept
<1>2. StoredIn(b)' = StoredIn(b)
  BY DEF StoredIn
<1> QED BY <1>1, <1>2 DEF DecodedIn

LEMMA DecodedKept ==
    Decoded /\ UNCHANGED <<reading, data, j>> => Decoded'
BY ByteKept DEF Decoded

\* Storing a bit leaves the other bytes alone.
LEMMA OtherByteKept ==
    ASSUME IInv, j <= 39, NEW bit \in {0, 1}, NEW c \in 0 .. 4, c # j \div 8, DecodedIn(c),
           data' = [data EXCEPT ![j \div 8] = 2 * @ + bit], j' = j + 1, UNCHANGED reading
    PROVE  DecodedIn(c)'
<1>1. j \in Nat /\ data \in [0 .. 5 -> Nat]
  BY DEF IInv, Shape
<1>2. PICK b \in 0 .. 4 : b = j \div 8 /\ 8 * b <= j /\ j < 8 * b + 8
  BY <1>1, Z3
<1>3. data'[c] = data[c]
  BY <1>1, <1>2
<1>4. StoredIn(c)' = StoredIn(c)
  BY <1>1, <1>2, Z3 DEF StoredIn
<1>5. Sent' = Sent
  BY SentKept
<1> QED BY <1>3, <1>4, <1>5 DEF DecodedIn

\* Storing the bit that was sent leaves the byte it goes to right.
LEMMA RightBitStored ==
    ASSUME IInv, j <= 39, NEW b \in 0 .. 4, b = j \div 8, DecodedIn(b),
           data' = [data EXCEPT ![j \div 8] = 2 * @ + SentBit(j)], j' = j + 1,
           UNCHANGED reading
    PROVE  DecodedIn(b)'
<1>1. j \in Nat /\ data \in [0 .. 5 -> Nat]
  BY DEF IInv, Shape
<1>2. 8 * b <= j /\ j < 8 * b + 8
  BY <1>1, Z3
<1>3. PICK n \in 0 .. 7 : n = j - 8 * b /\ n = j % 8
  BY <1>1, <1>2, Z3
<1>4. StoredIn(b) = n /\ StoredIn(b)' = n + 1
  BY <1>1, <1>2, <1>3, Z3 DEF StoredIn
<1>5. data[b] = Sent[b] \div Room[9 - n]
  BY <1>4 DEF DecodedIn
<1>6. SentBit(j) = (Sent[b] \div Weight[1 + n]) % 2
  BY <1>3 DEF SentBit
<1>7. data'[b] = 2 * data[b] + SentBit(j)
  BY <1>1
<1>8. data'[b] = Sent[b] \div Room[8 - n]
  BY <1>5, <1>6, <1>7, SentType, OneBitMore
<1>9. 9 - (StoredIn(b)') = 8 - n
  BY <1>4
<1>10. Sent' = Sent
  BY SentKept
<1> QED BY <1>8, <1>9, <1>10 DEF DecodedIn

LEMMA InitClean == Init => Clean
<1> SUFFICES ASSUME Init PROVE InStep /\ Decoded
  BY DEF Clean
<1>1. InStep
  BY DEF Init, InStep
<1>2. ASSUME NEW b \in 0 .. 4 PROVE data[b] = Sent[b] \div Room[9 - StoredIn(b)]
  <2>1. data[b] = 0 /\ StoredIn(b) = 0
    BY Z3 DEF Init, StoredIn
  <2>2. Sent[b] \in Bytes
    BY InitIInv, SentType
  <2>3. Room[9 - 0] = 256
    BY DEF Room
  <2>4. Sent[b] \div 256 = 0
    BY <2>2, Z3 DEF Bytes
  <2> QED BY <2>1, <2>3, <2>4
<1> QED BY <1>1, <1>2 DEF Decoded, DecodedIn

LEMMA WaitClean == IInv /\ Clean /\ WaitForDrop => Clean'
<1> SUFFICES ASSUME IInv, InStep, Decoded, WaitForDrop PROVE InStep' /\ Decoded'
  BY DEF Clean, WaitForDrop
<1>1. seg = Idle => Level(seg) = 1
  BY Z3 DEF Level, Idle
<1>2. Level(1) = 0 /\ Level(0) = 1
  BY DEF Level
<1>3. Idle # 0 /\ Idle # 1
  BY DEF Idle
<1>4. InStep'
  BY <1>1, <1>2, <1>3 DEF InStep, WaitForDrop, Width, IInv, Behind
<1>5. Decoded'
  BY DecodedKept DEF WaitForDrop
<1> QED BY <1>4, <1>5

LEMMA CountClean == IInv /\ Clean /\ CountLevel => Clean'
<1> SUFFICES ASSUME IInv, InStep, Decoded, CountLevel PROVE InStep' /\ Decoded'
  BY DEF Clean, CountLevel
<1>1. seg \in Segments /\ i \in Nat /\ UNCHANGED <<reading, i, j, data, laststate>>
  BY DEF IInv, Shape, CountLevel
<1>2. Width' = Width
  BY <1>1, SentKept DEF Width
<1>3. Decoded'
  BY <1>1, DecodedKept
<1>4. CASE Level(seg) = laststate /\ seg # Idle
  <2>1. seg = i /\ i > 0 /\ counter = 0 /\ ~late
    BY <1>4 DEF InStep, CountLevel
  <2>2. seg' = i + 1 /\ phase' = "poll" /\ ~late'
    BY <1>4, <2>1 DEF CountLevel
  <2>3. counter' = Polls(i)
    <3>1. PICK n \in Counted(i) : counter' = 0 + n
      BY <1>4, <2>1 DEF CountLevel
    <3>2. n = Polls(i) /\ n \in Nat
      BY <2>1, <3>1, <1>1, CountedType DEF Counted
    <3> QED BY <3>1, <3>2
  <2>4. Level(seg') # laststate
    BY <1>1, <1>4, <2>1, <2>2, LevelAlternates
  <2>5. Level(seg)' = Level(seg')
    BY DEF Level
  <2>6. Width' = Polls(i)
    BY <1>2, <2>1 DEF Width
  <2> QED BY <1>1, <1>3, <2>2, <2>3, <2>4, <2>5, <2>6 DEF InStep
<1>5. CASE Level(seg) # laststate
  <2>1. seg = i + 1 /\ counter = Width /\ phase' = "edge"
        /\ UNCHANGED <<seg, late, counter>>
    BY <1>5 DEF InStep, CountLevel
  <2>2. laststate' # Level(seg)'
    BY <1>1, <1>5, <2>1 DEF Level
  <2> QED BY <1>1, <1>3, <1>2, <2>1, <2>2 DEF InStep
<1>6. CASE Level(seg) = laststate /\ seg = Idle
  <2>1. seg = i /\ phase' = "check" /\ UNCHANGED <<seg, late, counter>>
    BY <1>6 DEF InStep, CountLevel
  <2> QED BY <1>1, <1>3, <1>6, <2>1 DEF InStep
<1> QED BY <1>4, <1>5, <1>6

\* The width of a bit's high, and nothing else, is what is stored.
LEMMA BitSeen ==
    ASSUME IInv, phase = "edge", Stores(i), j = (i - 3) \div 2, counter = Polls(i)
    PROVE  (IF counter > DHT_BREAKTIME THEN 1 ELSE 0) = SentBit(j)
<1>1. i \in Nat /\ i > 3 /\ i % 2 = 0 /\ i < 84
  BY Z3 DEF IInv, Shape, Behind, Stores, Segments, Idle
<1>2. i \in BitHighs /\ j = (i - 4) \div 2
  BY <1>1, Z3 DEF BitHighs
<1>3. j \in 0 .. 39
  BY <1>1, Z3
<1>4. SentBit(j) \in {0, 1}
  <2>1. j \div 8 \in 0 .. 4 /\ 1 + (j % 8) \in 1 .. 8
    BY <1>3, Z3
  <2>2. Sent[j \div 8] \in Bytes
    BY <2>1, SentType
  <2>3. \A x \in Bytes : \A n \in 1 .. 8 : (x \div Weight[n]) % 2 \in {0, 1}
    BY Z3 DEF Bytes, Weight
  <2> QED BY <2>1, <2>2, <2>3 DEF SentBit
<1>5. counter = IF SentBit(j) = 0 THEN ShortPolls ELSE LongPolls
  BY <1>1, <1>2 DEF Polls
<1> QED BY <1>4, <1>5, PollsAssumption

LEMMA NoteClean == IInv /\ Clean /\ NoteEdge => Clean'
<1> SUFFICES ASSUME IInv, InStep, Decoded, NoteEdge PROVE InStep' /\ Decoded'
  BY DEF Clean, NoteEdge, line
<1>1. /\ i \in Nat /\ j \in Nat /\ i' = i + 1 /\ seg = i + 1
      /\ j = IF i < 4 THEN 0 ELSE (i - 3) \div 2
      /\ laststate' = Level(seg) /\ counter' = 0 /\ phase = "edge" /\ phase' = "poll"
      /\ UNCHANGED <<reading, seg, late>>
  BY DEF IInv, Shape, InStep, NoteEdge, line
<1>2. Level(seg)' = Level(seg)
  BY <1>1 DEF Level
<1>3. CASE Stores(i)
  <2>0. j = (i - 3) \div 2 /\ counter = Polls(i)
    BY <1>1, <1>3, Z3 DEF Stores, InStep, Width
  <2>1. j' = j + 1 /\ data' = [data EXCEPT ![j \div 8] = 2 * @ + SentBit(j)]
    BY <1>1, <1>3, <2>0, BitSeen DEF NoteEdge
  <2>2. j' = IF i' < 4 THEN 0 ELSE (i' - 3) \div 2
    BY <1>1, <1>3, <2>1, Z3 DEF Stores
  <2>3. InStep'
    BY <1>1, <1>2, <2>2 DEF InStep
  <2>4. Decoded'
    <3>1. j <= 39
      BY <1>1, <1>3, FortyBits, Z3 DEF Stores, Idle, IInv, Shape, Behind, Segments
    <3>2. SentBit(j) \in {0, 1}
      BY <1>1, <1>3, <2>0, BitSeen
    <3> SUFFICES ASSUME NEW c \in 0 .. 4 PROVE DecodedIn(c)'
      BY DEF Decoded
    <3>3. DecodedIn(c)
      BY DEF Decoded
    <3>4. CASE c = j \div 8
      BY <1>1, <2>1, <3>1, <3>3, <3>4, RightBitStored
    <3>5. CASE c # j \div 8
      BY <1>1, <2>1, <3>1, <3>2, <3>3, <3>5, OtherByteKept
    <3> QED BY <3>4, <3>5
  <2> QED BY <2>3, <2>4
<1>4. CASE ~Stores(i)
  <2>1. UNCHANGED <<data, j>>
    BY <1>4 DEF NoteEdge
  <2>2. j' = IF i' < 4 THEN 0 ELSE (i' - 3) \div 2
    BY <1>1, <1>4, <2>1, Z3 DEF Stores
  <2>3. InStep'
    BY <1>1, <1>2, <2>2 DEF InStep
  <2> QED BY <1>1, <2>1, <2>3, DecodedKept
<1> QED BY <1>3, <1>4

LEMMA CheckClean == IInv /\ Clean /\ Check => Clean'
<1> SUFFICES ASSUME IInv, InStep, Decoded, Check PROVE InStep' /\ Decoded'
  BY DEF Clean, Check, line
<1>1. InStep'
  <2>1. Believes' <=> Believes
    BY DEF Believes, Check
  <2> QED BY <2>1 DEF InStep, Check, line
<1>2. Decoded'
  BY DecodedKept DEF Check, line
<1> QED BY <1>1, <1>2

LEMMA FaultUnclean == IInv /\ (Interrupt \/ SensorStops) => Clean'
BY BoundsAssumption DEF IInv, Shape, Clean, Interrupt, SensorStops

\* The first four bytes decoded are the reading that was sent.
LEMMA DataExact ==
    ASSUME IInv, \A b \in 0 .. 3 : data[b] = Sent[b] PROVE Exact
<1>0. /\ data[0] = Measured(reading)[1]
      /\ data[1] = Measured(reading)[2]
      /\ data[2] = Measured(reading)[3]
      /\ data[3] = Measured(reading)[4]
  BY DEF Sent
<1> DEFINE h == reading.h
           t == reading.t
<1>1. CASE reading.type = "DHT11"
  <2>1. /\ h \in 0 .. 1000 /\ t \in 0 .. 800
        /\ h % 10 = 0 /\ t % 10 = 0
    BY <1>1, ReadingsAssumption DEF IInv, Shape
  <2>2. data[0] = h \div 10 /\ data[2] = t \div 10
    BY <1>0, <1>1 DEF Measured
  <2>3. scale_humidity(reading.type, data) = 10 * data[0]
        /\ scale_temperature(reading.type, data) = 10 * data[2]
    BY <1>1 DEF scale_humidity, scale_temperature
  <2> HIDE DEF h, t
  <2>4. 10 * data[0] = h /\ 10 * data[2] = t
    BY <2>1, <2>2, Z3
  <2> QED BY <2>3, <2>4 DEF Exact, h, t
<1>2. CASE reading.type = "DHT22"
  <2>1. h \in 0 .. 1000 /\ t \in -400 .. 800
    BY <1>2, ReadingsAssumption DEF IInv, Shape
  <2>2. /\ data[0] = h \div 256 /\ data[1] = h % 256
        /\ data[2] = AbsValue(t) \div 256 + (IF t < 0 THEN 128 ELSE 0)
        /\ data[3] = AbsValue(t) % 256
    BY <1>0, <1>2 DEF Measured
  <2>3. scale_humidity(reading.type, data) = 256 * data[0] + data[1]
    BY <1>2 DEF scale_humidity
  <2>4. scale_temperature(reading.type, data)
          = IF data[2] >= 128 THEN -((256 * (data[2] % 128)) + data[3])
                              ELSE (256 * (data[2] % 128)) + data[3]
    BY <1>2 DEF scale_temperature
  <2> HIDE DEF h, t
  <2>5. 256 * data[0] + data[1] = h
    BY <2>1, <2>2, Z3
  <2>6. scale_temperature(reading.type, data) = t
    <3>1. AbsValue(t) \in 0 .. 800
      BY <2>1, Z3 DEF AbsValue
    <3>2. 256 * (AbsValue(t) \div 256) + (AbsValue(t) % 256) = AbsValue(t)
          /\ AbsValue(t) \div 256 \in 0 .. 3
      BY <3>1, Z3
    <3>3. CASE t < 0
      <4>1. AbsValue(t) = -t
        BY <3>3 DEF AbsValue
      <4>2. data[2] >= 128 /\ data[2] % 128 = AbsValue(t) \div 256
        BY <2>2, <3>2, <3>3, Z3
      <4> QED BY <2>1, <2>2, <2>4, <3>2, <4>1, <4>2
    <3>4. CASE ~(t < 0)
      <4>1. AbsValue(t) = t
        BY <3>4 DEF AbsValue
      <4>2. ~(data[2] >= 128) /\ data[2] % 128 = AbsValue(t) \div 256
        BY <2>2, <3>2, <3>4, Z3
      <4> QED BY <2>1, <2>2, <2>4, <3>2, <4>1, <4>2
    <3> QED BY <3>3, <3>4
  <2> QED BY <2>3, <2>5, <2>6 DEF Exact, h, t
<1>3. reading.type \in {"DHT11", "DHT22"}
  BY ReadingsAssumption DEF IInv, Shape
<1> QED BY <1>1, <1>2, <1>3

\* A byte of which eight bits are decoded is the one sent.
LEMMA ByteDecoded ==
    ASSUME IInv, NEW b \in 0 .. 4, j >= 8 * b + 8, DecodedIn(b) PROVE data[b] = Sent[b]
<1>1. StoredIn(b) = 8
  BY Z3 DEF StoredIn, IInv, Shape
<1>2. Room[9 - 8] = 1
  BY DEF Room
<1>3. Sent[b] \in Bytes
  BY SentType
<1>4. Sent[b] \div 1 = Sent[b]
  BY <1>3, Z3 DEF Bytes
<1> QED BY <1>1, <1>2, <1>4 DEF DecodedIn

LEMMA SentChecksum == Sent[4] = (Sent[0] + Sent[1] + Sent[2] + Sent[3]) % 256
<1>1. /\ Sent[0] = Measured(reading)[1]
      /\ Sent[1] = Measured(reading)[2]
      /\ Sent[2] = Measured(reading)[3]
      /\ Sent[3] = Measured(reading)[4]
  BY DEF Sent
<1> QED BY <1>1 DEF Sent, checksum

\* Forty bits decoded are believed.
LEMMA AllDecoded ==
    ASSUME IInv, InStep, Decoded, i = Idle PROVE Believes /\ Exact
<1>1. j = 40
  BY Z3 DEF InStep, Idle
<1>2. ASSUME NEW b \in 0 .. 4 PROVE data[b] = Sent[b]
  BY <1>1, ByteDecoded DEF Decoded
<1>3. Believes
  BY <1>1, <1>2, SentChecksum DEF Believes, checksum
<1> QED BY <1>2, <1>3, DataExact

LEMMA AlwaysClean == Spec => []Clean
<1>1. Init => Clean
  BY InitClean
<1>2. IInv /\ Clean /\ [Next]_vars => Clean'
  <2> SUFFICES ASSUME IInv, Clean, [Next]_vars PROVE Clean'
    OBVIOUS
  <2>1. CASE Next
    BY <2>1, WaitClean, CountClean, NoteClean, CheckClean, FaultUnclean DEF Next, Program
  <2>2. CASE UNCHANGED vars
    <3> SUFFICES ASSUME InStep, Decoded PROVE InStep' /\ Decoded'
      BY <2>2 DEF Clean, vars, line
    <3>1. Width' = Width
      BY <2>2, SentKept DEF Width, vars, line
    <3>2. Level(seg)' = Level(seg) /\ (Believes' <=> Believes)
      BY <2>2 DEF Level, Believes, vars, line
    <3>3. InStep'
      BY <2>2, <3>1, <3>2 DEF InStep, vars, line
    <3> QED BY <2>2, <3>3, DecodedKept DEF vars, line
  <2> QED BY <2>1, <2>2
<1> QED BY <1>1, <1>2, Invariance, PTL DEF Spec

\* For every reading of either sensor and every width of the pulses on their
\* side of DHT_BREAKTIME, a sensor that answers on a line nothing disturbs is
\* read, believed and decoded to what it has measured (dht.c:113-182).
THEOREM CleanReadingRead == Spec => []CleanReadingAccepted
<1>1. IInv /\ Clean => CleanReadingAccepted
  BY AllDecoded DEF Clean, CleanReadingAccepted, InStep
<1> QED BY <1>1, AlwaysClean, Invariance, PTL

(***************************************************************************)
(* A reading that one interrupt shortens, or in which the sensor stops.    *)
(***************************************************************************)

\* Program and line go in step, though a level may be counted short.
Along ==
    /\ phase = "drop" => seg \in {0, 1, Idle} /\ i = 0
    /\ phase = "poll" => \/ seg = i /\ i > 0 /\ laststate = Level(seg)
                         \/ seg = i + 1 /\ laststate # Level(seg)
    /\ phase = "edge" => seg = i + 1
    /\ phase = "check" => i = Idle
    /\ phase = "done" => i = 0 \/ i = Idle
    /\ j = IF i < 4 THEN 0 ELSE (i - 3) \div 2

\* A bit is stored behind a high, so that the line is then in a low: whatever
\* the interrupt took is over with that low, and the highs to come are
\* counted whole.
WholeFromHere ==
    /\ phase # "drop"
    /\ late => Level(seg) = 0
    /\ phase = "poll" /\ seg = i => counter = 0
    /\ phase \in {"poll", "edge"} /\ seg = i + 1 /\ Level(i) = 1 => counter = Polls(i)

\* Before a bit was stored that the interrupt may have changed.
Unspoilt == Along /\ Decoded

\* Behind it: only the byte it went to may be wrong.
OneByteOff ==
    /\ Along
    /\ WholeFromHere
    /\ \E b \in 0 .. 4 : \A c \in 0 .. 4 : c # b => DecodedIn(c)

\* The sensor has stopped: no bit will be stored but the one just counted.
Stopped ==
    /\ seg = Idle
    /\ Decoded
    /\ phase = "poll" /\ laststate = 0 => ~Stores(i)
    /\ phase = "edge" /\ Stores(i) => j = (i - 3) \div 2 /\ counter = Polls(i)

Disturbed == Unspoilt \/ OneByteOff \/ Stopped

\* What dht_read returns is the test of the checksum.
Answer == accepted => phase = "done" /\ Believes

OneFault ==
    /\ Answer
    /\ faults = MaxFaults \/ (faults = 0 /\ (missed \/ Disturbed))

LEMMA Levels ==
    /\ Level(0) = 1 /\ Level(1) = 0 /\ Level(Idle) = 1
    /\ \A n \in Nat : (Level(n) = 1 <=> n % 2 = 0) /\ (Level(n) = 0 <=> n % 2 = 1)
    /\ \A n \in Nat : Stores(n) => Level(n) = 1 /\ Level(n + 1) = 0
    /\ \A n \in Nat : Level(n) # Level(n + 1)
BY Z3 DEF Level, Stores, Idle

LEMMA LevelKept == UNCHANGED seg => Level(seg)' = Level(seg)
BY DEF Level

LEMMA WaitDisturbed == IInv /\ Disturbed /\ WaitForDrop => Disturbed'
<1> SUFFICES ASSUME IInv, Disturbed, WaitForDrop PROVE Disturbed'
  OBVIOUS
<1>0. /\ phase = "drop" /\ UNCHANGED <<reading, i, j, laststate, counter, data>>
      /\ seg \in Segments /\ laststate = 1
  BY DEF WaitForDrop, IInv, Shape, Behind
<1>1. Decoded => Decoded'
  BY <1>0, DecodedKept
<1>2. CASE Unspoilt
  <2>1. Along'
    BY <1>0, <1>2, Levels DEF Unspoilt, Along, WaitForDrop, Level, Idle
  <2> QED BY <1>1, <1>2, <2>1 DEF Unspoilt, Disturbed
<1>3. CASE OneByteOff
  BY <1>0, <1>3 DEF OneByteOff, WholeFromHere
<1>4. CASE Stopped
  <2>1. phase' = "done" /\ seg' = Idle
    BY <1>4, Levels DEF Stopped, WaitForDrop
  <2> QED BY <1>1, <1>4, <2>1 DEF Stopped, Disturbed
<1> QED BY <1>2, <1>3, <1>4 DEF Disturbed

LEMMA CountDisturbed == IInv /\ Disturbed /\ CountLevel => Disturbed'
<1> SUFFICES ASSUME IInv, Disturbed, CountLevel PROVE Disturbed'
  OBVIOUS
<1>0. /\ phase = "poll" /\ UNCHANGED <<reading, i, j, laststate, data>>
      /\ seg \in Segments /\ i \in Nat /\ laststate \in {0, 1}
  BY DEF CountLevel, IInv, Shape
<1>1. \A b \in 0 .. 4 : DecodedIn(b) => DecodedIn(b)'
  BY <1>0, ByteKept
<1>2. Decoded => Decoded'
  BY <1>1 DEF Decoded
<1>3. ASSUME Along PROVE Along'
  <2>1. CASE Level(seg) = laststate /\ seg # Idle
    <3>1. seg = i /\ seg' = i + 1 /\ phase' = "poll"
      BY <1>0, <1>3, <2>1 DEF Along, CountLevel
    <3>2. laststate' # Level(seg)'
      BY <1>0, <2>1, <3>1, Levels DEF Level
    <3> QED BY <1>0, <1>3, <3>1, <3>2 DEF Along
  <2>2. CASE Level(seg) # laststate
    <3>1. seg = i + 1 /\ phase' = "edge" /\ seg' = seg
      BY <1>0, <1>3, <2>2 DEF Along, CountLevel
    <3> QED BY <1>0, <1>3, <3>1 DEF Along
  <2>3. CASE Level(seg) = laststate /\ seg = Idle
    <3>1. seg = i /\ phase' = "check"
      BY <1>0, <1>3, <2>3 DEF Along, CountLevel
    <3> QED BY <1>0, <1>3, <2>3, <3>1 DEF Along
  <2> QED BY <2>1, <2>2, <2>3
<1>4. CASE Unspoilt
  BY <1>2, <1>3, <1>4 DEF Unspoilt, Disturbed
<1>5. CASE OneByteOff
  <2>1. Along /\ WholeFromHere
    BY <1>5 DEF OneByteOff
  <2>2. Polls(i)' = Polls(i)
    BY <1>0 DEF Polls, Sent, SentBit
  <2>3. WholeFromHere'
    <3>1. CASE Level(seg) = laststate /\ seg # Idle
      <4>1. seg = i /\ seg' = i + 1 /\ phase' = "poll" /\ late' = FALSE
        BY <1>0, <2>1, <3>1 DEF Along, CountLevel
      <4>2. PICK n \in Counted(i) : counter' = 0 + n
        BY <1>0, <2>1, <3>1, <4>1 DEF WholeFromHere, CountLevel
      <4>3. n \in Nat
        BY <1>0, <4>1, <4>2, CountedType
      <4>4. Level(i) = 1 => n = Polls(i)
        BY <2>1, <4>1, <4>2 DEF WholeFromHere, Counted
      <4>5. counter' = n
        BY <4>2, <4>3
      <4>6. Level(i)' = Level(i)
        BY <1>0 DEF Level
      <4> QED BY <1>0, <2>2, <4>1, <4>4, <4>5, <4>6 DEF WholeFromHere
    <3>2. CASE UNCHANGED <<seg, late, counter>> /\ phase' \in {"edge", "check"}
      <4>1. Level(seg)' = Level(seg) /\ Level(i)' = Level(i)
        BY <1>0, <3>2 DEF Level
      <4> QED BY <1>0, <2>1, <2>2, <3>2, <4>1 DEF WholeFromHere
    <3> QED BY <3>1, <3>2 DEF CountLevel
  <2> QED BY <1>1, <1>3, <1>5, <2>3 DEF OneByteOff, Disturbed
<1>6. CASE Stopped
  <2>1. seg = Idle /\ UNCHANGED <<seg, counter>>
    BY <1>6 DEF Stopped, CountLevel
  <2>2. phase' = "check" \/ (phase' = "edge" /\ laststate = 0)
    BY <1>0, <2>1, Levels DEF CountLevel
  <2>3. Stopped'
    BY <1>0, <1>2, <1>6, <2>1, <2>2 DEF Stopped, Stores
  <2> QED BY <2>3 DEF Disturbed
<1> QED BY <1>4, <1>5, <1>6 DEF Disturbed

LEMMA NoteDisturbed == IInv /\ Disturbed /\ NoteEdge => Disturbed'
<1> SUFFICES ASSUME IInv, Disturbed, NoteEdge PROVE Disturbed'
  OBVIOUS
<1>0. /\ phase = "edge" /\ phase' = "poll" /\ i' = i + 1 /\ counter' = 0
      /\ laststate' = Level(seg) /\ UNCHANGED <<reading, seg, late>>
      /\ seg \in Segments /\ i \in Nat /\ j \in Nat /\ i < seg /\ data \in [0 .. 5 -> Nat]
  BY DEF NoteEdge, IInv, Shape, Behind, line
<1>1. Level(seg)' = Level(seg)
  BY <1>0 DEF Level
<1> DEFINE bit == IF counter > DHT_BREAKTIME THEN 1 ELSE 0
<1>2. bit \in {0, 1}
  OBVIOUS
<1>3. CASE ~Stores(i)
  <2>1. UNCHANGED <<data, j>>
    BY <1>3 DEF NoteEdge
  <2>2. \A b \in 0 .. 4 : DecodedIn(b) => DecodedIn(b)'
    BY <1>0, <2>1, ByteKept
  <2>3. ASSUME Along PROVE Along'
    <3>1. seg = i + 1 /\ j = IF i < 4 THEN 0 ELSE (i - 3) \div 2
      BY <1>0, <2>3 DEF Along
    <3>2. j' = IF i' < 4 THEN 0 ELSE (i' - 3) \div 2
      BY <1>0, <1>3, <2>1, <3>1, Z3 DEF Stores
    <3> QED BY <1>0, <1>1, <3>1, <3>2 DEF Along
  <2>4. CASE Unspoilt
    BY <2>2, <2>3, <2>4 DEF Unspoilt, Decoded, Disturbed
  <2>5. CASE OneByteOff
    <3>1. seg = i + 1 /\ (late => Level(seg) = 0)
      BY <1>0, <2>5 DEF OneByteOff, Along, WholeFromHere
    <3>2. WholeFromHere'
      BY <1>0, <1>1, <3>1 DEF WholeFromHere
    <3> QED BY <2>2, <2>3, <2>5, <3>2 DEF OneByteOff, Disturbed
  <2>6. CASE Stopped
    BY <1>0, <2>2, <2>6, Levels DEF Stopped, Decoded, Disturbed
  <2> QED BY <2>4, <2>5, <2>6 DEF Disturbed
<1>4. CASE Stores(i)
  <2>1. j' = j + 1 /\ data' = [data EXCEPT ![j \div 8] = 2 * @ + bit]
    BY <1>4 DEF NoteEdge
  <2>2. j <= 39
    BY <1>0, <1>4, Z3 DEF IInv, EverySecond, Stores, Segments, Idle
  <2> HIDE DEF bit
  <2>3. PICK b \in 0 .. 4 : b = j \div 8
    BY <1>0, <2>2, Z3
  <2>4. \A c \in 0 .. 4 : c # b /\ DecodedIn(c) => DecodedIn(c)'
    BY <1>0, <1>2, <2>1, <2>2, <2>3, OtherByteKept
  <2>5. ASSUME j = (i - 3) \div 2, counter = Polls(i)
        PROVE  \A c \in 0 .. 4 : DecodedIn(c) => DecodedIn(c)'
    <3>1. bit = SentBit(j)
      BY <1>0, <1>4, <2>5, BitSeen DEF bit
    <3>2. DecodedIn(b) => DecodedIn(b)'
      BY <1>0, <2>1, <2>2, <2>3, <3>1, RightBitStored
    <3> QED BY <2>4, <3>2
  <2>6. ASSUME Along
        PROVE /\ Along' /\ seg = i + 1 /\ j = (i - 3) \div 2
              /\ Level(i) = 1 /\ Level(seg) = 0
    <3>1. seg = i + 1 /\ j = IF i < 4 THEN 0 ELSE (i - 3) \div 2
      BY <1>0, <2>6 DEF Along
    <3>2. j = (i - 3) \div 2 /\ j' = IF i' < 4 THEN 0 ELSE (i' - 3) \div 2
      BY <1>0, <1>4, <2>1, <3>1, Z3 DEF Stores
    <3>3. Along'
      BY <1>0, <1>1, <3>1, <3>2 DEF Along
    <3> QED BY <1>0, <1>4, <3>1, <3>2, <3>3, Levels
  <2>7. ASSUME Along PROVE WholeFromHere'
    BY <1>0, <1>1, <2>6, <2>7 DEF WholeFromHere
  <2>8. CASE Unspoilt
    <3>1. \A c \in 0 .. 4 : c # b => DecodedIn(c)'
      BY <2>4, <2>8 DEF Unspoilt, Decoded
    <3> QED BY <2>6, <2>7, <2>8, <3>1 DEF Unspoilt, OneByteOff, Disturbed
  <2>9. CASE OneByteOff
    <3>1. counter = Polls(i) /\ j = (i - 3) \div 2
      BY <1>0, <2>6, <2>9 DEF OneByteOff, WholeFromHere
    <3> QED BY <2>5, <2>6, <2>7, <2>9, <3>1 DEF OneByteOff, Disturbed
  <2>10. CASE Stopped
    <3>1. Decoded'
      BY <1>0, <1>4, <2>5, <2>10 DEF Stopped, Decoded
    <3> QED BY <1>0, <2>10, <3>1, Levels DEF Stopped, Disturbed
  <2> QED BY <2>8, <2>9, <2>10 DEF Disturbed
<1> QED BY <1>3, <1>4

LEMMA CheckDisturbed == IInv /\ Disturbed /\ Check => Disturbed'
<1> SUFFICES ASSUME IInv, Disturbed, Check PROVE Disturbed'
  OBVIOUS
<1>0. /\ phase = "check" /\ phase' = "done"
      /\ UNCHANGED <<reading, seg, late, i, j, laststate, counter, data>>
  BY DEF Check, line
<1>1. \A b \in 0 .. 4 : DecodedIn(b) => DecodedIn(b)'
  BY <1>0, ByteKept
<1>2. Along => Along'
  BY <1>0 DEF Along
<1>3. WholeFromHere => WholeFromHere'
  BY <1>0, LevelKept DEF WholeFromHere
<1>4. CASE Unspoilt
  BY <1>1, <1>2, <1>4 DEF Unspoilt, Decoded, Disturbed
<1>5. CASE OneByteOff
  BY <1>1, <1>2, <1>3, <1>5 DEF OneByteOff, Disturbed
<1>6. CASE Stopped
  BY <1>0, <1>1, <1>6 DEF Stopped, Decoded, Disturbed
<1> QED BY <1>4, <1>5, <1>6 DEF Disturbed

\* The fault itself, in a reading that went in step so far.
LEMMA InterruptDisturbs ==
    IInv /\ InStep /\ Decoded /\ Interrupt => missed' \/ Disturbed'
<1> SUFFICES ASSUME IInv, InStep, Decoded, Interrupt, ~missed' PROVE Unspoilt'
  BY DEF Disturbed
<1>0. /\ UNCHANGED <<reading, phase, i, j, laststate, data>>
      /\ phase \in {"drop", "poll", "edge"}
      /\ seg \in 0 .. 84 /\ i \in Nat /\ (phase = "drop" => laststate = 1)
  BY DEF Interrupt, Listening, IInv, Shape, Behind, Segments, Idle
<1>1. seg' = seg \/ (seg' = seg + 1 /\ Level(seg) = laststate /\ seg + 1 <= 84)
  <2>1. PICK skip \in 0 .. MaxSkip :
           /\ seg + skip <= Idle /\ seg' = seg + skip
           /\ missed' = (missed \/ skip > 1 \/ (skip = 1 /\ Level(seg) # laststate))
    BY DEF Interrupt
  <2>2. skip \in Nat
    BY BoundsAssumption
  <2>3. ~(skip > 1) /\ ~(skip = 1 /\ Level(seg) # laststate)
    BY <2>1, Zenon
  <2>4. skip = 0 \/ (skip = 1 /\ Level(seg) = laststate)
    BY <2>2, <2>3
  <2> QED BY <1>0, <2>1, <2>4 DEF Idle
<1>2. Decoded'
  BY <1>0, DecodedKept
<1>3. CASE seg' = seg
  BY <1>0, <1>2, <1>3, LevelKept DEF InStep, Unspoilt, Along
<1>4. CASE seg' = seg + 1 /\ Level(seg) = laststate /\ seg + 1 <= 84
  <2>1. phase # "edge"
    BY <1>4 DEF InStep
  <2>2. CASE phase = "drop"
    <3>1. seg = 0
      BY <1>0, <1>4, <2>2, Levels DEF InStep, Idle
    <3> QED BY <1>0, <1>2, <1>4, <2>2, <3>1 DEF InStep, Unspoilt, Along
  <2>3. CASE phase = "poll"
    <3>1. seg = i
      BY <1>4, <2>3 DEF InStep
    <3>2. laststate' # Level(seg)'
      BY <1>0, <1>4, <3>1, Levels DEF Level
    <3> QED BY <1>0, <1>2, <1>4, <2>3, <3>1, <3>2 DEF InStep, Unspoilt, Along
  <2> QED BY <1>0, <2>1, <2>2, <2>3
<1> QED BY <1>1, <1>3, <1>4

LEMMA StopDisturbs ==
    IInv /\ InStep /\ Decoded /\ SensorStops => Disturbed'
<1> SUFFICES ASSUME IInv, InStep, Decoded, SensorStops PROVE Stopped'
  BY DEF Disturbed
<1>0. /\ UNCHANGED <<reading, phase, i, j, laststate, data, counter>>
      /\ seg' = Idle /\ i \in Nat /\ laststate \in {0, 1}
  BY DEF SensorStops, IInv, Shape
<1>1. Decoded'
  BY <1>0, DecodedKept
<1>2. ASSUME phase = "poll", laststate = 0 PROVE ~Stores(i)
  <2>1. CASE seg = i /\ laststate = Level(seg)
    BY <1>0, <1>2, <2>1, Levels
  <2>2. CASE seg = i + 1 /\ laststate # Level(seg)
    BY <1>0, <1>2, <2>2, Levels
  <2> QED BY <1>2, <2>1, <2>2 DEF InStep
<1>3. ASSUME phase = "edge", Stores(i) PROVE j = (i - 3) \div 2 /\ counter = Polls(i)
  BY <1>0, <1>3, Z3 DEF InStep, Stores, Width
<1>4. Polls(i)' = Polls(i)
  BY <1>0 DEF Polls, Sent, SentBit
<1> QED BY <1>0, <1>1, <1>2, <1>3, <1>4 DEF Stopped, Stores

LEMMA OneFaultStep ==
    ASSUME MaxFaults <= 1, IInv, Clean, OneFault, Next PROVE OneFault'
<1>0. /\ faults \in Nat /\ MaxFaults \in {0, 1} /\ accepted \in BOOLEAN
  BY BoundsAssumption DEF IInv, Shape
<1>1. ASSUME Program PROVE UNCHANGED <<faults, missed>>
  BY <1>1 DEF Program, WaitForDrop, CountLevel, NoteEdge, Check, line
<1>2. Answer'
  <2>1. CASE Check
    <3>1. Believes' <=> Believes
      BY <2>1 DEF Check, Believes
    <3> QED BY <2>1, <3>1 DEF Check, Answer
  <2>2. CASE WaitForDrop \/ CountLevel \/ NoteEdge \/ Interrupt \/ SensorStops
    <3>1. phase # "done" /\ accepted' = accepted
      BY <2>2 DEF WaitForDrop, CountLevel, NoteEdge, Interrupt, SensorStops, Listening
    <3>2. ~accepted
      BY <3>1 DEF OneFault, Answer
    <3> QED BY <3>1, <3>2 DEF Answer
  <2> QED BY <2>1, <2>2 DEF Next, Program
<1>3. CASE Program
  <2>1. Disturbed => Disturbed'
    BY <1>3, WaitDisturbed, CountDisturbed, NoteDisturbed, CheckDisturbed DEF Program
  <2> QED BY <1>1, <1>2, <1>3, <2>1 DEF OneFault
<1>4. CASE Interrupt \/ SensorStops
  <2>1. faults = MaxFaults /\ faults' = 0
    BY <1>0, <1>4 DEF OneFault, Interrupt, SensorStops
  <2>2. InStep /\ Decoded
    BY <2>1 DEF Clean
  <2>3. missed' \/ Disturbed'
    BY <1>4, <2>2, InterruptDisturbs, StopDisturbs
  <2> QED BY <1>2, <2>1, <2>3 DEF OneFault
<1> QED BY <1>3, <1>4 DEF Next

\* One byte that differs changes the sum.
LEMMA OneByteShows ==
    ASSUME NEW a1 \in Bytes, NEW a2 \in Bytes, NEW a3 \in Bytes,
           NEW x \in Bytes, NEW y \in Bytes,
           (a1 + a2 + a3 + x) % 256 = (a1 + a2 + a3 + y) % 256
    PROVE  x = y
<1> DEFINE s == a1 + a2 + a3 + x
           t == a1 + a2 + a3 + y
<1>1. s \in 0 .. 1020 /\ t \in 0 .. 1020
  BY DEF Bytes
<1>2. \A n \in 0 .. 1020 : /\ n \div 256 \in 0 .. 3 /\ n % 256 \in Nat
                           /\ n = 256 * (n \div 256) + (n % 256)
  BY Z3
<1>3. s % 256 = t % 256
  BY Zenon
<1> DEFINE p == s \div 256
           q == t \div 256
           r == s % 256
<1>4. p \in 0 .. 3 /\ q \in 0 .. 3 /\ r \in Nat /\ s = 256 * p + r /\ t = 256 * q + r
  <2> HIDE DEF s, t
  <2> QED BY <1>1, <1>2, <1>3
<1> HIDE DEF p, q, r
<1>5. x - y = 256 * (p - q)
  BY <1>4 DEF Bytes
<1> QED BY <1>4, <1>5, Z3 DEF Bytes

\* What is believed when at most one byte is wrong is what was sent.
LEMMA OffByteBelieved ==
    ASSUME IInv, Believes, NEW b \in 0 .. 4, \A c \in 0 .. 4 : c # b => data[c] = Sent[c]
    PROVE  \A c \in 0 .. 3 : data[c] = Sent[c]
<1>1. CASE b = 4
  BY <1>1
<1>2. CASE b # 4
  <2>1. data[4] = Sent[4]
    BY <1>2
  <2>2. data[4] = (data[0] + data[1] + data[2] + data[3]) % 256
    BY DEF Believes, checksum
  <2>3. (data[0] + data[1] + data[2] + data[3]) % 256
          = (Sent[0] + Sent[1] + Sent[2] + Sent[3]) % 256
    BY <2>1, <2>2, SentChecksum
  <2>4. \A c \in 0 .. 4 : data[c] \in Bytes /\ Sent[c] \in Bytes
    BY BytesFit, SentType
  <2> DEFINE d0 == data[0]
             d1 == data[1]
             d2 == data[2]
             d3 == data[3]
             s0 == Sent[0]
             s1 == Sent[1]
             s2 == Sent[2]
             s3 == Sent[3]
  <2>5. /\ d0 \in Bytes /\ d1 \in Bytes /\ d2 \in Bytes /\ d3 \in Bytes
        /\ s0 \in Bytes /\ s1 \in Bytes /\ s2 \in Bytes /\ s3 \in Bytes
    BY <2>4
  <2>6. (d0 + d1 + d2 + d3) % 256 = (s0 + s1 + s2 + s3) % 256
    BY <2>3
  <2>7. /\ b # 0 => d0 = s0
        /\ b # 1 => d1 = s1
        /\ b # 2 => d2 = s2
        /\ b # 3 => d3 = s3
    OBVIOUS
  <2>8. d0 = s0 /\ d1 = s1 /\ d2 = s2 /\ d3 = s3
    <3> HIDE DEF d0, d1, d2, d3, s0, s1, s2, s3
    <3>1. CASE b = 0
      <4>1. (d1 + d2 + d3 + d0) % 256 = (d1 + d2 + d3 + s0) % 256
        BY <2>5, <2>6, <2>7, <3>1 DEF Bytes
      <4> QED BY <2>5, <2>7, <3>1, <4>1, OneByteShows
    <3>2. CASE b = 1
      <4>1. (d0 + d2 + d3 + d1) % 256 = (d0 + d2 + d3 + s1) % 256
        BY <2>5, <2>6, <2>7, <3>2 DEF Bytes
      <4> QED BY <2>5, <2>7, <3>2, <4>1, OneByteShows
    <3>3. CASE b = 2
      <4>1. (d0 + d1 + d3 + d2) % 256 = (d0 + d1 + d3 + s2) % 256
        BY <2>5, <2>6, <2>7, <3>3 DEF Bytes
      <4> QED BY <2>5, <2>7, <3>3, <4>1, OneByteShows
    <3>4. CASE b = 3
      <4>1. (d0 + d1 + d2 + d3) % 256 = (d0 + d1 + d2 + s3) % 256
        BY <2>6, <2>7, <3>4
      <4> QED BY <2>5, <2>7, <3>4, <4>1, OneByteShows
    <3> QED BY <1>2, <3>1, <3>2, <3>3, <3>4
  <2> QED BY <2>8
<1> QED BY <1>1, <1>2

LEMMA BelievedExact ==
    ASSUME IInv, Clean, OneFault, accepted, ~missed PROVE Exact
<1>0. phase = "done" /\ Believes /\ j >= 39 /\ i \in Nat /\ j \in Nat
  BY DEF OneFault, Answer, Believes, IInv, Shape
<1>1. ASSUME Along PROVE j = 40
  BY <1>0, <1>1, Z3 DEF Along, Idle
<1>2. CASE faults = MaxFaults
  <2>1. InStep /\ Decoded
    BY <1>2 DEF Clean
  <2>2. i = Idle
    BY <1>0, <2>1 DEF InStep
  <2> QED BY <2>1, <2>2, AllDecoded
<1>3. CASE Unspoilt
  BY <1>1, <1>3, ByteDecoded, DataExact DEF Unspoilt, Decoded
<1>4. CASE OneByteOff
  <2>1. PICK b \in 0 .. 4 : \A c \in 0 .. 4 : c # b => DecodedIn(c)
    BY <1>4 DEF OneByteOff
  <2>2. j = 40
    BY <1>1, <1>4 DEF OneByteOff
  <2>3. \A c \in 0 .. 4 : c # b => data[c] = Sent[c]
    BY <2>1, <2>2, ByteDecoded
  <2> QED BY <1>0, <2>3, OffByteBelieved, DataExact
<1>5. CASE Stopped
  <2>1. \A c \in 0 .. 3 : j >= 8 * c + 8
    BY <1>0
  <2> QED BY <1>5, <2>1, ByteDecoded, DataExact DEF Stopped, Decoded
<1> QED BY <1>2, <1>3, <1>4, <1>5 DEF OneFault, Disturbed

\* For every reading, every width of the pulses and wherever it comes, one
\* interrupt that takes no whole level, or a sensor that stops, never makes
\* the program believe a reading that was not made: one bit at most comes out
\* wrong, and the sum shows it, or the last bit is missing, which is one of
\* the sum (dht.c:126-182).
THEOREM BelievedReadingSent == MaxFaults <= 1 /\ Spec => []BelievedIsSent
<1> SUFFICES ASSUME MaxFaults <= 1 PROVE Spec => []BelievedIsSent
  OBVIOUS
<1>1. Init => OneFault
  BY DEF Init, OneFault, Answer
<1>2. IInv /\ Clean /\ OneFault /\ [Next]_vars => OneFault'
  <2> SUFFICES ASSUME IInv, Clean, OneFault, [Next]_vars PROVE OneFault'
    OBVIOUS
  <2>1. CASE Next
    BY <2>1, OneFaultStep
  <2>2. CASE UNCHANGED vars
    <3>1. UNCHANGED <<reading, seg, faults, phase, i, j, laststate, counter, data,
                      accepted, late, missed>>
      BY <2>2 DEF vars, line
    <3>2. Along => Along'
      BY <3>1, LevelKept DEF Along
    <3>3. Level(i)' = Level(i) /\ Polls(i)' = Polls(i) /\ (Believes' <=> Believes)
      BY <3>1 DEF Level, Polls, Sent, SentBit, Believes
    <3>4. \A b \in 0 .. 4 : DecodedIn(b) => DecodedIn(b)'
      BY <3>1, ByteKept
    <3>5. WholeFromHere => WholeFromHere'
      BY <3>1, <3>3, LevelKept DEF WholeFromHere
    <3>6. Stopped => Stopped'
      BY <3>1, <3>3, <3>4 DEF Stopped, Decoded, Stores
    <3>7. Unspoilt => Unspoilt'
      BY <3>2, <3>4 DEF Unspoilt, Decoded
    <3>8. OneByteOff => OneByteOff'
      BY <3>2, <3>4, <3>5 DEF OneByteOff
    <3> QED BY <3>1, <3>3, <3>6, <3>7, <3>8 DEF OneFault, Answer, Disturbed
  <2> QED BY <2>1, <2>2
<1>3. IInv /\ Clean /\ OneFault => BelievedIsSent
  BY BelievedExact DEF BelievedIsSent
<1> QED BY <1>1, <1>2, <1>3, AlwaysClean, Invariance, PTL DEF Spec

=============================================================================
