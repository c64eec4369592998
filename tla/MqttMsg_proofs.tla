--------------------------- MODULE MqttMsg_proofs ---------------------------
(***************************************************************************)
(* Proofs about MqttMsg for every buffer, every set of texts and any       *)
(* number of packets: identifiers do not repeat, packets fit the buffer    *)
(* and say what they were built to say, and the settings of a segment are  *)
(* taken apart whole.                                                      *)
(*                                                                         *)
(* The lemmas about sequences state how parts lie behind each other with   *)
(* predicates (Headed, Four, Five, Begins, First), so that a step speaks   *)
(* of one concatenation at a time.                                         *)
(***************************************************************************)
EXTENDS MqttMsg, SequenceTheorems, WellFoundedInduction, TLAPS

(***************************************************************************)
(* Packet identifiers.                                                     *)
(***************************************************************************)

Ids == 1 .. UINT16_MAX

\* The identifiers go round: two of them lie as far apart as the turns
\* between them, or all but that many of the 65535.
IdsGoRound ==
    /\ message_id \in 0 .. UINT16_MAX
    /\ ids \in Seq(Ids)
    /\ Len(ids) <= MaxIds
    /\ ids # <<>> => message_id = ids[Len(ids)]
    /\ \A i, j \in 1 .. Len(ids) :
          i <= j => ids[j] - ids[i] \in {j - i, (j - i) - UINT16_MAX}

LEMMA Max16 == UINT16_MAX \in Nat /\ UINT16_MAX > 1
BY DEF UINT16_MAX

LEMMA NextIdGoesRound ==
    ASSUME NEW id \in 0 .. UINT16_MAX
    PROVE  NextId(id) \in Ids /\ NextId(id) = IF id = UINT16_MAX THEN 1 ELSE id + 1
<1>1. id \in Int /\ id >= 0 /\ id <= UINT16_MAX
  BY Max16
<1>2. ASSUME NEW n \in Nat, NEW m \in Nat, n <= m
      PROVE  (n + 1) % (m + 1) = IF n = m THEN 0 ELSE n + 1
  <2>1. CASE n = m
    BY <2>1
  <2>2. CASE n < m
    BY <2>2
  <2> QED BY <1>2, <2>1, <2>2
<1>3. (id + 1) % (UINT16_MAX + 1) = IF id = UINT16_MAX THEN 0 ELSE id + 1
  BY <1>1, <1>2, Max16
<1> QED BY <1>1, <1>3, Max16 DEF NextId, Ids

LEMMA OneFurther ==
    ASSUME NEW n \in Nat, NEW a \in Nat, NEW b \in Nat, NEW k \in Nat,
           a <= n, 1 <= b, b <= n, k < n, a - b = k \/ a - b = k - n
    PROVE  LET next == IF a = n THEN 1 ELSE a + 1
           IN  next - b = k + 1 \/ next - b = (k + 1) - n
OBVIOUS

LEMMA NewId ==
    ASSUME MaxIds <= UINT16_MAX, IdsGoRound, append_message_id
    PROVE  IdsGoRound'
<1>1. /\ message_id \in 0 .. UINT16_MAX /\ ids \in Seq(Ids) /\ Len(ids) \in Nat
      /\ \A i \in 1 .. Len(ids) : ids[i] \in Ids
  BY LenProperties, ElementOfSeq DEF IdsGoRound
<1>2. /\ Len(ids) < MaxIds
      /\ message_id' = NextId(message_id) /\ ids' = Append(ids, message_id')
  BY DEF append_message_id
<1>3. message_id' \in Ids /\ message_id' = IF message_id = UINT16_MAX THEN 1 ELSE message_id + 1
  BY <1>1, <1>2, NextIdGoesRound
<1>4. /\ ids' \in Seq(Ids) /\ Len(ids') = Len(ids) + 1
      /\ \A i \in 1 .. Len(ids) : ids'[i] = ids[i]
      /\ ids'[Len(ids) + 1] = message_id'
  BY <1>1, <1>2, <1>3, AppendProperties
<1>5. ASSUME NEW i \in 1 .. Len(ids'), NEW j \in 1 .. Len(ids'), i <= j
      PROVE  ids'[j] - ids'[i] \in {j - i, (j - i) - UINT16_MAX}
  <2>1. CASE j <= Len(ids)
    <3>1. i \in 1 .. Len(ids) /\ j \in 1 .. Len(ids)
      BY <1>1, <1>4, <1>5, <2>1
    <3> QED BY <1>4, <1>5, <3>1 DEF IdsGoRound
  <2>2. CASE j = Len(ids) + 1 /\ i = j
    BY <1>1, <1>3, <1>4, <2>2 DEF Ids
  <2>3. CASE j = Len(ids) + 1 /\ i # j
    <3>1. i \in 1 .. Len(ids) /\ Len(ids) \in 1 .. Len(ids) /\ ids # <<>>
      BY <1>1, <1>4, <1>5, <2>3, EmptySeq
    <3>2. message_id - ids[i] \in {Len(ids) - i, (Len(ids) - i) - UINT16_MAX}
      BY <1>5, <3>1 DEF IdsGoRound
    <3>3. ids[i] \in Ids /\ ids'[i] = ids[i] /\ ids'[j] = message_id'
      BY <1>1, <1>4, <2>3, <3>1
    <3>4. Len(ids) - i < UINT16_MAX
      BY <1>1, <1>2, <3>1, IdsAssumption, Max16
    <3>5. ids[i] \in Nat /\ 1 <= ids[i] /\ ids[i] <= UINT16_MAX
      BY <3>3, Max16 DEF Ids
    <3>6. message_id \in Nat /\ message_id <= UINT16_MAX
      BY <1>1, Max16
    <3>7. Len(ids) - i \in Nat /\ j - i = (Len(ids) - i) + 1
      BY <1>1, <2>3, <3>1
    <3>8. \/ message_id - ids[i] = Len(ids) - i
          \/ message_id - ids[i] = (Len(ids) - i) - UINT16_MAX
      BY <3>2
    <3>9. \/ message_id' - ids[i] = (Len(ids) - i) + 1
          \/ message_id' - ids[i] = ((Len(ids) - i) + 1) - UINT16_MAX
      BY <1>3, <3>4, <3>5, <3>6, <3>7, <3>8, OneFurther, Max16
    <3> QED BY <3>3, <3>7, <3>9
  <2> QED BY <1>1, <1>4, <2>1, <2>2, <2>3
<1>6. message_id' \in 0 .. UINT16_MAX /\ Len(ids') <= MaxIds /\ message_id' = ids'[Len(ids')]
  BY <1>1, <1>2, <1>3, <1>4, IdsAssumption, Max16 DEF Ids
<1> QED BY <1>4, <1>5, <1>6 DEF IdsGoRound

LEMMA IdsStep == MaxIds <= UINT16_MAX /\ IdsGoRound /\ [Next]_vars => IdsGoRound'
<1> SUFFICES ASSUME MaxIds <= UINT16_MAX, IdsGoRound, [Next]_vars PROVE IdsGoRound'
  OBVIOUS
<1>1. append_message_id \/ UNCHANGED <<message_id, ids>>
  <2>1. ASSUME NEW topic, NEW data, NEW qos, NEW retain, Publish(topic, data, qos, retain)
        PROVE  append_message_id \/ UNCHANGED <<message_id, ids>>
    BY <2>1 DEF Publish
  <2>2. ASSUME NEW topic, Subscribe(topic) PROVE append_message_id
    BY <2>2 DEF Subscribe
  <2>3. ASSUME NEW info, Connect(info) PROVE UNCHANGED <<message_id, ids>>
    BY <2>3 DEF Connect
  <2>4. ASSUME Ping PROVE UNCHANGED <<message_id, ids>>
    BY <2>4 DEF Ping
  <2>5. ASSUME NEW messages, NEW answer, Receive(messages, answer)
        PROVE  UNCHANGED <<message_id, ids>>
    BY <2>5 DEF Receive, building
  <2>6. ASSUME ReadPacket PROVE UNCHANGED <<message_id, ids>>
    BY <2>6 DEF ReadPacket, building
  <2>7. ASSUME UNCHANGED vars PROVE UNCHANGED <<message_id, ids>>
    BY <2>7 DEF vars, building
  <2> QED BY <2>1, <2>2, <2>3, <2>4, <2>5, <2>6, <2>7 DEF Next, Build
<1>2. CASE UNCHANGED <<message_id, ids>>
  BY <1>2 DEF IdsGoRound
<1> QED BY <1>1, <1>2, NewId

\* Of 65535 identifiers given out one after the other none is 0 and none comes
\* twice, wherever the counter stood and however often the client connects in
\* between (mqtt_msg.c:76-90, 128-133).
THEOREM IdsNeverRepeat == MaxIds <= UINT16_MAX /\ Spec => []IdsFresh
<1> SUFFICES ASSUME MaxIds <= UINT16_MAX PROVE Spec => []IdsFresh
  OBVIOUS
<1>1. Init => IdsGoRound
  <2> SUFFICES ASSUME Init PROVE IdsGoRound
    OBVIOUS
  <2>1. ids = <<>> /\ ids \in Seq(Ids) /\ Len(ids) = 0
    BY EmptySeq DEF Init
  <2> QED BY <2>1, IdsAssumption, Max16 DEF Init, IdsGoRound
<1>2. IdsGoRound /\ [Next]_vars => IdsGoRound'
  BY IdsStep
<1>3. IdsGoRound => IdsFresh
  <2> SUFFICES ASSUME IdsGoRound PROVE IdsFresh
    OBVIOUS
  <2>1. /\ DOMAIN ids = 1 .. Len(ids) /\ Len(ids) \in Nat /\ Len(ids) <= UINT16_MAX
        /\ \A i \in 1 .. Len(ids) : ids[i] \in Ids
    BY LenProperties, ElementOfSeq, IdsAssumption, Max16 DEF IdsGoRound
  <2>2. ASSUME NEW i \in 1 .. Len(ids), NEW j \in 1 .. Len(ids), i < j
        PROVE  ids[i] # ids[j]
    <3>1. ids[j] - ids[i] \in {j - i, (j - i) - UINT16_MAX}
      BY <2>2 DEF IdsGoRound
    <3>2. ids[i] \in Nat /\ ids[j] \in Nat
      BY <2>1, Max16 DEF Ids
    <3>3. j - i > 0 /\ j - i < UINT16_MAX /\ i \in Nat /\ j \in Nat
      BY <2>1, <2>2, Max16
    <3>4. ids[j] - ids[i] # 0
      BY <3>1, <3>3, Max16
    <3> QED BY <3>2, <3>4
  <2> QED BY <2>1, <2>2 DEF IdsFresh, Ids
<1> QED BY <1>1, <1>2, <1>3, PTL DEF Spec

(***************************************************************************)
(* Packets on the wire.                                                    *)
(***************************************************************************)

LEMMA ByteNat == \A b \in Byte : b \in Nat /\ b <= 255
BY DEF Byte

\* The bytes that say how long a packet is.
LengthBytes(n) == IF n < 128 THEN <<n>> ELSE <<128 + (n % 128), n \div 128>>

\* How long the fixed header is.
HeaderSize(n) == IF n < 128 THEN 2 ELSE 3

LEMMA LengthSplit ==
    ASSUME NEW n \in Nat, n < 128 * 128
    PROVE  /\ n \div 128 \in Nat /\ n \div 128 < 128
           /\ n % 128 \in Nat /\ n % 128 < 128
           /\ n = (n % 128) + (n \div 128) * 128
OBVIOUS

LEMMA LowBits ==
    ASSUME NEW n \in Nat, n < 128
    PROVE  n % 128 = n /\ (128 + n) % 128 = n
OBVIOUS

LEMMA LengthBytesType ==
    ASSUME NEW n \in Nat, n < 128 * 128
    PROVE  LengthBytes(n) \in Seq(Byte) /\ Len(LengthBytes(n)) = HeaderSize(n) - 1
<1>1. CASE n < 128
  <2>1. n \in Byte
    BY <1>1 DEF Byte
  <2> QED BY <1>1, <2>1 DEF LengthBytes, HeaderSize
<1>2. CASE ~(n < 128)
  <2>1. 128 + (n % 128) \in Byte /\ n \div 128 \in Byte
    BY LengthSplit DEF Byte
  <2>2. LengthBytes(n) = <<128 + (n % 128), n \div 128>> /\ HeaderSize(n) = 3
    BY <1>2 DEF LengthBytes, HeaderSize
  <2> QED BY <2>1, <2>2
<1> QED BY <1>1, <1>2

\* What a length byte adds to the length, and the order of adding.
Value(p, i) == (p[i] % 128) * 128 ^ (i - 2)
Pick(s) == CHOOSE i \in s : TRUE

\* The recursion that adds up the length bytes.
IsSum(iter, p, I) ==
  iter = [s \in SUBSET I |->
            IF s = {} THEN 0 ELSE Value(p, Pick(s)) + iter[s \ {Pick(s)}]]

LEMMA TotalDef ==
    ASSUME NEW p
    PROVE  mqtt_get_total_length(p) =
             HeaderEnd(p) + (CHOOSE iter : IsSum(iter, p, 2 .. HeaderEnd(p)))[2 .. HeaderEnd(p)]
BY DEF mqtt_get_total_length, MapThenSumSet, MapThenFoldSet, IsSum, Value, Pick

LEMMA PickIn == ASSUME NEW s, s # {} PROVE Pick(s) \in s
BY DEF Pick

LEMMA Values ==
    ASSUME NEW p, NEW h \in 2 .. 3, \A i \in 2 .. h : p[i] \in Nat
    PROVE  /\ Value(p, 2) = p[2] % 128 /\ Value(p, 2) \in Int
           /\ h = 3 => (Value(p, 3) = (p[3] % 128) * 128 /\ Value(p, 3) \in Int)
<1>1. 2 - 2 = 0 /\ 3 - 2 = 1
  OBVIOUS
<1>2. 128 ^ 0 = 1 /\ 128 ^ 1 = 128
  OBVIOUS
<1>3. 128 ^ (2 - 2) = 1 /\ 128 ^ (3 - 2) = 128
  BY <1>1, <1>2, Zenon
<1> QED BY <1>3 DEF Value

LEMMA SumExists ==
    ASSUME NEW p, NEW h \in 2 .. 3, \A i \in 2 .. h : p[i] \in Nat
    PROVE  \E iter : IsSum(iter, p, 2 .. h)
<1> DEFINE g == [s \in SUBSET (2 .. h) |-> (IF 2 \in s THEN Value(p, 2) ELSE 0)
                                           + (IF 3 \in s THEN Value(p, 3) ELSE 0)]
<1>1. ASSUME NEW s \in SUBSET (2 .. h)
      PROVE  g[s] = IF s = {} THEN 0 ELSE Value(p, Pick(s)) + g[s \ {Pick(s)}]
  <2>1. CASE s = {}
    BY <2>1
  <2>2. CASE s # {}
    <3>1. Pick(s) \in s /\ (Pick(s) = 2 \/ (Pick(s) = 3 /\ h = 3)) /\ (3 \in s => h = 3)
      <4>1. Pick(s) \in s
        BY <2>2, PickIn
      <4>2. \A i \in s : i = 2 \/ (i = 3 /\ h = 3)
        OBVIOUS
      <4>3. 3 \in s => h = 3
        OBVIOUS
      <4> QED BY <4>1, <4>2, <4>3, Zenon
    <3>2. s \ {Pick(s)} \in SUBSET (2 .. h)
      OBVIOUS
    <3>3. CASE Pick(s) = 2
      <4>1. 2 \in s /\ 2 \notin s \ {Pick(s)} /\ (3 \in s <=> 3 \in s \ {Pick(s)})
        BY <3>1, <3>3
      <4> QED BY <2>2, <3>1, <3>2, <3>3, <4>1, Values
    <3>4. CASE Pick(s) = 3 /\ h = 3
      <4>1. 3 \in s /\ 3 \notin s \ {Pick(s)} /\ (2 \in s <=> 2 \in s \ {Pick(s)})
        BY <3>1, <3>4
      <4> QED BY <2>2, <3>1, <3>2, <3>4, <4>1, Values
    <3> QED BY <3>1, <3>3, <3>4
  <2> QED BY <2>1, <2>2
<1>2. g = [s \in SUBSET (2 .. h) |-> g[s]]
  OBVIOUS
<1> HIDE DEF g
<1>3. g = [s \in SUBSET (2 .. h) |->
            IF s = {} THEN 0 ELSE Value(p, Pick(s)) + g[s \ {Pick(s)}]]
  BY <1>1, <1>2
<1> QED BY <1>3 DEF IsSum

LEMMA SumValue ==
    ASSUME NEW p, NEW h \in 2 .. 3, \A i \in 2 .. h : p[i] \in Nat,
           NEW iter, IsSum(iter, p, 2 .. h)
    PROVE  iter[2 .. h] = (p[2] % 128) + (IF h = 3 THEN (p[3] % 128) * 128 ELSE 0)
<1>1. /\ Value(p, 2) = p[2] % 128 /\ Value(p, 2) \in Int
      /\ h = 3 => (Value(p, 3) = (p[3] % 128) * 128 /\ Value(p, 3) \in Int)
  BY Values
<1>2. iter[{}] = 0
  BY DEF IsSum
<1>3. ASSUME NEW s \in SUBSET (2 .. h), s # {}
      PROVE  \E i \in s : iter[s] = Value(p, i) + iter[s \ {i}]
  BY <1>3, PickIn DEF IsSum
<1>4. iter[{2}] = Value(p, 2)
  <2>1. {2} \in SUBSET (2 .. h) /\ {2} # {} /\ {2} \ {2} = {}
    OBVIOUS
  <2>2. \E i \in {2} : iter[{2}] = Value(p, i) + iter[{2} \ {i}]
    BY <1>3, <2>1
  <2>3. iter[{2}] = Value(p, 2) + iter[{2} \ {2}]
    BY <2>2
  <2>4. iter[{2}] = Value(p, 2) + 0
    BY <1>2, <2>1, <2>3
  <2> QED BY <1>1, <2>4
<1>5. CASE h = 2
  <2>1. 2 .. h = {2}
    BY <1>5
  <2> QED BY <1>1, <1>4, <1>5, <2>1
<1>6. CASE h = 3
  <2>1. 2 .. h = {2, 3} /\ {2, 3} \in SUBSET (2 .. h) /\ {2, 3} # {}
    BY <1>6
  <2>2. {3} \in SUBSET (2 .. h) /\ {3} # {} /\ {3} \ {3} = {}
    BY <1>6
  <2>3. iter[{3}] = Value(p, 3)
    <3>1. \E i \in {3} : iter[{3}] = Value(p, i) + iter[{3} \ {i}]
      BY <1>3, <2>2
    <3>2. iter[{3}] = Value(p, 3) + iter[{3} \ {3}]
      BY <3>1
    <3>3. iter[{3}] = Value(p, 3) + 0
      BY <1>2, <2>2, <3>2
    <3> QED BY <1>1, <1>6, <3>3
  <2>4. PICK i \in {2, 3} : iter[{2, 3}] = Value(p, i) + iter[{2, 3} \ {i}]
    BY <1>3, <2>1
  <2>5. {2, 3} \ {2} = {3} /\ {2, 3} \ {3} = {2}
    OBVIOUS
  <2>6. CASE i = 2
    <3>1. iter[{2, 3}] = Value(p, 2) + Value(p, 3)
      BY <2>3, <2>4, <2>5, <2>6
    <3> QED BY <1>1, <1>6, <2>1, <3>1
  <2>7. CASE i = 3
    <3>1. iter[{2, 3}] = Value(p, 3) + Value(p, 2)
      BY <1>4, <2>4, <2>5, <2>7
    <3> QED BY <1>1, <1>6, <2>1, <3>1
  <2> QED BY <2>4, <2>6, <2>7
<1> QED BY <1>5, <1>6

LEMMA HeaderEndIs ==
    ASSUME NEW p \in Seq(Byte), NEW h \in {2, 3}, h <= Len(p),
           h = 3 => p[2] >= 128, p[h] < 128
    PROVE  HeaderEnd(p) = h
<1> DEFINE S == {i \in 2 .. Len(p) : p[i] < 128} \cup {Len(p)}
<1>1. Len(p) \in Nat
  OBVIOUS
<1>2. h \in S /\ \A i \in S : i \in Int /\ i >= h
  <2>1. h \in S
    BY <1>1
  <2>2. ASSUME NEW i \in S PROVE i \in Int /\ i >= h
    <3>1. CASE i = Len(p)
      BY <1>1, <3>1
    <3>2. CASE i \in 2 .. Len(p) /\ p[i] < 128
      <4>1. CASE h = 2
        BY <3>2, <4>1, <1>1
      <4>2. CASE h = 3
        <5>1. p[2] \in Byte /\ p[2] >= 128
          BY <4>2, <1>1
        <5>2. i # 2
          <6> SUFFICES ASSUME i = 2 PROVE FALSE
            OBVIOUS
          <6>1. p[2] < 128
            BY <3>2
          <6> QED BY <5>1, <6>1, ByteNat
        <5> QED BY <3>2, <4>2, <5>2, <1>1
      <4> QED BY <4>1, <4>2
    <3> QED BY <3>1, <3>2
  <2> QED BY <2>1, <2>2
<1> HIDE DEF S
<1>3. Min(S) \in S /\ \A i \in S : Min(S) <= i
  <2>1. \E x \in S : \A y \in S : x <= y
    BY <1>2
  <2> QED BY <2>1 DEF Min
<1>4. Min(S) = h
  <2>1. Min(S) \in Int /\ Min(S) >= h /\ Min(S) <= h
    BY <1>2, <1>3
  <2> QED BY <2>1
<1> QED BY <1>4 DEF HeaderEnd, S

LEMMA TotalIs ==
    ASSUME NEW p \in Seq(Byte), NEW n \in Nat, n < 128 * 128,
           HeaderSize(n) <= Len(p), \A i \in 1 .. HeaderSize(n) - 1 : p[i + 1] = LengthBytes(n)[i]
    PROVE  HeaderEnd(p) = HeaderSize(n) /\ mqtt_get_total_length(p) = HeaderSize(n) + n
<1> DEFINE h == HeaderSize(n)
<1>1. h \in {2, 3} /\ h \in 2 .. 3 /\ Len(p) \in Nat
  BY DEF HeaderSize
<1>2. \A i \in 2 .. h : p[i] \in Byte /\ p[i] \in Nat
  <2>1. ASSUME NEW i \in 2 .. h PROVE p[i] \in Byte
    <3>1. i \in 1 .. Len(p)
      BY <1>1
    <3> QED BY <3>1, ElementOfSeq
  <2> QED BY <2>1, ByteNat
<1>3. CASE n < 128
  <2>1. h = 2 /\ p[2] = n
    BY <1>3 DEF HeaderSize, LengthBytes
  <2>2. HeaderEnd(p) = 2
    BY <1>3, <2>1, HeaderEndIs
  <2>3. n % 128 = n
    BY <1>3, LowBits
  <2>4. PICK iter : IsSum(iter, p, 2 .. 2)
    BY <1>2, <2>1, SumExists
  <2> DEFINE it == CHOOSE it : IsSum(it, p, 2 .. 2)
  <2>5. IsSum(it, p, 2 .. 2)
    BY <2>4, Zenon
  <2>6. mqtt_get_total_length(p) = 2 + it[2 .. 2]
    BY <2>2, TotalDef
  <2> HIDE DEF it
  <2>7. it[2 .. 2] = p[2] % 128
    <3>1. it[2 .. 2] = (p[2] % 128) + (IF 2 = 3 THEN (p[3] % 128) * 128 ELSE 0)
      BY <1>2, <2>1, <2>5, SumValue
    <3> QED BY <2>1, <2>3, <3>1
  <2> QED BY <2>1, <2>2, <2>3, <2>6, <2>7
<1>4. CASE ~(n < 128)
  <2>1. h = 3 /\ p[2] = 128 + (n % 128) /\ p[3] = n \div 128
    <3>1. h = 3 /\ LengthBytes(n) = <<128 + (n % 128), n \div 128>>
      BY <1>4 DEF HeaderSize, LengthBytes
    <3>2. p[1 + 1] = LengthBytes(n)[1] /\ p[2 + 1] = LengthBytes(n)[2]
      BY <3>1
    <3> QED BY <3>1, <3>2
  <2>2. /\ n \div 128 \in Nat /\ n \div 128 < 128
        /\ n % 128 \in Nat /\ n % 128 < 128
        /\ n = (n % 128) + (n \div 128) * 128
    BY LengthSplit
  <2>3. p[2] >= 128 /\ p[3] < 128
    BY <2>1, <2>2
  <2>4. HeaderEnd(p) = 3
    BY <2>1, <2>3, HeaderEndIs
  <2>5. p[2] % 128 = n % 128 /\ p[3] % 128 = n \div 128
    BY <2>1, <2>2, LowBits
  <2>6. PICK iter : IsSum(iter, p, 2 .. 3)
    BY <1>2, <2>1, SumExists
  <2> DEFINE it == CHOOSE it : IsSum(it, p, 2 .. 3)
  <2>7. IsSum(it, p, 2 .. 3)
    BY <2>6, Zenon
  <2>8. mqtt_get_total_length(p) = 3 + it[2 .. 3]
    BY <2>4, TotalDef
  <2> HIDE DEF it
  <2>9. it[2 .. 3] = (p[2] % 128) + (IF 3 = 3 THEN (p[3] % 128) * 128 ELSE 0)
    <3>1. \A i \in 2 .. 3 : p[i] \in Nat
      BY <1>2, <2>1
    <3> QED BY <2>7, <3>1, SumValue
  <2>10. it[2 .. 3] = n
    BY <2>2, <2>5, <2>9
  <2> QED BY <2>1, <2>4, <2>8, <2>10
<1> QED BY <1>3, <1>4

LEMMA Middle ==
    ASSUME NEW S, NEW a \in Seq(S), NEW b \in Seq(S), NEW c \in Seq(S)
    PROVE  SubSeq(a \o (b \o c), Len(a) + 1, Len(a) + Len(b)) = b
<1> DEFINE all == a \o (b \o c)
<1>1. /\ Len(a) \in Nat /\ Len(b) \in Nat /\ Len(c) \in Nat
      /\ b \o c \in Seq(S) /\ Len(b \o c) = Len(b) + Len(c)
      /\ \A i \in 1 .. Len(b) : (b \o c)[i] = b[i]
  BY ConcatProperties
<1>2. \A i \in 1 .. Len(b) : all[Len(a) + i] = b[i] /\ b[i] \in S
  <2>1. \A i \in 1 .. Len(a) + Len(b \o c) :
           all[i] = IF i <= Len(a) THEN a[i] ELSE (b \o c)[i - Len(a)]
    BY <1>1, ConcatProperties
  <2> HIDE DEF all
  <2>2. ASSUME NEW i \in 1 .. Len(b) PROVE all[Len(a) + i] = b[i] /\ b[i] \in S
    <3>1. Len(a) + i \in 1 .. Len(a) + Len(b \o c) /\ ~(Len(a) + i <= Len(a))
          /\ (Len(a) + i) - Len(a) = i
      BY <1>1
    <3>2. all[Len(a) + i] = (b \o c)[i]
      BY <2>1, <3>1
    <3>3. (b \o c)[i] = b[i] /\ b[i] \in S
      BY <1>1, ElementOfSeq
    <3> QED BY <3>2, <3>3
  <2> QED BY <2>2
<1> HIDE DEF all
<1> DEFINE m == SubSeq(all, Len(a) + 1, Len(a) + Len(b))
<1>3. \A i \in Len(a) + 1 .. Len(a) + Len(b) : all[i] \in S
  <2>1. ASSUME NEW i \in Len(a) + 1 .. Len(a) + Len(b) PROVE all[i] \in S
    <3>1. i - Len(a) \in 1 .. Len(b) /\ Len(a) + (i - Len(a)) = i
      BY <1>1
    <3> QED BY <1>2, <3>1
  <2> QED BY <2>1
<1>4. m \in Seq(S) /\ Len(m) = Len(b) /\ \A i \in 1 .. Len(b) : m[i] = all[Len(a) + i]
  <2>1. Len(a) + 1 \in Int /\ Len(a) + Len(b) \in Int
    BY <1>1
  <2>2. /\ m \in Seq(S)
        /\ Len(m) = IF Len(a) + 1 <= Len(a) + Len(b)
                    THEN (Len(a) + Len(b)) - (Len(a) + 1) + 1 ELSE 0
        /\ \A i \in 1 .. (Len(a) + Len(b)) - (Len(a) + 1) + 1 :
              m[i] = all[(Len(a) + 1) + i - 1]
    BY <1>3, <2>1, SubSeqProperties
  <2> HIDE DEF m
  <2>3. (Len(a) + Len(b)) - (Len(a) + 1) + 1 = Len(b)
    BY <1>1
  <2>4. \A i \in 1 .. Len(b) : (Len(a) + 1) + i - 1 = Len(a) + i
    BY <1>1
  <2>5. Len(m) = Len(b)
    BY <1>1, <2>2, <2>3
  <2> QED BY <2>2, <2>3, <2>4, <2>5
<1> HIDE DEF m
<1>5. m = b
  BY <1>1, <1>2, <1>4, SeqEqual
<1> QED BY <1>5 DEF m, all

LEMMA Back ==
    ASSUME NEW S, NEW a \in Seq(S), NEW b \in Seq(S)
    PROVE  SubSeq(a \o b, Len(a) + 1, Len(a \o b)) = b
<1>1. <<>> \in Seq(S) /\ b \o <<>> = b /\ Len(a \o b) = Len(a) + Len(b)
  BY ConcatProperties, ConcatEmptySeq, EmptySeq
<1>2. SubSeq(a \o (b \o <<>>), Len(a) + 1, Len(a) + Len(b)) = b
  BY <1>1, Middle
<1> QED BY <1>1, <1>2

\* The fixed header.
Fixed(first, n) == <<first>> \o LengthBytes(n)

\* A packet with what follows it, b being its body with what follows it.
Headed(p, first, n, b) == p = Fixed(first, n) \o b

LEMMA FixedType ==
    ASSUME NEW first \in Byte, NEW n \in Nat, n < 128 * 128
    PROVE  /\ Fixed(first, n) \in Seq(Byte) /\ Len(Fixed(first, n)) = HeaderSize(n)
           /\ Fixed(first, n)[1] = first
           /\ \A i \in 1 .. HeaderSize(n) - 1 : Fixed(first, n)[i + 1] = LengthBytes(n)[i]
           /\ HeaderSize(n) \in {2, 3}
<1>1. LengthBytes(n) \in Seq(Byte) /\ Len(LengthBytes(n)) = HeaderSize(n) - 1
  BY LengthBytesType
<1>2. HeaderSize(n) \in {2, 3}
  BY DEF HeaderSize
<1>3. <<first>> \in Seq(Byte) /\ Len(<<first>>) = 1 /\ <<first>>[1] = first
  OBVIOUS
<1> DEFINE b == LengthBytes(n)
<1> HIDE DEF b
<1>4. /\ <<first>> \o b \in Seq(Byte) /\ Len(<<first>> \o b) = 1 + Len(b)
      /\ \A i \in 1 .. 1 + Len(b) :
            (<<first>> \o b)[i] = IF i <= 1 THEN <<first>>[i] ELSE b[i - 1]
  BY <1>1, <1>3, ConcatProperties DEF b
<1>5. Len(b) = HeaderSize(n) - 1
  BY <1>1 DEF b
<1>6. \A i \in 1 .. HeaderSize(n) - 1 :
         i + 1 \in 1 .. 1 + Len(b) /\ ~(i + 1 <= 1) /\ (i + 1) - 1 = i
  BY <1>2, <1>5
<1>7. (<<first>> \o b)[1] = first
  BY <1>2, <1>3, <1>4, <1>5
<1>8. \A i \in 1 .. HeaderSize(n) - 1 : (<<first>> \o b)[i + 1] = b[i]
  BY <1>4, <1>6
<1>9. Len(<<first>> \o b) = HeaderSize(n)
  BY <1>2, <1>4, <1>5
<1> QED BY <1>2, <1>4, <1>7, <1>8, <1>9 DEF Fixed, b

LEMMA BehindFixed ==
    ASSUME NEW first \in Byte, NEW n \in Nat, n < 128 * 128, NEW b \in Seq(Byte),
           NEW p, Headed(p, first, n, b)
    PROVE  /\ p \in Seq(Byte) /\ Len(p) = HeaderSize(n) + Len(b) /\ p[1] = first
           /\ HeaderEnd(p) = HeaderSize(n)
           /\ mqtt_get_total_length(p) = HeaderSize(n) + n
           /\ \A i \in 1 .. Len(b) : p[HeaderSize(n) + i] = b[i]
           /\ \A i \in 1 .. HeaderSize(n) - 1 : p[i + 1] = LengthBytes(n)[i]
<1> DEFINE f == Fixed(first, n)
           h == HeaderSize(n)
<1>1. /\ f \in Seq(Byte) /\ Len(f) = h /\ f[1] = first /\ h \in {2, 3}
      /\ \A i \in 1 .. h - 1 : f[i + 1] = LengthBytes(n)[i]
  BY FixedType
<1> HIDE DEF f, h
<1>2. /\ p \in Seq(Byte) /\ Len(p) = h + Len(b) /\ Len(b) \in Nat
      /\ \A i \in 1 .. h + Len(b) : p[i] = IF i <= h THEN f[i] ELSE b[i - h]
  <2>1. /\ f \o b \in Seq(Byte) /\ Len(f \o b) = Len(f) + Len(b)
        /\ \A i \in 1 .. Len(f) + Len(b) :
              (f \o b)[i] = IF i <= Len(f) THEN f[i] ELSE b[i - Len(f)]
    BY <1>1, ConcatProperties
  <2>2. p = f \o b
    BY DEF f, Headed
  <2> QED BY <1>1, <2>1, <2>2, LenProperties
<1>3. 1 \in 1 .. h + Len(b) /\ 1 <= h /\ h <= Len(p)
  BY <1>1, <1>2
<1>4. p[1] = first
  BY <1>1, <1>2, <1>3
<1>5. ASSUME NEW i \in 1 .. h - 1 PROVE p[i + 1] = LengthBytes(n)[i]
  <2>1. i + 1 \in 1 .. h + Len(b) /\ i + 1 <= h
    BY <1>1, <1>2
  <2> QED BY <1>1, <1>2, <2>1
<1>6. ASSUME NEW i \in 1 .. Len(b) PROVE p[h + i] = b[i]
  <2>1. h + i \in 1 .. h + Len(b) /\ ~(h + i <= h) /\ (h + i) - h = i
    BY <1>1, <1>2
  <2> QED BY <1>2, <2>1
<1>7. HeaderEnd(p) = h /\ mqtt_get_total_length(p) = h + n
  BY <1>2, <1>3, <1>5, TotalIs DEF h
<1> QED BY <1>2, <1>4, <1>5, <1>6, <1>7 DEF h

LEMMA WireFixed ==
    ASSUME NEW first, NEW body
    PROVE  Wire(first, body) = Fixed(first, Len(body)) \o body
BY DEF Wire, Fixed, LengthBytes

LEMMA HeadedBody ==
    ASSUME NEW first \in Byte, NEW n \in Nat, n < 128 * 128,
           NEW body \in Seq(Byte), Len(body) = n, NEW p, Headed(p, first, n, body)
    PROVE  Body(p) = body
<1>1. \A i \in 1 .. HeaderSize(n) - 1 : p[i + 1] = LengthBytes(n)[i]
  BY BehindFixed
<1> DEFINE h == HeaderSize(n)
<1>2. \A i \in 1 .. h - 1 : p[i + 1] = LengthBytes(n)[i]
  BY <1>1
<1>3. Len(Fixed(first, n)) = h /\ Fixed(first, n) \in Seq(Byte) /\ h \in {2, 3}
  BY FixedType
<1> DEFINE Ends(k) == /\ p[k + 1] < 128
                      /\ \A i \in 1 .. (k - 1) : p[i + 1] >= 128
<1>4. h - 1 \in 1 .. 4 /\ Ends(h - 1) /\ \A k \in 1 .. 4 : Ends(k) => k = h - 1
  <2>1. CASE n < 128
    <3>1. h = 2 /\ LengthBytes(n)[1] = n
      BY <2>1 DEF HeaderSize, LengthBytes
    <3> HIDE DEF h
    <3>2. p[1 + 1] = n
      BY <1>2, <3>1
    <3>3. p[2] < 128
      BY <2>1, <3>2
    <3>4. \A k \in 1 .. 4 : Ends(k) => k = 1
      <4> SUFFICES ASSUME NEW k \in 1 .. 4, k # 1, Ends(k) PROVE FALSE
        OBVIOUS
      <4>1. 1 \in 1 .. (k - 1)
        OBVIOUS
      <4>2. p[1 + 1] >= 128
        BY <4>1
      <4> QED BY <2>1, <3>2, <4>2
    <3> QED BY <3>1, <3>3, <3>4
  <2>2. CASE ~(n < 128)
    <3>1. h = 3 /\ LengthBytes(n)[1] = 128 + (n % 128) /\ LengthBytes(n)[2] = n \div 128
      BY <2>2 DEF HeaderSize, LengthBytes
    <3>2. n % 128 \in Nat /\ n \div 128 \in Nat /\ n \div 128 < 128
      BY LengthSplit
    <3> HIDE DEF h
    <3>3. p[1 + 1] = 128 + (n % 128) /\ p[2 + 1] = n \div 128
      BY <1>2, <3>1
    <3>4. p[2] >= 128 /\ ~(p[2] < 128) /\ p[3] < 128 /\ ~(p[3] >= 128)
      BY <3>2, <3>3
    <3>5. \A k \in 1 .. 4 : Ends(k) => k = 2
      <4> SUFFICES ASSUME NEW k \in 1 .. 4, k # 2, Ends(k) PROVE FALSE
        OBVIOUS
      <4>1. CASE k = 1
        BY <3>4, <4>1
      <4>2. CASE k # 1
        <5>1. 2 \in 1 .. (k - 1)
          BY <4>2
        <5>2. p[2 + 1] >= 128
          BY <5>1
        <5> QED BY <3>4, <5>2
      <4> QED BY <4>1, <4>2
    <3> QED BY <3>1, <3>4, <3>5
  <2> QED BY <2>1, <2>2
<1> DEFINE k == CHOOSE k \in 1 .. 4 : Ends(k)
<1>5. k = h - 1
  BY <1>4
<1>6. Body(p) = SubSeq(p, k + 2, Len(p))
  BY DEF Body
<1> HIDE DEF k, h
<1>7. k + 2 = Len(Fixed(first, n)) + 1
  BY <1>3, <1>5
<1>8. SubSeq(p, Len(Fixed(first, n)) + 1, Len(p)) = body
  BY <1>3, Back DEF Headed
<1> QED BY <1>6, <1>7, <1>8

(***************************************************************************)
(* Induction, as statements about sets.                                    *)
(***************************************************************************)

\* A set with 0 that is closed under + 1 has every natural number.
LEMMA NatInd == ASSUME NEW T, 0 \in T, \A n \in Nat : n \in T => n + 1 \in T
                PROVE  \A n \in Nat : n \in T
<1> DEFINE U == Nat \ T
<1> SUFFICES ASSUME U # {} PROVE FALSE
  OBVIOUS
<1>1. PICK x \in U : \A y \in U : <<y, x>> \notin OpToRel(<, Nat)
  BY WFMin, NatLessThanWellFounded
<1>2. x \in Nat /\ x # 0 /\ x - 1 \in Nat
  OBVIOUS
<1>3. <<x - 1, x>> \in OpToRel(<, Nat)
  BY <1>2 DEF OpToRel
<1>4. x - 1 \in T
  BY <1>1, <1>2, <1>3
<1> QED
  BY <1>2, <1>4

\* A set with the empty sequence that is closed under Append has every
\* sequence.
LEMMA SeqInd == ASSUME NEW S, NEW T, <<>> \in T,
                       \A s \in Seq(S), e \in S : s \in T => Append(s, e) \in T
                PROVE  \A s \in Seq(S) : s \in T
<1> DEFINE L == {n \in Nat : \A s \in Seq(S) : Len(s) = n => s \in T}
<1>1. 0 \in L
  BY EmptySeq
<1>2. ASSUME NEW n \in Nat, n \in L PROVE n + 1 \in L
  <2> SUFFICES ASSUME NEW s \in Seq(S), Len(s) = n + 1 PROVE s \in T
    OBVIOUS
  <2>1. PICK t \in Seq(S), e \in S : s = Append(t, e)
    BY EmptySeq, SequenceEmptyOrAppend
  <2>2. Len(t) = n
    BY <2>1, AppendProperties, LenProperties
  <2> QED BY <1>2, <2>1, <2>2
<1> HIDE DEF L
<1>3. \A n \in Nat : n \in L
  BY <1>1, <1>2, NatInd
<1> QED BY <1>3, LenProperties DEF L

(***************************************************************************)
(* Several packets in one segment.                                         *)
(***************************************************************************)

\* The recursion of FlattenSeq over the first n sequences.
IsFlat(f, n, seqs) ==
  f = [i \in 1 .. n |-> IF i = 1 THEN seqs[i] ELSE f[i - 1] \o seqs[i]]

LEMMA FlattenDef ==
  ASSUME NEW seqs, Len(seqs) # 0
  PROVE  FlattenSeq(seqs) =
           (CHOOSE f : IsFlat(f, Len(seqs), seqs))[Len(seqs)]
BY DEF FlattenSeq, IsFlat

LEMMA FlattenExists ==
  ASSUME NEW seqs, NEW n \in Nat
  PROVE  \E f : IsFlat(f, n, seqs)
<1> DEFINE T == {k \in Nat : \E f : IsFlat(f, k, seqs)}
<1>1. 0 \in T
  <2> DEFINE f == [i \in 1 .. 0 |-> <<>>]
  <2>1. f = [i \in 1 .. 0 |-> IF i = 1 THEN seqs[i] ELSE f[i - 1] \o seqs[i]]
    OBVIOUS
  <2> QED BY <2>1 DEF IsFlat
<1>2. ASSUME NEW k \in Nat, k \in T PROVE k + 1 \in T
  <2>1. PICK f : IsFlat(f, k, seqs)
    BY <1>2
  <2> DEFINE g == [i \in 1 .. k + 1 |->
                     IF i <= k THEN f[i]
                     ELSE IF i = 1 THEN seqs[i] ELSE f[i - 1] \o seqs[i]]
  <2>2. ASSUME NEW i \in 1 .. k + 1
        PROVE  g[i] = IF i = 1 THEN seqs[i] ELSE g[i - 1] \o seqs[i]
    <3>1. i # 1 => i - 1 \in 1 .. k /\ g[i - 1] = f[i - 1]
      OBVIOUS
    <3>2. CASE i <= k
      <4>1. i \in 1 .. k
        BY <3>2
      <4>2. f[i] = IF i = 1 THEN seqs[i] ELSE f[i - 1] \o seqs[i]
        BY <2>1, <4>1 DEF IsFlat
      <4> QED BY <3>1, <3>2, <4>2
    <3>3. CASE ~(i <= k)
      BY <3>1, <3>3
    <3> QED BY <3>2, <3>3
  <2>3. g = [i \in 1 .. k + 1 |-> g[i]]
    OBVIOUS
  <2> HIDE DEF g
  <2>4. g = [i \in 1 .. k + 1 |-> IF i = 1 THEN seqs[i] ELSE g[i - 1] \o seqs[i]]
    BY <2>2, <2>3
  <2>5. IsFlat(g, k + 1, seqs)
    BY <2>4 DEF IsFlat
  <2> QED BY <2>5
<1> HIDE DEF T
<1>3. n \in T
  BY <1>1, <1>2, NatInd
<1> QED BY <1>3 DEF T

LEMMA FlattenUnique ==
  ASSUME NEW v, NEW w, NEW n \in Nat, NEW m \in Nat, n <= m,
         \A i \in 1 .. n : v[i] = w[i],
         NEW g, IsFlat(g, n, v), NEW h, IsFlat(h, m, w)
  PROVE  n # 0 => g[n] = h[n]
<1> DEFINE T == {k \in Nat : k \in 1 .. n => g[k] = h[k]}
<1>1. 0 \in T
  OBVIOUS
<1>2. ASSUME NEW k \in Nat, k \in T PROVE k + 1 \in T
  <2> SUFFICES ASSUME k + 1 \in 1 .. n PROVE g[k + 1] = h[k + 1]
    OBVIOUS
  <2>1. k + 1 \in 1 .. m /\ (k + 1) - 1 = k /\ v[k + 1] = w[k + 1]
        /\ (k + 1 # 1 => k \in 1 .. n)
    OBVIOUS
  <2>2. g[k + 1] = IF k + 1 = 1 THEN v[k + 1] ELSE g[k] \o v[k + 1]
    BY <2>1, ZenonT(60) DEF IsFlat
  <2>3. h[k + 1] = IF k + 1 = 1 THEN w[k + 1] ELSE h[k] \o w[k + 1]
    BY <2>1 DEF IsFlat
  <2> QED BY <1>2, <2>1, <2>2, <2>3
<1> HIDE DEF T
<1>3. \A k \in Nat : k \in T
  BY <1>1, <1>2, NatInd
<1> QED BY <1>3 DEF T

\* The sequence put last comes out last.
LEMMA FlattenLast ==
  ASSUME NEW v, NEW w, NEW n \in Nat, n # 0, Len(v) = n, Len(w) = n + 1,
         \A i \in 1 .. n : v[i] = w[i]
  PROVE  FlattenSeq(w) = FlattenSeq(v) \o w[n + 1]
<1> DEFINE g == CHOOSE f : IsFlat(f, n, v)
           h == CHOOSE f : IsFlat(f, n + 1, w)
<1>0. n + 1 \in Nat /\ n + 1 \in 1 .. n + 1 /\ n + 1 # 1 /\ (n + 1) - 1 = n
  OBVIOUS
<1>1. IsFlat(g, n, v) /\ IsFlat(h, n + 1, w)
  <2>1. \E f : IsFlat(f, n, v)
    BY FlattenExists
  <2>2. \E f : IsFlat(f, n + 1, w)
    BY <1>0, FlattenExists
  <2> QED BY <2>1, <2>2, Zenon
<1>2. FlattenSeq(w) = h[n + 1] /\ FlattenSeq(v) = g[n]
  BY FlattenDef
<1> HIDE DEF g, h
<1>3. h[n + 1] = h[n] \o w[n + 1]
  <2>1. h[n + 1] = IF n + 1 = 1 THEN w[n + 1] ELSE h[(n + 1) - 1] \o w[n + 1]
    BY <1>0, <1>1, Zenon DEF IsFlat
  <2> QED BY <1>0, <2>1
<1>4. g[n] = h[n]
  BY <1>1, FlattenUnique
<1> QED BY <1>2, <1>3, <1>4

LEMMA FlattenAppend ==
  ASSUME NEW S, NEW seqs \in Seq(Seq(S)), NEW x \in Seq(S)
  PROVE  FlattenSeq(Append(seqs, x)) = FlattenSeq(seqs) \o x
<1> DEFINE n == Len(seqs)
           all == Append(seqs, x)
<1>1. /\ n \in Nat /\ Len(all) = n + 1 /\ all[n + 1] = x
      /\ \A i \in 1 .. n : seqs[i] = all[i]
  OBVIOUS
<1>2. CASE n = 0
  <2>1. seqs = <<>> /\ all = <<x>>
    BY <1>2
  <2>2. FlattenSeq(<<>>) = <<>> /\ <<>> \o x = x
    BY DEF FlattenSeq
  <2>3. Len(<<x>>) # 0 /\ Len(<<x>>) = 1
    OBVIOUS
  <2>4. PICK f : IsFlat(f, 1, <<x>>)
    BY FlattenExists
  <2> DEFINE h == CHOOSE it : IsFlat(it, 1, <<x>>)
  <2>5. FlattenSeq(<<x>>) = h[1]
    BY <2>3, FlattenDef
  <2>6. IsFlat(h, 1, <<x>>)
    BY <2>4, Zenon
  <2> HIDE DEF h
  <2>7. h[1] = x
    BY <2>6 DEF IsFlat
  <2> QED BY <2>1, <2>2, <2>5, <2>7
<1>3. CASE n # 0
  <2> HIDE DEF n, all
  <2>1. FlattenSeq(all) = FlattenSeq(seqs) \o all[n + 1]
    BY <1>1, <1>3, FlattenLast DEF n
  <2> QED BY <1>1, <2>1 DEF all
<1> QED BY <1>2, <1>3

\* What the broker sends for a setting, and for several.
SettingBody(topic, data) == Word(Len(topic)) \o topic \o data
Payload(m) == SettingBody(m.topic, m.data)
SettingPacket(m) == Wire(16 * PUBLISH + 1, Payload(m))
Segment(messages) == FlattenSeq([i \in DOMAIN messages |-> SettingPacket(messages[i])])

LEMMA WordType ==
    ASSUME NEW n \in Nat, n <= UINT16_MAX
    PROVE  Word(n) \in Seq(Byte) /\ Len(Word(n)) = 2 /\ Word(n)[1] * 256 + Word(n)[2] = n
<1>1. n <= 65535
  BY DEF UINT16_MAX
<1>2. n \div 256 \in Byte /\ n % 256 \in Byte /\ (n \div 256) * 256 + (n % 256) = n
  <2>1. /\ n \div 256 \in Nat /\ n \div 256 <= 255 /\ n % 256 \in Nat /\ n % 256 <= 255
        /\ (n \div 256) * 256 + (n % 256) = n
    BY <1>1
  <2> QED BY <2>1 DEF Byte
<1> DEFINE a == n \div 256
           b == n % 256
<1>3. Word(n) = <<a, b>>
  BY DEF Word
<1> HIDE DEF a, b
<1>4. a \in Byte /\ b \in Byte /\ a * 256 + b = n
  BY <1>2 DEF a, b
<1> QED BY <1>3, <1>4

LEMMA ShortWord ==
    ASSUME NEW n \in Nat, n < 128 * 128
    PROVE  n <= UINT16_MAX
BY DEF UINT16_MAX

LEMMA SettingBodyType ==
    ASSUME NEW topic \in Seq(Byte), NEW data \in Seq(Byte), 2 + Len(topic) + Len(data) < 128 * 128
    PROVE  /\ SettingBody(topic, data) \in Seq(Byte)
           /\ Len(SettingBody(topic, data)) = 2 + Len(topic) + Len(data)
           /\ Word(Len(topic)) \in Seq(Byte) /\ Len(Word(Len(topic))) = 2
           /\ Word(Len(topic))[1] * 256 + Word(Len(topic))[2] = Len(topic)
           /\ Len(topic) \in Nat /\ Len(data) \in Nat
<1>1. Len(topic) \in Nat /\ Len(data) \in Nat /\ Len(topic) < 128 * 128
  BY LenProperties
<1>2. Len(topic) <= UINT16_MAX
  BY <1>1, ShortWord
<1> DEFINE t == Word(Len(topic))
<1>3. t \in Seq(Byte) /\ Len(t) = 2 /\ t[1] * 256 + t[2] = Len(topic)
  BY <1>1, <1>2, WordType
<1> HIDE DEF t
<1>4. t \o topic \in Seq(Byte) /\ Len(t \o topic) = 2 + Len(topic)
  <2>1. t \in Seq(Byte)
    BY <1>3
  <2>2. t \o topic \in Seq(Byte) /\ Len(t \o topic) = Len(t) + Len(topic)
    BY <2>1, ConcatProperties
  <2> QED BY <1>3, <2>2
<1>5. (t \o topic) \o data \in Seq(Byte)
      /\ Len((t \o topic) \o data) = (2 + Len(topic)) + Len(data)
  BY <1>4, ConcatProperties
<1>6. SettingBody(topic, data) = (t \o topic) \o data
  BY DEF SettingBody, t
<1> QED BY <1>1, <1>3, <1>5, <1>6 DEF t

LEMMA MessageParts ==
    ASSUME NEW m \in Messages
    PROVE  /\ m.topic \in Seq(Byte) /\ m.data \in Seq(Byte) /\ m.topic # <<>>
           /\ 2 + Len(m.topic) + Len(m.data) < 128 * 128
           /\ Payload(m) \in Seq(Byte)
           /\ Len(Payload(m)) \in Nat /\ Len(Payload(m)) < 128 * 128
<1>1. m.topic \in Topics /\ m.data \in Settings
  BY DEF Messages
<1>2. m.topic \in Seq(Byte) /\ m.data \in Seq(Byte) /\ m.topic # <<>>
  BY <1>1, TextAssumption
<1>3. 2 + Len(m.topic) + Len(m.data) < 128 * 128
  BY <1>1, SettingAssumption
<1>4. SettingBody(m.topic, m.data) \in Seq(Byte)
      /\ Len(SettingBody(m.topic, m.data)) = 2 + Len(m.topic) + Len(m.data)
  BY <1>2, <1>3, SettingBodyType, ZenonT(60)
<1>5. Len(SettingBody(m.topic, m.data)) \in Nat
  BY <1>4, LenProperties
<1> QED BY <1>2, <1>3, <1>4, <1>5 DEF Payload

LEMMA FirstByte == 16 * PUBLISH + 1 = 49 /\ 49 \in Byte /\ 49 \div 16 = PUBLISH /\ (49 % 8) \div 2 = 0
BY DEF PUBLISH, Byte

LEMMA SettingHeaded ==
    ASSUME NEW m \in Messages
    PROVE  /\ SettingPacket(m) \in Seq(Byte)
           /\ SettingPacket(m) = Fixed(49, Len(Payload(m))) \o Payload(m)
           /\ Len(SettingPacket(m)) = HeaderSize(Len(Payload(m))) + Len(Payload(m))
<1> DEFINE b == Payload(m)
           n == Len(b)
<1>1. b \in Seq(Byte) /\ n \in Nat /\ n < 128 * 128
  <2>1. Payload(m) \in Seq(Byte) /\ Len(Payload(m)) \in Nat /\ Len(Payload(m)) < 128 * 128
    BY MessageParts
  <2> QED BY <2>1
<1>2. SettingPacket(m) = Fixed(49, n) \o b
  BY FirstByte, WireFixed DEF SettingPacket
<1> HIDE DEF b, n
<1>3. Headed(SettingPacket(m), 49, n, b)
  BY <1>2 DEF Headed
<1>4. SettingPacket(m) \in Seq(Byte) /\ Len(SettingPacket(m)) = HeaderSize(n) + Len(b)
  BY <1>1, <1>3, FirstByte, BehindFixed
<1> QED BY <1>2, <1>4 DEF b, n

LEMMA SegmentAppend ==
    ASSUME NEW s \in Seq(Messages), NEW m \in Messages
    PROVE  Segment(Append(s, m)) = Segment(s) \o SettingPacket(m)
<1> DEFINE all == Append(s, m)
           f == [i \in DOMAIN s |-> SettingPacket(s[i])]
           g == [i \in DOMAIN all |-> SettingPacket(all[i])]
           S == Seq(Byte)
<1>1. /\ DOMAIN s = 1 .. Len(s) /\ Len(s) \in Nat
      /\ all \in Seq(Messages) /\ Len(all) = Len(s) + 1 /\ DOMAIN all = 1 .. Len(all)
      /\ \A i \in 1 .. Len(s) : all[i] = s[i] /\ s[i] \in Messages
      /\ all[Len(s) + 1] = m
  BY AppendProperties, LenProperties, ElementOfSeq
<1> HIDE DEF all, S
<1>2. \A x \in Messages : SettingPacket(x) \in S
  BY SettingHeaded DEF S
<1>3. f \in Seq(S) /\ Len(f) = Len(s)
  BY <1>1, <1>2
<1>4. g = Append(f, SettingPacket(m))
  <2>1. g \in Seq(S) /\ Len(g) = Len(s) + 1
    <3>1. \A i \in 1 .. Len(all) : all[i] \in Messages
      BY <1>1, ElementOfSeq
    <3> QED BY <1>1, <1>2, <3>1
  <2> DEFINE h == Append(f, SettingPacket(m))
  <2>2. /\ h \in Seq(S) /\ Len(h) = Len(s) + 1
        /\ \A i \in 1 .. Len(s) : h[i] = f[i]
        /\ h[Len(s) + 1] = SettingPacket(m)
    BY <1>2, <1>3, AppendProperties
  <2>3. ASSUME NEW i \in 1 .. Len(s) + 1 PROVE g[i] = h[i]
    <3>1. CASE i = Len(s) + 1
      <4>1. g[i] = SettingPacket(all[i])
        BY <1>1
      <4> QED BY <1>1, <2>2, <3>1, <4>1
    <3>2. CASE i # Len(s) + 1
      <4>1. i \in 1 .. Len(s)
        BY <1>1, <3>2
      <4>2. g[i] = SettingPacket(all[i]) /\ f[i] = SettingPacket(s[i])
        BY <1>1, <4>1
      <4> QED BY <1>1, <2>2, <4>1, <4>2
    <3> QED BY <3>1, <3>2
  <2> HIDE DEF g, h
  <2>4. g = h
    BY <2>1, <2>2, <2>3, SeqEqual
  <2> QED BY <2>4 DEF h
<1>5. SettingPacket(m) \in S
  BY <1>2
<1> HIDE DEF f, g
<1>6. FlattenSeq(Append(f, SettingPacket(m))) = FlattenSeq(f) \o SettingPacket(m)
  BY <1>3, <1>5, FlattenAppend DEF S
<1> QED BY <1>4, <1>6 DEF Segment, f, g, all

LEMMA SegmentEmpty == Segment(<<>>) = <<>>
<1>1. [i \in DOMAIN <<>> |-> SettingPacket(<<>>[i])] = <<>>
  OBVIOUS
<1>2. FlattenSeq(<<>>) = <<>>
  BY DEF FlattenSeq
<1> QED BY <1>1, <1>2 DEF Segment

LEMMA SegmentType == \A s \in Seq(Messages) : Segment(s) \in Seq(Byte)
<1> DEFINE T == {s \in Seq(Messages) : Segment(s) \in Seq(Byte)}
<1>1. <<>> \in T
  BY SegmentEmpty, EmptySeq
<1>2. ASSUME NEW s \in Seq(Messages), NEW m \in Messages, s \in T
      PROVE  Append(s, m) \in T
  <2>1. Append(s, m) \in Seq(Messages)
    BY AppendProperties
  <2>2. Segment(s) \o SettingPacket(m) \in Seq(Byte)
    BY <1>2, SettingHeaded, ConcatProperties
  <2> QED BY <2>1, <2>2, SegmentAppend
<1> HIDE DEF T
<1>3. \A s \in Seq(Messages) : s \in T
  BY <1>1, <1>2, SeqInd
<1> QED BY <1>3 DEF T

LEMMA SegmentFirst ==
    ASSUME NEW m \in Messages
    PROVE  \A s \in Seq(Messages) : Segment(<<m>> \o s) = SettingPacket(m) \o Segment(s)
<1> DEFINE T == {s \in Seq(Messages) : Segment(<<m>> \o s) = SettingPacket(m) \o Segment(s)}
<1>0. SettingPacket(m) \in Seq(Byte) /\ <<m>> \in Seq(Messages)
  BY SettingHeaded
<1>1. <<>> \in T
  <2>1. <<>> \in Seq(Messages) /\ <<m>> \o <<>> = Append(<<>>, m)
    BY EmptySeq
  <2>2. Segment(Append(<<>>, m)) = <<>> \o SettingPacket(m)
    BY <2>1, SegmentAppend, SegmentEmpty
  <2>3. <<>> \o SettingPacket(m) = SettingPacket(m) \o <<>>
    BY <1>0, ConcatEmptySeq
  <2> QED BY <2>1, <2>2, <2>3, SegmentEmpty
<1>2. ASSUME NEW s \in Seq(Messages), NEW e \in Messages, s \in T
      PROVE  Append(s, e) \in T
  <2>1. Append(s, e) \in Seq(Messages) /\ <<m>> \o s \in Seq(Messages)
    BY <1>0, AppendProperties, ConcatProperties
  <2>2. <<m>> \o Append(s, e) = Append(<<m>> \o s, e)
    OBVIOUS
  <2>3. Segment(Append(<<m>> \o s, e)) = Segment(<<m>> \o s) \o SettingPacket(e)
    BY <2>1, SegmentAppend
  <2>4. Segment(Append(s, e)) = Segment(s) \o SettingPacket(e)
    BY SegmentAppend
  <2>5. (SettingPacket(m) \o Segment(s)) \o SettingPacket(e)
        = SettingPacket(m) \o (Segment(s) \o SettingPacket(e))
    <3>1. SettingPacket(e) \in Seq(Byte) /\ Segment(s) \in Seq(Byte)
      BY SettingHeaded, SegmentType
    <3> QED BY <1>0, <3>1, ConcatAssociative, SMTT(30)
  <2> QED BY <1>2, <2>1, <2>2, <2>3, <2>4, <2>5
<1> HIDE DEF T
<1>3. \A s \in Seq(Messages) : s \in T
  BY <1>1, <1>2, SeqInd
<1> QED BY <1>3 DEF T

(***************************************************************************)
(* Parts of a sequence, and what a setting says.                           *)
(***************************************************************************)

LEMMA Longer ==
    ASSUME NEW S, NEW a \in Seq(S), NEW b \in Seq(S), NEW i \in 1 .. Len(a)
    PROVE  (a \o b)[i] = a[i] /\ i \in 1 .. Len(a \o b) /\ a \o b \in Seq(S)
           /\ Len(a \o b) = Len(a) + Len(b)
<1>1. /\ a \o b \in Seq(S) /\ Len(a \o b) = Len(a) + Len(b)
      /\ \A k \in 1 .. Len(a) + Len(b) : (a \o b)[k] = IF k <= Len(a) THEN a[k] ELSE b[k - Len(a)]
  BY ConcatProperties
<1>2. Len(a) \in Nat /\ Len(b) \in Nat
  BY LenProperties
<1>3. i \in 1 .. Len(a) + Len(b) /\ i <= Len(a)
  BY <1>2
<1> QED BY <1>1, <1>3

\* Four and five sequences put behind each other.
Four(b, t, a, d, r) == b = ((t \o a) \o d) \o r
Five(p, f, t, a, d, r) == p = f \o (((t \o a) \o d) \o r)

LEMMA FiveParts ==
    ASSUME NEW S, NEW f, NEW t, NEW a, NEW d, NEW r, NEW p
    PROVE  /\ f \in Seq(S) /\ t \in Seq(S) /\ a \in Seq(S) /\ d \in Seq(S) /\ r \in Seq(S)
           /\ Five(p, f, t, a, d, r)
           =>
           LET n == Len(f) + Len(t)
           IN  /\ SubSeq(p, n + 1, n + Len(a)) = a
               /\ SubSeq(p, n + Len(a) + 1, n + Len(a) + Len(d)) = d
               /\ SubSeq(p, n + Len(a) + Len(d) + 1, Len(p)) = r
               /\ Len(p) = n + Len(a) + Len(d) + Len(r)
<1> DEFINE n == Len(f) + Len(t)
           ft == f \o t
           fta == ft \o a
           dr == d \o r
           ta == t \o a
           tad == ta \o d
           ftad == f \o tad
<1>0. SUFFICES ASSUME f \in Seq(S), t \in Seq(S), a \in Seq(S), d \in Seq(S), r \in Seq(S),
                      Five(p, f, t, a, d, r)
      PROVE  /\ SubSeq(p, n + 1, n + Len(a)) = a
             /\ SubSeq(p, n + Len(a) + 1, n + Len(a) + Len(d)) = d
             /\ SubSeq(p, n + Len(a) + Len(d) + 1, Len(p)) = r
             /\ Len(p) = n + Len(a) + Len(d) + Len(r)
  OBVIOUS
<1>f. f \in Seq(S) /\ Len(f) \in Nat
  BY <1>0, LenProperties
<1>t. t \in Seq(S) /\ Len(t) \in Nat
  BY <1>0, LenProperties
<1>a. a \in Seq(S) /\ Len(a) \in Nat
  BY <1>0, LenProperties
<1>d. d \in Seq(S) /\ Len(d) \in Nat
  BY <1>0, LenProperties
<1>r. r \in Seq(S) /\ Len(r) \in Nat
  BY <1>0, LenProperties
<1>1. ft \in Seq(S) /\ Len(ft) = n
  BY <1>f, <1>t, ConcatProperties
<1>2. dr \in Seq(S) /\ Len(dr) = Len(d) + Len(r)
  BY <1>d, <1>r, ConcatProperties
<1>3. fta \in Seq(S) /\ Len(fta) = n + Len(a)
  <2> HIDE DEF ft, n
  <2>1. fta \in Seq(S) /\ Len(fta) = Len(ft) + Len(a)
    BY <1>1, <1>a, ConcatProperties
  <2> QED BY <1>1, <2>1
<1>4. ta \in Seq(S) /\ Len(ta) = Len(t) + Len(a)
  BY <1>a, <1>t, ConcatProperties
<1>5. tad \in Seq(S) /\ Len(tad) = Len(ta) + Len(d)
  <2> HIDE DEF ta
  <2> QED BY <1>4, <1>d, ConcatProperties
<1>6. ftad \in Seq(S) /\ Len(ftad) = Len(f) + Len(tad)
  <2> HIDE DEF tad
  <2> QED BY <1>5, <1>f, ConcatProperties
<1>7. p = ft \o (a \o dr) /\ p = fta \o dr /\ p = ftad \o r
  <2>1. tad \o r = ta \o dr
    <3> HIDE DEF ta
    <3>1. ta \in Seq(S)
      BY <1>4
    <3> QED BY <1>d, <1>r, <3>1, ConcatAssociative
  <2>2. ta \o dr = t \o (a \o dr)
    <3> HIDE DEF dr
    <3>1. dr \in Seq(S)
      BY <1>2
    <3> QED BY <1>a, <1>t, <3>1, ConcatAssociative
  <2> DEFINE adr == a \o dr
  <2>3. f \o (t \o adr) = ft \o adr
    <3>1. adr \in Seq(S)
      <4> HIDE DEF dr
      <4> QED BY <1>2, <1>a, ConcatProperties
    <3> HIDE DEF adr
    <3> QED BY <1>f, <1>t, <3>1, ConcatAssociative, SMTT(30)
  <2>4. ft \o (a \o dr) = fta \o dr
    <3> HIDE DEF ft, dr
    <3>1. ft \in Seq(S) /\ dr \in Seq(S)
      BY <1>1, <1>2
    <3> QED BY <1>a, <3>1, ConcatAssociative, SMTT(30)
  <2>5. f \o (tad \o r) = ftad \o r
    <3> HIDE DEF tad
    <3>1. tad \in Seq(S)
      BY <1>5
    <3> QED BY <1>f, <1>r, <3>1, ConcatAssociative
  <2>6. p = f \o (tad \o r)
    BY <1>0 DEF Five
  <2> HIDE DEF ft, fta, dr, ta, tad, ftad
  <2>7. p = ft \o (a \o dr)
    BY <2>1, <2>2, <2>3, <2>6
  <2> QED BY <2>4, <2>5, <2>6, <2>7
<1> HIDE DEF ft, fta, dr, ta, tad, ftad
<1>8. Len(ftad) = n + Len(a) + Len(d)
  BY <1>f, <1>t, <1>a, <1>d, <1>4, <1>5, <1>6
<1> n \in Nat
  BY <1>f, <1>t
<1> HIDE DEF n
<1>9. SubSeq(p, n + 1, n + Len(a)) = a
  <2>1. SubSeq(ft \o (a \o dr), Len(ft) + 1, Len(ft) + Len(a)) = a
    BY <1>1, <1>2, <1>a, Middle
  <2> QED BY <1>1, <1>7, <2>1
<1>10. SubSeq(p, n + Len(a) + 1, n + Len(a) + Len(d)) = d
  <2>1. SubSeq(fta \o (d \o r), Len(fta) + 1, Len(fta) + Len(d)) = d
    BY <1>3, <1>d, <1>r, Middle
  <2>2. p = fta \o (d \o r)
    BY <1>7 DEF dr
  <2> QED BY <1>3, <2>1, <2>2
<1>11. SubSeq(p, n + Len(a) + Len(d) + 1, Len(p)) = r
  <2>1. SubSeq(ftad \o r, Len(ftad) + 1, Len(ftad \o r)) = r
    BY <1>6, <1>r, Back
  <2> QED BY <1>7, <1>8, <2>1
<1>12. Len(p) = n + Len(a) + Len(d) + Len(r)
  <2>1. Len(fta \o dr) = Len(fta) + Len(dr)
    BY <1>2, <1>3, ConcatProperties
  <2>2. Len(p) = (n + Len(a)) + (Len(d) + Len(r))
    BY <1>2, <1>3, <1>7, <2>1
  <2> QED BY <1>a, <1>d, <1>r, <2>2
<1> QED BY <1>9, <1>10, <1>11, <1>12

LEMMA FirstTwo ==
    ASSUME NEW S, NEW t, NEW a, NEW d, NEW r, NEW b
    PROVE  /\ t \in Seq(S) /\ a \in Seq(S) /\ d \in Seq(S) /\ r \in Seq(S) /\ Len(t) = 2
           /\ Four(b, t, a, d, r)
           => b \in Seq(S) /\ Len(b) \in Nat /\ Len(b) >= 2 /\ b[1] = t[1] /\ b[2] = t[2]
<1> DEFINE ta == t \o a
           tad == ta \o d
<1>0. SUFFICES ASSUME t \in Seq(S), a \in Seq(S), d \in Seq(S), r \in Seq(S), Len(t) = 2,
                      Four(b, t, a, d, r)
      PROVE  b \in Seq(S) /\ Len(b) \in Nat /\ Len(b) >= 2 /\ b[1] = t[1] /\ b[2] = t[2]
  OBVIOUS
<1>b. b = tad \o r
  BY <1>0 DEF Four
<1>1. \A x, y : x \in Seq(S) /\ y \in Seq(S) /\ Len(x) >= 2 =>
         x \o y \in Seq(S) /\ Len(x \o y) >= 2 /\ (x \o y)[1] = x[1] /\ (x \o y)[2] = x[2]
  <2>1. SUFFICES ASSUME NEW x, NEW y, x \in Seq(S), y \in Seq(S), Len(x) >= 2
        PROVE  x \o y \in Seq(S) /\ Len(x \o y) >= 2 /\ (x \o y)[1] = x[1] /\ (x \o y)[2] = x[2]
    OBVIOUS
  <2>2. 1 \in 1 .. Len(x) /\ 2 \in 1 .. Len(x) /\ Len(x) \in Nat /\ Len(y) \in Nat
    BY <2>1, LenProperties
  <2>3. x \o y \in Seq(S) /\ Len(x \o y) = Len(x) + Len(y)
        /\ (x \o y)[1] = x[1] /\ (x \o y)[2] = x[2]
    BY <2>1, <2>2, Longer
  <2> QED BY <2>1, <2>2, <2>3
<1>2. ta \in Seq(S) /\ Len(ta) >= 2 /\ ta[1] = t[1] /\ ta[2] = t[2]
  <2>1. Len(t) >= 2
    BY <1>0
  <2> QED BY <1>0, <1>1, <2>1
<1> HIDE DEF ta
<1>3. tad \in Seq(S) /\ Len(tad) >= 2 /\ tad[1] = t[1] /\ tad[2] = t[2]
  BY <1>0, <1>1, <1>2
<1> HIDE DEF tad
<1>4. b \in Seq(S) /\ Len(b) >= 2 /\ b[1] = t[1] /\ b[2] = t[2]
  BY <1>0, <1>1, <1>3, <1>b
<1>5. Len(b) \in Nat
  BY <1>4, LenProperties
<1> QED BY <1>4, <1>5

Whole(bytes) == [length |-> Len(bytes), bytes |-> bytes]
Given(m) == [topic |-> Whole(m.topic), data |-> Whole(m.data)]

\* How a segment that begins with a setting is laid out.
SettingFirst(p, topic, data, rest, n) ==
    /\ p \in Seq(Byte) /\ p[1] = 49
    /\ HeaderSize(n) \in {2, 3}
    /\ Len(p) = HeaderSize(n) + n + Len(rest)
    /\ HeaderEnd(p) = HeaderSize(n)
    /\ mqtt_get_total_length(p) = HeaderSize(n) + n
    /\ Number(p, HeaderSize(n)) = Len(topic)
    /\ SubSeq(p, HeaderSize(n) + 2 + 1, HeaderSize(n) + 2 + Len(topic)) = topic
    /\ SubSeq(p, HeaderSize(n) + 2 + Len(topic) + 1, HeaderSize(n) + n) = data
    /\ SubSeq(p, HeaderSize(n) + n + 1, Len(p)) = rest

LEMMA SettingLayout ==
    ASSUME NEW topic, NEW data, NEW rest, NEW n, NEW p
    PROVE  /\ topic \in Seq(Byte) /\ data \in Seq(Byte) /\ rest \in Seq(Byte)
           /\ 2 + Len(topic) + Len(data) < 128 * 128
           /\ n = 2 + Len(topic) + Len(data)
           /\ Headed(p, 49, n, SettingBody(topic, data) \o rest)
           => SettingFirst(p, topic, data, rest, n)
<1> DEFINE h == HeaderSize(n)
           f == Fixed(49, n)
           t == Word(Len(topic))
           b == ((t \o topic) \o data) \o rest
<1>0. SUFFICES ASSUME topic \in Seq(Byte), data \in Seq(Byte), rest \in Seq(Byte),
                      2 + Len(topic) + Len(data) < 128 * 128,
                      n = 2 + Len(topic) + Len(data),
                      Headed(p, 49, n, b)
      PROVE  SettingFirst(p, topic, data, rest, n)
  BY DEF SettingBody
<1>1. /\ t \in Seq(Byte) /\ Len(t) = 2 /\ t[1] * 256 + t[2] = Len(topic)
      /\ Len(topic) \in Nat /\ Len(data) \in Nat
  BY <1>0, SettingBodyType
<1>2. n \in Nat /\ n < 128 * 128
  BY <1>0, <1>1
<1>3. f \in Seq(Byte) /\ Len(f) = HeaderSize(n) /\ HeaderSize(n) \in {2, 3}
  BY <1>2, FirstByte, FixedType
<1> HIDE DEF t
<1>b. Four(b, t, topic, data, rest)
  BY DEF Four
<1> HIDE DEF b
<1>4. b \in Seq(Byte) /\ Len(b) \in Nat /\ Len(b) >= 2 /\ b[1] = t[1] /\ b[2] = t[2]
  BY <1>0, <1>1, <1>b, FirstTwo
<1>5. Len(f) + Len(t) = HeaderSize(n) + 2
  BY <1>1, <1>3
<1>6. /\ SubSeq(p, HeaderSize(n) + 2 + 1, HeaderSize(n) + 2 + Len(topic)) = topic
      /\ SubSeq(p, HeaderSize(n) + 2 + Len(topic) + 1, HeaderSize(n) + 2 + Len(topic) + Len(data))
         = data
      /\ SubSeq(p, HeaderSize(n) + 2 + Len(topic) + Len(data) + 1, Len(p)) = rest
      /\ Len(p) = HeaderSize(n) + 2 + Len(topic) + Len(data) + Len(rest)
  <2> DEFINE k == Len(f) + Len(t)
  <2>1. /\ SubSeq(p, k + 1, k + Len(topic)) = topic
        /\ SubSeq(p, k + Len(topic) + 1, k + Len(topic) + Len(data)) = data
        /\ SubSeq(p, k + Len(topic) + Len(data) + 1, Len(p)) = rest
        /\ Len(p) = k + Len(topic) + Len(data) + Len(rest)
    <3>1. f \in Seq(Byte) /\ t \in Seq(Byte)
      BY <1>1, <1>3
    <3>2. Five(p, f, t, topic, data, rest)
      BY <1>0 DEF Headed, Five, b
    <3> HIDE DEF f
    <3> QED BY <1>0, <3>1, <3>2, FiveParts
  <2>3. k = HeaderSize(n) + 2
    BY <1>5
  <2> HIDE DEF k
  <2> QED BY <2>1, <2>3
<1> HIDE DEF f
<1>7. Headed(p, 49, n, b)
  BY <1>0
<1>8. /\ p \in Seq(Byte) /\ p[1] = 49
      /\ HeaderEnd(p) = HeaderSize(n)
      /\ mqtt_get_total_length(p) = HeaderSize(n) + n
  BY <1>2, <1>4, <1>7, FirstByte, BehindFixed
<1>9. Number(p, HeaderSize(n)) = Len(topic)
  <2>1. \A i \in 1 .. Len(b) : p[HeaderSize(n) + i] = b[i]
    BY <1>2, <1>4, <1>7, FirstByte, BehindFixed
  <2>2. 1 \in 1 .. Len(b) /\ 2 \in 1 .. Len(b)
    BY <1>4
  <2>3. p[HeaderSize(n) + 1] = t[1] /\ p[HeaderSize(n) + 2] = t[2]
    BY <1>4, <2>1, <2>2
  <2> QED BY <1>1, <2>3 DEF Number
<1>10. /\ HeaderSize(n) + 2 + Len(topic) + Len(data) = HeaderSize(n) + n
       /\ HeaderSize(n) + 2 + Len(topic) + Len(data) + Len(rest) = HeaderSize(n) + n + Len(rest)
  <2>1. HeaderSize(n) \in Nat
    BY <1>3
  <2>2. Len(topic) \in Nat /\ Len(data) \in Nat /\ Len(rest) \in Nat
    BY <1>0, <1>1, LenProperties
  <2>3. n = 2 + Len(topic) + Len(data)
    BY <1>0
  <2> QED BY <2>1, <2>2, <2>3
<1> QED BY <1>3, <1>6, <1>8, <1>9, <1>10, Zenon DEF SettingFirst

LEMMA Ends ==
    ASSUME NEW h \in Nat, NEW t \in Nat, NEW d \in Nat, NEW r \in Nat, NEW n, n = 2 + t + d
    PROVE  h + n = (h + 2 + t) + d /\ h + n + r = ((h + 2 + t) + d) + r
OBVIOUS

\* A turn of the loop takes the first setting out of a segment.
LEMMA SettingRead ==
    ASSUME NEW m \in Messages, NEW rest \in Seq(Byte)
    PROVE  LET p == SettingPacket(m) \o rest
           IN  /\ p \in Seq(Byte) /\ p # <<>> /\ mqtt_get_type(p) = PUBLISH
               /\ deliver_publish(p) = Given(m)
               /\ Rest(p) = rest
<1> DEFINE topic == m.topic
           data == m.data
           n == 2 + Len(topic) + Len(data)
           p == SettingPacket(m) \o rest
<1>1. /\ topic \in Seq(Byte) /\ data \in Seq(Byte) /\ topic # <<>>
      /\ 2 + Len(topic) + Len(data) < 128 * 128
  BY MessageParts
<1>2. /\ SettingPacket(m) = Fixed(49, Len(Payload(m))) \o Payload(m)
      /\ Payload(m) = SettingBody(topic, data)
  BY SettingHeaded DEF Payload
<1> HIDE DEF topic, data
<1>3. /\ SettingBody(topic, data) \in Seq(Byte) /\ Len(SettingBody(topic, data)) = n
      /\ Len(topic) \in Nat /\ Len(data) \in Nat
  BY <1>1, SettingBodyType
<1>4. n \in Nat /\ n < 128 * 128 /\ Len(topic) # 0 /\ Len(rest) \in Nat
  <2>1. Len(topic) # 0
    BY <1>1, EmptySeq
  <2> QED BY <1>1, <1>3, <2>1
<1>5. Headed(p, 49, n, SettingBody(topic, data) \o rest)
  <2>1. Fixed(49, n) \in Seq(Byte)
    BY <1>4, FirstByte, FixedType
  <2>2. (Fixed(49, n) \o SettingBody(topic, data)) \o rest
        = Fixed(49, n) \o (SettingBody(topic, data) \o rest)
    <3> HIDE DEF n, p
    <3>1. SettingBody(topic, data) \in Seq(Byte)
      BY <1>3
    <3> QED BY <2>1, <3>1, ConcatAssociative
  <2>3. p = (Fixed(49, n) \o SettingBody(topic, data)) \o rest
    BY <1>2, <1>3
  <2> QED BY <2>2, <2>3 DEF Headed
<1> HIDE DEF n, p
<1>6. n = 2 + Len(topic) + Len(data)
  BY DEF n
<1>7. SettingFirst(p, topic, data, rest, n)
  BY <1>1, <1>5, <1>6, SettingLayout
<1>8. /\ TopicEnd(p) = HeaderSize(n) + 2 + Len(topic) /\ ~Cut(p)
      /\ TopicEnd(p) \in Nat /\ HeaderEnd(p) \in Nat
      /\ TopicEnd(p) - (HeaderEnd(p) + 2) = Len(topic)
      /\ mqtt_get_total_length(p) = TopicEnd(p) + Len(data)
      /\ Len(p) = (TopicEnd(p) + Len(data)) + Len(rest)
  <2>1. /\ HeaderSize(n) \in Nat
        /\ Len(p) = HeaderSize(n) + n + Len(rest)
        /\ HeaderEnd(p) = HeaderSize(n)
        /\ mqtt_get_total_length(p) = HeaderSize(n) + n
        /\ Number(p, HeaderSize(n)) = Len(topic)
    BY <1>7 DEF SettingFirst
  <2>2. TopicEnd(p) = HeaderSize(n) + 2 + Len(topic)
    BY <2>1 DEF TopicEnd
  <2>3. HeaderEnd(p) + 2 < Len(p)
    BY <1>3, <1>4, <1>6, <2>1
  <2>4. ~Cut(p)
    BY <1>3, <1>4, <2>1, <2>3 DEF Cut
  <2>5. /\ mqtt_get_total_length(p) = TopicEnd(p) + Len(data)
        /\ Len(p) = (TopicEnd(p) + Len(data)) + Len(rest)
    <3>1. /\ HeaderSize(n) + n = (HeaderSize(n) + 2 + Len(topic)) + Len(data)
          /\ HeaderSize(n) + n + Len(rest)
             = ((HeaderSize(n) + 2 + Len(topic)) + Len(data)) + Len(rest)
      <4>1. HeaderSize(n) \in Nat /\ Len(topic) \in Nat /\ Len(data) \in Nat /\ Len(rest) \in Nat
        BY <1>3, <1>4, <2>1
      <4> QED BY <1>6, <4>1, Ends
    <3> QED BY <2>1, <2>2, <3>1, Zenon
  <2>6. TopicEnd(p) \in Nat /\ HeaderEnd(p) \in Nat /\ TopicEnd(p) - (HeaderEnd(p) + 2) = Len(topic)
    BY <1>3, <2>1, <2>2
  <2> QED BY <2>2, <2>4, <2>5, <2>6
<1>9. mqtt_get_qos(p) = 0 /\ mqtt_get_type(p) = PUBLISH
  BY <1>7, FirstByte DEF SettingFirst, mqtt_get_qos, mqtt_get_type
<1>10. DataStart(p) = TopicEnd(p)
  BY <1>8, <1>9 DEF DataStart
<1>11. mqtt_get_publish_topic(p) = Whole(topic)
  <2>1. ~(TopicEnd(p) > Len(p))
    BY <1>3, <1>4, <1>8
  <2>2. TopicEnd(p) - (HeaderEnd(p) + 2) = Len(topic)
    BY <1>8
  <2>3. mqtt_get_publish_topic(p) = Part(p, HeaderEnd(p) + 2, TopicEnd(p))
    BY <1>8, <2>1 DEF mqtt_get_publish_topic
  <2>4. SubSeq(p, (HeaderEnd(p) + 2) + 1, TopicEnd(p)) = topic
    BY <1>7, <1>8 DEF SettingFirst
  <2> QED BY <2>2, <2>3, <2>4 DEF Part, Whole
<1>12. mqtt_get_publish_data(p) = Whole(data)
  <2>1. CASE TopicEnd(p) >= Len(p)
    <3>1. Len(data) = 0
      BY <1>3, <1>4, <1>8, <2>1
    <3>2. data = <<>>
      BY <1>1, <3>1, EmptySeq
    <3>3. mqtt_get_publish_data(p) = Nothing(0)
      BY <1>8, <2>1 DEF mqtt_get_publish_data
    <3> QED BY <3>1, <3>2, <3>3 DEF Nothing, Whole
  <2>2. CASE ~(TopicEnd(p) >= Len(p))
    <3> DEFINE total == mqtt_get_total_length(p)
    <3>1. ~(mqtt_get_qos(p) > 0) /\ ~(total < DataStart(p)) /\ total <= Len(p)
          /\ total - DataStart(p) = Len(data)
      BY <1>3, <1>4, <1>8, <1>9, <1>10
    <3>2. mqtt_get_publish_data(p) = Part(p, DataStart(p), total)
      BY <1>8, <2>2, <3>1 DEF mqtt_get_publish_data
    <3>3. SubSeq(p, DataStart(p) + 1, total) = data
      <4>1. DataStart(p) + 1 = HeaderSize(n) + 2 + Len(topic) + 1 /\ total = HeaderSize(n) + n
        BY <1>7, <1>8, <1>10 DEF SettingFirst
      <4> QED BY <1>7, <4>1 DEF SettingFirst
    <3> QED BY <3>1, <3>2, <3>3 DEF Part, Whole
  <2> QED BY <2>1, <2>2
<1>13. Rest(p) = rest
  BY <1>7 DEF SettingFirst, Rest
<1>14. p # <<>>
  <2>1. Len(p) # 0
    BY <1>1, <1>3, <1>4, <1>8, EmptySeq
  <2> QED BY <2>1
<1>15. p \in Seq(Byte)
  BY <1>7 DEF SettingFirst
<1> QED BY <1>9, <1>11, <1>12, <1>13, <1>14, <1>15 DEF deliver_publish, Given, topic, data, p

(***************************************************************************)
(* Segments are taken apart setting by setting.                            *)
(***************************************************************************)

Answers == {<<>>, <<16 * PINGRESP, 0>>}
LeftFrom(n) == SubSeq(sent, n + 1, Len(sent))
GivenOf(n) == [i \in 1 .. n |-> Given(sent[i])]

\* What is left of a segment are the settings not yet delivered, with the
\* answer behind them; a segment too long was dropped or is still to be.
SegmentInv ==
    /\ sent \in Seq(Messages)
    /\ pdata \in Seq(Byte)
    /\ \/ /\ sent = <<>> /\ delivered = <<>>
          /\ pdata = <<>> \/ Len(pdata) >= BUF_SIZE
       \/ /\ Len(pdata) < BUF_SIZE
          /\ \E n \in 0 .. Len(sent), answer \in Answers :
                /\ pdata = Segment(LeftFrom(n)) \o answer
                /\ delivered = GivenOf(n)

LEMMA AnswerType ==
    ASSUME NEW answer \in Answers
    PROVE  /\ answer \in Seq(Byte)
           /\ answer # <<>> => mqtt_get_type(answer) # PUBLISH
<1>1. CASE answer = <<>>
  BY <1>1, EmptySeq
<1>2. CASE answer = <<16 * PINGRESP, 0>>
  <2>1. 16 * PINGRESP = 208 /\ 208 \in Byte /\ 0 \in Byte /\ 208 \div 16 # 3
    BY DEF PINGRESP, Byte
  <2>2. answer = <<208, 0>>
    BY <1>2, <2>1
  <2>3. answer \in Seq(Byte) /\ answer[1] = 208
    BY <2>1, <2>2
  <2>4. mqtt_get_type(answer) # PUBLISH
    BY <2>1, <2>3 DEF mqtt_get_type, PUBLISH
  <2> QED BY <2>3, <2>4
<1> QED BY <1>1, <1>2 DEF Answers

LEMMA SegmentOf ==
    ASSUME NEW messages
    PROVE  FlattenSeq([i \in DOMAIN messages |->
                         Wire(16 * PUBLISH + 1,
                              Word(Len(messages[i].topic)) \o messages[i].topic
                              \o messages[i].data)])
           = Segment(messages)
BY DEF Segment, SettingPacket, Payload, SettingBody

LEMMA ReceiveSegment ==
    ASSUME NEW k \in 1 .. MaxSegment, NEW messages \in [1 .. k -> Messages],
           NEW answer \in Answers, Receive(messages, answer)
    PROVE  SegmentInv'
<1> DEFINE whole == Segment(messages)
<1>1. messages \in Seq(Messages) /\ answer \in Seq(Byte)
  BY AnswerType
<1>2. whole \in Seq(Byte)
  BY <1>1, SegmentType
<1>3. /\ pdata' = whole \o answer /\ delivered' = <<>>
      /\ sent' = IF Len(pdata') < BUF_SIZE THEN messages ELSE <<>>
  BY SegmentOf DEF Receive
<1> HIDE DEF whole
<1>4. pdata' \in Seq(Byte) /\ Len(pdata') \in Nat /\ BUF_SIZE \in Nat
  <2>1. pdata' \in Seq(Byte)
    BY <1>1, <1>2, <1>3, ConcatProperties
  <2> QED BY <2>1, LenProperties, SizeAssumption
<1>5. CASE Len(pdata') < BUF_SIZE
  <2>1. sent' = messages /\ sent' \in Seq(Messages)
    BY <1>1, <1>3, <1>5
  <2>2. LeftFrom(0)' = messages
    <3>1. SubSeq(messages, 1, Len(messages)) = messages
      BY <1>1, SubSeqFull
    <3> QED BY <2>1, <3>1 DEF LeftFrom
  <2>3. delivered' = GivenOf(0)'
    BY <1>3 DEF GivenOf
  <2>4. pdata' = Segment(LeftFrom(0)') \o answer
    BY <1>3, <2>2 DEF whole
  <2>5. 0 \in 0 .. Len(sent')
    BY <2>1, LenProperties
  <2> QED BY <1>4, <1>5, <2>1, <2>3, <2>4, <2>5 DEF SegmentInv
<1>6. CASE ~(Len(pdata') < BUF_SIZE)
  <2>1. sent' = <<>> /\ sent' \in Seq(Messages) /\ Len(pdata') >= BUF_SIZE
    BY <1>3, <1>4, <1>6, EmptySeq
  <2> QED BY <1>3, <1>4, <2>1 DEF SegmentInv
<1> QED BY <1>5, <1>6

\* As long as settings are left the segment begins with the next of them.
LEMMA NextSetting ==
    ASSUME NEW n \in 0 .. Len(sent), NEW answer \in Answers,
           sent \in Seq(Messages), n < Len(sent)
    PROVE  LET rest == Segment(LeftFrom(n + 1)) \o answer
           IN  /\ sent[n + 1] \in Messages
               /\ rest \in Seq(Byte)
               /\ Segment(LeftFrom(n)) \o answer = SettingPacket(sent[n + 1]) \o rest
<1> DEFINE tail == LeftFrom(n + 1)
           m == sent[n + 1]
<1>1. Len(sent) \in Nat /\ n + 1 \in 1 .. Len(sent) /\ Len(sent) \in (n + 1) .. Len(sent)
  BY LenProperties
<1>2. m \in Messages
  BY <1>1, ElementOfSeq
<1>3. LeftFrom(n) = <<m>> \o tail
  BY <1>1, SubSeqRecursiveFirst DEF LeftFrom
<1>4. tail \in Seq(Messages)
  <2>1. (n + 1) + 1 \in Int /\ Len(sent) \in Int
    BY <1>1
  <2>2. \A i \in (n + 1) + 1 .. Len(sent) : sent[i] \in Messages
    BY <1>1, ElementOfSeq
  <2> QED BY <2>1, <2>2, SubSeqProperties DEF LeftFrom
<1> HIDE DEF tail, m
<1>5. Segment(LeftFrom(n)) = SettingPacket(m) \o Segment(tail)
  BY <1>2, <1>3, <1>4, SegmentFirst
<1> DEFINE one == SettingPacket(m)
           more == Segment(tail)
<1>6. one \in Seq(Byte) /\ more \in Seq(Byte) /\ answer \in Seq(Byte)
  BY <1>2, <1>4, SettingHeaded, SegmentType, AnswerType
<1>7. Segment(LeftFrom(n)) = one \o more
  BY <1>5
<1> HIDE DEF one, more
<1>8. (one \o more) \o answer = one \o (more \o answer) /\ more \o answer \in Seq(Byte)
  BY <1>6, ConcatAssociative, ConcatProperties
<1> QED BY <1>2, <1>7, <1>8 DEF one, more, m, tail

LEMMA NothingLeft ==
    ASSUME NEW answer \in Answers, sent \in Seq(Messages)
    PROVE  Segment(LeftFrom(Len(sent))) \o answer = answer
<1>1. LeftFrom(Len(sent)) = <<>>
  <2>1. Len(sent) + 1 \in Int /\ Len(sent) \in Int /\ Len(sent) < Len(sent) + 1
    BY LenProperties
  <2> QED BY <2>1, SubSeqEmpty DEF LeftFrom
<1>2. <<>> \o answer = answer
  BY AnswerType, ConcatEmptySeq
<1> QED BY <1>1, <1>2, SegmentEmpty

LEMMA ReadStep ==
    ASSUME SegmentInv, ReadPacket
    PROVE  SegmentInv'
<1>0. pdata # <<>> /\ sent' = sent /\ sent \in Seq(Messages) /\ pdata \in Seq(Byte)
      /\ BUF_SIZE \in Nat /\ Len(pdata) \in Nat
  BY SizeAssumption, LenProperties DEF ReadPacket, Idle, SegmentInv
<1>1. CASE sent = <<>> /\ delivered = <<>> /\ Len(pdata) >= BUF_SIZE
  <2>1. pdata' = <<>> /\ delivered' = delivered
    BY <1>0, <1>1 DEF ReadPacket
  <2>2. <<>> \in Seq(Byte)
    BY EmptySeq
  <2> QED BY <1>0, <1>1, <2>1, <2>2 DEF SegmentInv
<1>2. ASSUME Len(pdata) < BUF_SIZE, NEW n \in 0 .. Len(sent), NEW answer \in Answers,
             pdata = Segment(LeftFrom(n)) \o answer, delivered = GivenOf(n)
      PROVE  SegmentInv'
  <2>0. Len(sent) \in Nat /\ n \in Nat
    BY <1>0, LenProperties
  <2>1. CASE n < Len(sent)
    <3> DEFINE rest == Segment(LeftFrom(n + 1)) \o answer
               m == sent[n + 1]
               one == SettingPacket(m)
    <3>1. m \in Messages /\ rest \in Seq(Byte) /\ pdata = one \o rest
      BY <1>0, <1>2, <2>1, NextSetting
    <3>2. mqtt_get_type(pdata) = PUBLISH /\ deliver_publish(pdata) = Given(m) /\ Rest(pdata) = rest
      <4> HIDE DEF rest, m
      <4> QED BY <3>1, SettingRead
    <3>3. pdata' = rest /\ delivered' = Append(delivered, Given(m))
      <4> HIDE DEF rest, m
      <4> QED BY <1>0, <1>2, <3>2 DEF ReadPacket
    <3>4. Len(rest) < BUF_SIZE
      <4>1. one \in Seq(Byte)
        <5> HIDE DEF m
        <5> QED BY <3>1, SettingHeaded
      <4> HIDE DEF rest, one
      <4>2. Len(pdata) = Len(one) + Len(rest) /\ Len(one) \in Nat /\ Len(rest) \in Nat
        BY <3>1, <4>1, ConcatProperties, LenProperties
      <4> QED BY <1>0, <1>2, <4>2
    <3>5. Append(GivenOf(n), Given(m)) = GivenOf(n + 1)
      <4> DEFINE S == {Given(sent[i]) : i \in 1 .. Len(sent)}
                 g == GivenOf(n)
                 h == GivenOf(n + 1)
                 x == Given(m)
      <4>1. x \in S /\ \A i \in 1 .. n + 1 : Given(sent[i]) \in S
        BY <2>0, <2>1
      <4>2. /\ g \in Seq(S) /\ Len(g) = n /\ h \in Seq(S) /\ Len(h) = n + 1
            /\ \A i \in 1 .. n : g[i] = Given(sent[i])
            /\ \A i \in 1 .. n + 1 : h[i] = Given(sent[i])
        <5> HIDE DEF S, x
        <5> QED BY <2>0, <4>1 DEF GivenOf
      <4>3. h[n + 1] = x /\ \A i \in 1 .. n : h[i] = g[i]
        <5>1. n + 1 \in 1 .. n + 1 /\ \A i \in 1 .. n : i \in 1 .. n + 1
          BY <2>0
        <5> HIDE DEF g, h, S
        <5>2. h[n + 1] = Given(sent[n + 1])
          BY <4>2, <5>1, Zenon
        <5>3. \A i \in 1 .. n : h[i] = g[i]
          BY <4>2, <5>1, Zenon
        <5> QED BY <5>2, <5>3, Zenon
      <4> HIDE DEF g, h, S, x
      <4>4. /\ Append(g, x) \in Seq(S) /\ Len(Append(g, x)) = n + 1
            /\ \A i \in 1 .. n : Append(g, x)[i] = g[i]
            /\ Append(g, x)[n + 1] = x
        BY <4>1, <4>2, AppendProperties
      <4>5. \A i \in 1 .. n + 1 : Append(g, x)[i] = h[i]
        <5>1. \A i \in 1 .. n + 1 : i \in 1 .. n \/ i = n + 1
          BY <2>0
        <5> QED BY <4>3, <4>4, <5>1
      <4>6. Append(g, x) = h
        BY <4>2, <4>4, <4>5, SeqEqual
      <4> QED BY <4>6 DEF g, h, x
    <3>6. n + 1 \in 0 .. Len(sent)
      BY <2>0, <2>1
    <3>7. pdata' = Segment(LeftFrom(n + 1)') \o answer /\ delivered' = GivenOf(n + 1)'
      <4>1. LeftFrom(n + 1)' = LeftFrom(n + 1) /\ GivenOf(n + 1)' = GivenOf(n + 1)
        BY <1>0 DEF LeftFrom, GivenOf
      <4> QED BY <1>2, <3>3, <3>5, <4>1
    <3>8. pdata' \in Seq(Byte) /\ Len(pdata') < BUF_SIZE
      BY <3>1, <3>3, <3>4
    <3> HIDE DEF rest, m, one
    <3>9. n + 1 \in 0 .. Len(sent') /\ sent' \in Seq(Messages)
      BY <1>0, <3>6
    <3> QED BY <3>7, <3>8, <3>9 DEF SegmentInv
  <2>2. CASE n = Len(sent)
    <3>1. pdata = answer
      BY <1>0, <1>2, <2>2, NothingLeft
    <3>2. pdata' = <<>> /\ delivered' = delivered
      BY <1>0, <3>1, AnswerType DEF ReadPacket
    <3>3. <<>> \in Answers /\ <<>> \in Seq(Byte) /\ Len(<<>>) < BUF_SIZE
      <4>1. Len(<<>>) = 0 /\ 0 < BUF_SIZE
        BY <1>0, <1>2
      <4> QED BY <4>1, EmptySeq DEF Answers
    <3>4. Segment(LeftFrom(n)) \o <<>> = <<>>
      BY <1>0, <2>2, <3>3, NothingLeft
    <3>5. LeftFrom(n)' = LeftFrom(n) /\ GivenOf(n)' = GivenOf(n)
      BY <1>0 DEF LeftFrom, GivenOf
    <3>6. pdata' = Segment(LeftFrom(n)') \o <<>> /\ delivered' = GivenOf(n)'
      BY <1>2, <3>2, <3>4, <3>5
    <3>7. n \in 0 .. Len(sent') /\ sent' \in Seq(Messages) /\ pdata' \in Seq(Byte)
          /\ Len(pdata') < BUF_SIZE
      BY <1>0, <3>2, <3>3
    <3> QED BY <3>3, <3>6, <3>7 DEF SegmentInv
  <2> QED BY <2>0, <2>1, <2>2
<1> QED BY <1>0, <1>1, <1>2 DEF SegmentInv

LEMMA SegmentStep == SegmentInv /\ [Next]_vars => SegmentInv'
<1> SUFFICES ASSUME SegmentInv, [Next]_vars PROVE SegmentInv'
  OBVIOUS
<1>1. CASE UNCHANGED reading
  BY <1>1 DEF SegmentInv, reading, LeftFrom, GivenOf
<1>2. ASSUME Build PROVE UNCHANGED reading
  <2>1. ASSUME NEW topic, NEW data, NEW qos, NEW retain, Publish(topic, data, qos, retain)
        PROVE  UNCHANGED reading
    BY <2>1 DEF Publish
  <2>2. ASSUME NEW topic, Subscribe(topic) PROVE UNCHANGED reading
    BY <2>2 DEF Subscribe
  <2>3. ASSUME NEW info, Connect(info) PROVE UNCHANGED reading
    BY <2>3 DEF Connect
  <2>4. ASSUME Ping PROVE UNCHANGED reading
    BY <2>4 DEF Ping
  <2> QED BY <1>2, <2>1, <2>2, <2>3, <2>4 DEF Build
<1>3. ASSUME NEW k \in 1 .. MaxSegment, NEW messages \in [1 .. k -> Messages],
             NEW answer \in Answers, Receive(messages, answer)
      PROVE  SegmentInv'
  BY <1>3, ReceiveSegment
<1>4. CASE ReadPacket
  BY <1>4, ReadStep
<1>5. CASE UNCHANGED vars
  BY <1>1, <1>5 DEF vars
<1> QED BY <1>1, <1>2, <1>3, <1>4, <1>5 DEF Next, Answers

LEMMA SegmentInit == Init => SegmentInv
<1> SUFFICES ASSUME Init PROVE SegmentInv
  OBVIOUS
<1>1. <<>> \in Seq(Messages) /\ <<>> \in Seq(Byte)
  BY EmptySeq
<1> QED BY <1>1 DEF Init, SegmentInv

\* The settings of a segment that fits the buffer reach dataCb once each, in
\* order and whole, however many packets the segment holds and however long
\* they are (mqtt.c:119-244).
THEOREM SettingsReadWhole == Spec => []SettingsTakenApart
<1>1. SegmentInv => SettingsTakenApart
  <2> SUFFICES ASSUME SegmentInv, Idle PROVE
        delivered = [i \in DOMAIN sent |-> Given(sent[i])]
    BY DEF SettingsTakenApart, Given, Whole
  <2>0. sent \in Seq(Messages) /\ Len(sent) \in Nat /\ DOMAIN sent = 1 .. Len(sent)
    BY LenProperties DEF SegmentInv
  <2>1. CASE sent = <<>> /\ delivered = <<>>
    BY <2>1
  <2>2. ASSUME NEW n \in 0 .. Len(sent), NEW answer \in Answers,
               pdata = Segment(LeftFrom(n)) \o answer, delivered = GivenOf(n)
        PROVE  delivered = [i \in DOMAIN sent |-> Given(sent[i])]
    <3>1. ~(n < Len(sent))
      <4> SUFFICES ASSUME n < Len(sent) PROVE FALSE
        OBVIOUS
      <4> DEFINE rest == Segment(LeftFrom(n + 1)) \o answer
                 m == sent[n + 1]
      <4>1. m \in Messages /\ rest \in Seq(Byte) /\ pdata = SettingPacket(m) \o rest
        BY <2>0, <2>2, NextSetting
      <4> HIDE DEF rest, m
      <4>2. pdata # <<>>
        BY <4>1, SettingRead
      <4> QED BY <4>2 DEF Idle
    <3>2. n = Len(sent)
      <4>1. n \in 0 .. Len(sent) /\ Len(sent) \in Nat
        BY <2>0
      <4> QED BY <3>1, <4>1
    <3> QED BY <2>0, <2>2, <3>2 DEF GivenOf
  <2> QED BY <2>1, <2>2 DEF SegmentInv
<1> QED BY <1>1, SegmentInit, SegmentStep, PTL DEF Spec

(***************************************************************************)
(* What is written into the buffer is bytes, as far as it fits.            *)
(***************************************************************************)

LEMMA Joined ==
    ASSUME NEW S, NEW a, NEW b
    PROVE  a \in Seq(S) /\ b \in Seq(S) =>
              /\ a \o b \in Seq(S) /\ Len(a \o b) = Len(a) + Len(b)
              /\ Len(a) \in Nat /\ Len(b) \in Nat
BY ConcatProperties, LenProperties

\* Bytes, as far as they may get into a buffer.
Writable(b) == b \in Seq(Nat) /\ (Len(b) < 128 * 128 => b \in Seq(Byte))

LEMMA WritableJoin ==
    ASSUME NEW a, NEW b
    PROVE  Writable(a) /\ Writable(b) => Writable(a \o b)
<1>0. SUFFICES ASSUME Writable(a), Writable(b) PROVE Writable(a \o b)
  OBVIOUS
<1> DEFINE N == Nat
<1>1. a \in Seq(N) /\ b \in Seq(N)
  BY <1>0 DEF Writable
<1> HIDE DEF N
<1>2. a \o b \in Seq(N) /\ Len(a \o b) = Len(a) + Len(b) /\ Len(a) \in Nat /\ Len(b) \in Nat
  BY <1>1, Joined
<1>3. ASSUME Len(a \o b) < 128 * 128 PROVE a \o b \in Seq(Byte)
  <2>1. Len(a) < 128 * 128 /\ Len(b) < 128 * 128
    BY <1>2, <1>3
  <2>2. a \in Seq(Byte) /\ b \in Seq(Byte)
    BY <1>0, <2>1 DEF Writable
  <2> QED BY <2>2, Joined
<1>4. a \o b \in Seq(Nat)
  BY <1>2 DEF N
<1> DEFINE c == a \o b
<1> HIDE DEF c
<1>5. c \in Seq(Nat) /\ (Len(c) < 128 * 128 => c \in Seq(Byte))
  BY <1>3, <1>4 DEF c
<1> QED BY <1>5 DEF Writable, c

LEMMA WritableBytes == ASSUME NEW s PROVE s \in Seq(Byte) => Writable(s)
<1>0. SUFFICES ASSUME s \in Seq(Byte) PROVE Writable(s)
  OBVIOUS
<1>1. \A i \in 1 .. Len(s) : s[i] \in Nat
  BY <1>0, ElementOfSeq, ByteNat
<1>2. s \in Seq(Nat)
  BY <1>0, <1>1
<1> QED BY <1>0, <1>2 DEF Writable

\* A string as append_string writes it.
LEMMA StringType ==
    ASSUME NEW s
    PROVE  s \in Seq(Byte) =>
              /\ append_string(s) \in Seq(Nat) /\ Len(append_string(s)) = 2 + Len(s)
              /\ Len(s) \in Nat
              /\ Len(s) < 128 * 128 => append_string(s) \in Seq(Byte)
<1>0. SUFFICES ASSUME s \in Seq(Byte)
      PROVE  /\ append_string(s) \in Seq(Nat) /\ Len(append_string(s)) = 2 + Len(s)
             /\ Len(s) \in Nat
             /\ Len(s) < 128 * 128 => append_string(s) \in Seq(Byte)
  OBVIOUS
<1>1. Len(s) \in Nat /\ s \in Seq(Nat)
  <2>1. \A i \in 1 .. Len(s) : s[i] \in Nat
    BY <1>0, ElementOfSeq, ByteNat
  <2>2. s \in Seq(Byte) /\ Len(s) \in Nat
    BY <1>0, LenProperties
  <2> QED BY <2>1, <2>2
<1> DEFINE t == Word(Len(s))
<1>2. t \in Seq(Nat) /\ Len(t) = 2
  <2>1. Len(s) \div 256 \in Nat /\ Len(s) % 256 \in Nat
    BY <1>1
  <2> QED BY <2>1 DEF Word
<1>3. Len(s) < 128 * 128 => t \in Seq(Byte)
  BY <1>1, ShortWord, WordType
<1>4. append_string(s) = t \o s
  BY DEF append_string
<1> HIDE DEF t
<1>5. t \o s \in Seq(Nat) /\ Len(t \o s) = 2 + Len(s)
  <2>1. s \in Seq(Nat) /\ t \in Seq(Nat) /\ Len(t) = 2
    BY <1>1, <1>2
  <2>2. t \o s \in Seq(Nat) /\ Len(t \o s) = Len(t) + Len(s)
    <3> DEFINE N == Nat
    <3>1. s \in Seq(N) /\ t \in Seq(N)
      BY <2>1
    <3> HIDE DEF N
    <3>2. t \o s \in Seq(N) /\ Len(t \o s) = Len(t) + Len(s)
      BY <3>1, Joined
    <3> QED BY <3>2 DEF N
  <2> QED BY <2>1, <2>2
<1>6. t \in Seq(Byte) => t \o s \in Seq(Byte)
  BY <1>0, ConcatProperties
<1> QED BY <1>1, <1>3, <1>4, <1>5, <1>6

LEMMA Tuples ==
    ASSUME NEW x, NEW y, NEW z
    PROVE  <<x>> \o <<y>> = <<x, y>> /\ <<x>> \o <<y, z>> = <<x, y, z>>
<1> DEFINE S == {x, y, z}
           a == <<x>>
           b == <<y>>
           c == <<y, z>>
           ab == <<x, y>>
           ac == <<x, y, z>>
<1>1. /\ a \in Seq(S) /\ Len(a) = 1 /\ a[1] = x
      /\ b \in Seq(S) /\ Len(b) = 1 /\ b[1] = y
      /\ c \in Seq(S) /\ Len(c) = 2 /\ c[1] = y /\ c[2] = z
      /\ ab \in Seq(S) /\ Len(ab) = 2 /\ ab[1] = x /\ ab[2] = y
      /\ ac \in Seq(S) /\ Len(ac) = 3 /\ ac[1] = x /\ ac[2] = y /\ ac[3] = z
  OBVIOUS
<1> HIDE DEF S, a, b, c, ab, ac
<1>2. /\ a \o b \in Seq(S) /\ Len(a \o b) = 2 /\ (a \o b)[1] = x /\ (a \o b)[2] = y
  <2>1. a \in Seq(S) /\ b \in Seq(S)
    BY <1>1
  <2>2. /\ a \o b \in Seq(S) /\ Len(a \o b) = Len(a) + Len(b)
        /\ \A i \in 1 .. Len(a) + Len(b) : (a \o b)[i] = IF i <= Len(a) THEN a[i] ELSE b[i - Len(a)]
    BY <2>1, ConcatProperties
  <2> DEFINE d == a \o b
  <2> HIDE DEF d
  <2>3. d \in Seq(S) /\ Len(d) = 2 /\ \A i \in 1 .. 2 : d[i] = IF i <= 1 THEN a[i] ELSE b[i - 1]
    BY <1>1, <2>2 DEF d
  <2>4. d[1] = x /\ d[2] = y
    BY <1>1, <2>3
  <2> QED BY <2>3, <2>4 DEF d
<1>3. /\ a \o c \in Seq(S) /\ Len(a \o c) = 3
      /\ (a \o c)[1] = x /\ (a \o c)[2] = y /\ (a \o c)[3] = z
  <2>1. a \in Seq(S) /\ c \in Seq(S)
    BY <1>1
  <2>2. /\ a \o c \in Seq(S) /\ Len(a \o c) = Len(a) + Len(c)
        /\ \A i \in 1 .. Len(a) + Len(c) : (a \o c)[i] = IF i <= Len(a) THEN a[i] ELSE c[i - Len(a)]
    BY <2>1, ConcatProperties
  <2> DEFINE d == a \o c
  <2> HIDE DEF d
  <2>3. d \in Seq(S) /\ Len(d) = 3 /\ \A i \in 1 .. 3 : d[i] = IF i <= 1 THEN a[i] ELSE c[i - 1]
    BY <1>1, <2>2 DEF d
  <2>4. d[1] = x /\ d[2] = y /\ d[3] = z
    BY <1>1, <2>3
  <2> QED BY <2>3, <2>4 DEF d
<1>4. a \o b = ab
  BY <1>1, <1>2, SeqEqual
<1>5. a \o c = ac
  BY <1>1, <1>3, SeqEqual
<1> QED BY <1>4, <1>5 DEF a, b, c, ab, ac

\* A packet that was built is its fixed header and its body, bytes both.
LEMMA PacketHeaded ==
    ASSUME NEW type, NEW qos, NEW retain, NEW body, type * 16 + qos * 2 + retain \in Byte,
           Writable(body)
    PROVE  LET p == fini_message(type, qos, retain, body)
           IN  /\ p \in Seq(Byte) /\ Len(p) <= BUF_SIZE
               /\ p # <<>> => /\ body \in Seq(Byte)
                              /\ Len(body) < 128 * 128 /\ Len(body) \in Nat
                              /\ Headed(p, type * 16 + qos * 2 + retain, Len(body), body)
<1> DEFINE n == Len(body)
           first == type * 16 + qos * 2 + retain
           p == fini_message(type, qos, retain, body)
<1>1. n \in Nat /\ BUF_SIZE \in Nat /\ BUF_SIZE < 128 * 128 /\ first \in Byte
  BY LenProperties, SizeAssumption DEF Writable
<1>2. CASE Fits(body)
  <2>1. MQTT_MAX_FIXED_HEADER_SIZE = 3
    BY DEF MQTT_MAX_FIXED_HEADER_SIZE
  <2>2. 3 + n <= BUF_SIZE
    BY <1>2, <2>1 DEF Fits
  <2>3. n < 128 * 128 /\ body \in Seq(Byte)
    BY <1>1, <2>2 DEF Writable
  <2>4. Header(type, qos, retain, n) = Fixed(first, n)
    <3> HIDE DEF n, first
    <3>1. n > 127 <=> ~(n < 128)
      BY <1>1
    <3> DEFINE lo == 128 + (n % 128)
               hi == n \div 128
    <3>2. Header(type, qos, retain, n)
          = IF n > 127 THEN <<first, lo, hi>> ELSE <<first, n>>
      BY DEF Header, first
    <3>3. Fixed(first, n) = IF n < 128 THEN <<first>> \o <<n>>
                            ELSE <<first>> \o <<lo, hi>>
      BY DEF Fixed, LengthBytes
    <3>5. <<first>> \o <<n>> = <<first, n>> /\ <<first>> \o <<lo, hi>> = <<first, lo, hi>>
      BY Tuples, ZenonT(60)
    <3> HIDE DEF lo, hi
    <3>6. CASE n < 128
      BY <3>1, <3>2, <3>3, <3>5, <3>6, Zenon
    <3>7. CASE ~(n < 128)
      BY <3>1, <3>2, <3>3, <3>5, <3>7, Zenon
    <3> QED BY <3>6, <3>7
  <2>5. p = Fixed(first, n) \o body
    BY <1>2, <2>4 DEF fini_message
  <2> HIDE DEF p, n, first
  <2>6. Headed(p, first, n, body)
    BY <2>5 DEF Headed
  <2>7. p \in Seq(Byte) /\ Len(p) = HeaderSize(n) + n
    BY <1>1, <2>3, <2>6, BehindFixed DEF n
  <2>8. Len(p) <= BUF_SIZE
    BY <1>1, <2>2, <2>7 DEF HeaderSize
  <2> QED BY <1>1, <2>3, <2>6, <2>7, <2>8 DEF p, n, first
<1>3. CASE ~Fits(body)
  <2>1. p = <<>>
    BY <1>3 DEF fini_message
  <2> HIDE DEF p
  <2>2. p \in Seq(Byte) /\ Len(p) <= BUF_SIZE
    BY <1>1, <2>1, EmptySeq
  <2> QED BY <2>1, <2>2 DEF p
<1> QED BY <1>2, <1>3

LEMMA WritableString ==
    ASSUME NEW s
    PROVE  s \in Seq(Byte) => Writable(append_string(s))
<1>0. SUFFICES ASSUME s \in Seq(Byte) PROVE Writable(append_string(s))
  OBVIOUS
<1> DEFINE b == append_string(s)
<1>1. b \in Seq(Nat) /\ Len(b) = 2 + Len(s) /\ Len(s) \in Nat
      /\ (Len(s) < 128 * 128 => b \in Seq(Byte))
  BY <1>0, StringType
<1> HIDE DEF b
<1>2. Writable(b)
  BY <1>1 DEF Writable
<1> QED BY <1>2 DEF b

LEMMA WritableWord ==
    ASSUME NEW n \in 0 .. UINT16_MAX
    PROVE  Writable(Word(n))
<1>1. n \in Nat /\ n <= UINT16_MAX
  BY Max16
<1>2. Word(n) \in Seq(Byte)
  BY <1>1, WordType
<1> QED BY <1>2, WritableBytes

LEMMA PublishWritable ==
    ASSUME NEW topic \in Topics, NEW data \in Datas, NEW qos, NEW id \in 0 .. UINT16_MAX
    PROVE  Writable(append_string(topic) \o (IF qos > 0 THEN Word(id) ELSE <<>>) \o data)
<1> DEFINE w == IF qos > 0 THEN Word(id) ELSE <<>>
<1>1. topic \in Seq(Byte) /\ data \in Seq(Byte) /\ <<>> \in Seq(Byte)
  BY TextAssumption, EmptySeq
<1>2. Writable(append_string(topic)) /\ Writable(data) /\ Writable(<<>>)
  BY <1>1, WritableString, WritableBytes
<1>3. Writable(w)
  BY <1>2, WritableWord
<1> HIDE DEF w
<1>4. Writable(append_string(topic) \o w)
  BY <1>2, <1>3, WritableJoin
<1>5. Writable((append_string(topic) \o w) \o data)
  BY <1>2, <1>4, WritableJoin
<1> QED BY <1>5 DEF w

LEMMA SubscribeWritable ==
    ASSUME NEW topic \in Topics, NEW id \in 0 .. UINT16_MAX
    PROVE  Writable(Word(id) \o append_string(topic) \o <<0>>)
<1>1. topic \in Seq(Byte) /\ <<0>> \in Seq(Byte)
  <2>1. 0 \in Byte
    BY DEF Byte
  <2> QED BY <2>1, TextAssumption
<1>2. Writable(append_string(topic)) /\ Writable(<<0>>) /\ Writable(Word(id))
  BY <1>1, WritableString, WritableBytes, WritableWord
<1>3. Writable(Word(id) \o append_string(topic))
  BY <1>2, WritableJoin
<1> QED BY <1>2, <1>3, WritableJoin

\* The parts of a CONNECT.
ConnectFlags(info) ==
    Flag(2, info.clean_session)
    + Flag(4 + 8 * info.will_qos + Flag(32, info.will_retain), info.will_topic # <<>>)
    + Flag(128, info.username # <<>>)
    + Flag(64, info.password # <<>>)
Protocol == append_string(<<77, 81, 73, 115, 100, 112>>)
Optional(present, string) == IF present THEN append_string(string) ELSE <<>>
ConnectBody(info) ==
    Protocol
    \o <<3, ConnectFlags(info)>> \o Word(info.keepalive)
    \o append_string(info.client_id)
    \o Optional(info.will_topic # <<>>, info.will_topic)
    \o Optional(info.will_topic # <<>>, info.will_message)
    \o Optional(info.username # <<>>, info.username)
    \o Optional(info.password # <<>>, info.password)

LEMMA ConnectParts ==
    ASSUME NEW info
    PROVE  mqtt_msg_connect(info) =
             IF info.client_id = <<>> THEN <<>> ELSE fini_message(CONNECT, 0, 0, ConnectBody(info))
BY DEF mqtt_msg_connect, ConnectBody, ConnectFlags, Protocol, Optional

LEMMA FlagsByte ==
    ASSUME NEW info \in Infos
    PROVE  ConnectFlags(info) \in Byte
<1>1. /\ info.clean_session \in BOOLEAN /\ info.will_retain \in BOOLEAN
      /\ info.will_qos \in 0 .. 3
  BY TextAssumption DEF ConnectInfo
<1> DEFINE c == Flag(2, info.clean_session)
           r == Flag(32, info.will_retain)
           w == Flag(4 + 8 * info.will_qos + r, info.will_topic # <<>>)
           u == Flag(128, info.username # <<>>)
           p == Flag(64, info.password # <<>>)
<1>2. c \in {0, 2} /\ r \in {0, 32} /\ u \in {0, 128} /\ p \in {0, 64}
  BY DEF Flag
<1>3. w \in {0, 4 + 8 * info.will_qos + r}
  BY DEF Flag
<1>4. ConnectFlags(info) = ((c + w) + u) + p
  BY DEF ConnectFlags
<1> HIDE DEF c, r, w, u, p
<1> QED BY <1>1, <1>2, <1>3, <1>4 DEF Byte

LEMMA InfoTexts ==
    ASSUME NEW info \in Infos
    PROVE  /\ info.client_id \in Seq(Byte)
           /\ info.will_topic \in Seq(Byte) /\ info.will_message \in Seq(Byte)
           /\ info.username \in Seq(Byte) /\ info.password \in Seq(Byte)
           /\ info.keepalive \in 0 .. UINT16_MAX
<1>1. info \in ConnectInfo
  BY TextAssumption
<1> QED BY <1>1, Zenon DEF ConnectInfo

LEMMA ConnectWritable ==
    ASSUME NEW info \in Infos
    PROVE  Writable(ConnectBody(info))
<1>1. Writable(Protocol)
  <2>1. /\ 77 \in Byte /\ 81 \in Byte /\ 73 \in Byte /\ 115 \in Byte
        /\ 100 \in Byte /\ 112 \in Byte
    BY DEF Byte
  <2>2. <<77, 81, 73, 115, 100, 112>> \in Seq(Byte)
    BY <2>1
  <2> QED BY <2>2, WritableString DEF Protocol
<1>2. Writable(<<3, ConnectFlags(info)>>)
  <2>1. 3 \in Byte /\ ConnectFlags(info) \in Byte
    BY FlagsByte DEF Byte
  <2>2. <<3, ConnectFlags(info)>> \in Seq(Byte)
    BY <2>1
  <2> QED BY <2>2, WritableBytes
<1>3. Writable(Word(info.keepalive))
  BY InfoTexts, WritableWord
<1>4. Writable(<<>>)
  BY WritableBytes, EmptySeq
<1>5. \A present, s : s \in Seq(Byte) => Writable(Optional(present, s))
  BY <1>4, WritableString DEF Optional
<1>6. /\ Writable(append_string(info.client_id))
      /\ Writable(Optional(info.will_topic # <<>>, info.will_topic))
      /\ Writable(Optional(info.will_topic # <<>>, info.will_message))
      /\ Writable(Optional(info.username # <<>>, info.username))
      /\ Writable(Optional(info.password # <<>>, info.password))
  BY <1>5, InfoTexts, WritableString
<1> DEFINE a1 == Protocol \o <<3, ConnectFlags(info)>>
           a2 == a1 \o Word(info.keepalive)
           a3 == a2 \o append_string(info.client_id)
           a4 == a3 \o Optional(info.will_topic # <<>>, info.will_topic)
           a5 == a4 \o Optional(info.will_topic # <<>>, info.will_message)
           a6 == a5 \o Optional(info.username # <<>>, info.username)
           a7 == a6 \o Optional(info.password # <<>>, info.password)
<1>7. Writable(a1)
  BY <1>1, <1>2, WritableJoin
<1> HIDE DEF a1
<1>8. Writable(a2)
  BY <1>3, <1>7, WritableJoin
<1> HIDE DEF a2
<1>9. Writable(a3)
  BY <1>6, <1>8, WritableJoin
<1> HIDE DEF a3
<1>10. Writable(a4)
  BY <1>6, <1>9, WritableJoin
<1> HIDE DEF a4
<1>11. Writable(a5)
  BY <1>6, <1>10, WritableJoin
<1> HIDE DEF a5
<1>12. Writable(a6)
  BY <1>6, <1>11, WritableJoin
<1> HIDE DEF a6
<1>13. Writable(a7)
  BY <1>6, <1>12, WritableJoin
<1> QED BY <1>13 DEF ConnectBody, a1, a2, a3, a4, a5, a6, a7

(***************************************************************************)
(* Types.                                                                  *)
(***************************************************************************)

PacketType == packet \in Seq(Byte) /\ Len(packet) <= BUF_SIZE
IdType == message_id \in 0 .. UINT16_MAX

LEMMA FirstBytes ==
    /\ CONNECT * 16 + 0 * 2 + 0 = 16 /\ 16 \in Byte
    /\ SUBSCRIBE * 16 + 1 * 2 + 0 = 130 /\ 130 \in Byte
    /\ PINGREQ * 16 + 0 * 2 + 0 = 192 /\ 192 \in Byte
    /\ \A qos \in {0, 1}, retain \in {0, 1} :
          PUBLISH * 16 + qos * 2 + retain = 48 + 2 * qos + retain
          /\ 48 + 2 * qos + retain \in Byte
BY DEF CONNECT, SUBSCRIBE, PINGREQ, PUBLISH, Byte

LEMMA PublishType ==
    ASSUME IdType, NEW topic \in Topics, NEW data \in Datas,
           NEW qos \in {0, 1}, NEW retain \in {0, 1}, Publish(topic, data, qos, retain)
    PROVE  PacketType' /\ IdType'
<1>1. IdType'
  <2>1. append_message_id \/ UNCHANGED <<message_id, ids>>
    BY DEF Publish
  <2> QED BY <2>1, NextIdGoesRound, Max16 DEF IdType, append_message_id, Ids
<1> DEFINE id == IF qos > 0 THEN message_id' ELSE 0
           body == append_string(topic) \o (IF qos > 0 THEN Word(id) ELSE <<>>) \o data
<1>2. id \in 0 .. UINT16_MAX
  BY <1>1, Max16 DEF IdType
<1>3. packet' = fini_message(PUBLISH, qos, retain, body)
  BY DEF Publish, mqtt_msg_publish
<1> HIDE DEF id
<1>4. Writable(body)
  BY <1>2, PublishWritable
<1> HIDE DEF body
<1>5. PUBLISH * 16 + qos * 2 + retain \in Byte
  BY FirstBytes
<1> QED BY <1>1, <1>3, <1>4, <1>5, PacketHeaded DEF PacketType

LEMMA SubscribeType ==
    ASSUME IdType, NEW topic \in Topics, Subscribe(topic)
    PROVE  PacketType' /\ IdType'
<1>1. IdType'
  BY NextIdGoesRound, Max16 DEF IdType, append_message_id, Ids, Subscribe
<1> DEFINE body == Word(message_id') \o append_string(topic) \o <<0>>
<1>2. packet' = fini_message(SUBSCRIBE, 1, 0, body)
  BY DEF Subscribe, mqtt_msg_subscribe
<1>3. Writable(body)
  BY <1>1, SubscribeWritable DEF IdType
<1> HIDE DEF body
<1>4. SUBSCRIBE * 16 + 1 * 2 + 0 \in Byte
  BY FirstBytes
<1> QED BY <1>1, <1>2, <1>3, <1>4, PacketHeaded DEF PacketType

LEMMA ConnectType ==
    ASSUME IdType, NEW info \in Infos, Connect(info)
    PROVE  PacketType' /\ IdType'
<1>1. IdType'
  BY DEF Connect, IdType
<1> DEFINE body == ConnectBody(info)
<1>2. packet' = IF info.client_id = <<>> THEN <<>> ELSE fini_message(CONNECT, 0, 0, body)
  BY ConnectParts DEF Connect
<1>3. Writable(body)
  BY ConnectWritable
<1> HIDE DEF body
<1>4. CONNECT * 16 + 0 * 2 + 0 \in Byte
  BY FirstBytes
<1>5. CASE info.client_id = <<>>
  <2>1. packet' \in Seq(Byte) /\ Len(packet') = 0
    BY <1>2, <1>5, EmptySeq
  <2> QED BY <1>1, <2>1, SizeAssumption DEF PacketType
<1>6. CASE info.client_id # <<>>
  BY <1>1, <1>2, <1>3, <1>4, <1>6, PacketHeaded DEF PacketType
<1> QED BY <1>5, <1>6

LEMMA PingType ==
    ASSUME IdType, Ping
    PROVE  PacketType' /\ IdType'
<1>1. IdType'
  BY DEF Ping, IdType
<1>2. packet' = fini_message(PINGREQ, 0, 0, <<>>)
  BY DEF Ping, mqtt_msg_pingreq
<1>3. Writable(<<>>)
  BY WritableBytes, EmptySeq
<1>4. PINGREQ * 16 + 0 * 2 + 0 \in Byte
  BY FirstBytes
<1> QED BY <1>1, <1>2, <1>3, <1>4, PacketHeaded DEF PacketType

LEMMA TypeStep == IdType /\ PacketType /\ [Next]_vars => IdType' /\ PacketType'
<1> SUFFICES ASSUME IdType, PacketType, [Next]_vars PROVE IdType' /\ PacketType'
  OBVIOUS
<1>1. CASE UNCHANGED building
  BY <1>1 DEF building, IdType, PacketType
<1>2. ASSUME Build PROVE IdType' /\ PacketType'
  <2>1. ASSUME NEW topic \in Topics, NEW data \in Datas, NEW retain \in {0, 1},
               Publish(topic, data, 0, retain) \/ Publish(topic, data, 1, retain)
        PROVE  IdType' /\ PacketType'
    <3>1. 0 \in {0, 1} /\ 1 \in {0, 1}
      OBVIOUS
    <3> QED BY <2>1, <3>1, PublishType
  <2>2. ASSUME NEW topic \in Topics, Subscribe(topic) PROVE IdType' /\ PacketType'
    BY <2>2, SubscribeType
  <2>3. ASSUME NEW info \in Infos, Connect(info) PROVE IdType' /\ PacketType'
    BY <2>3, ConnectType
  <2>4. ASSUME Ping PROVE IdType' /\ PacketType'
    BY <2>4, PingType
  <2> QED BY <1>2, <2>1, <2>2, <2>3, <2>4 DEF Build
<1>3. ASSUME NEW messages, NEW answer, Receive(messages, answer) PROVE UNCHANGED building
  BY <1>3 DEF Receive
<1>4. ASSUME ReadPacket PROVE UNCHANGED building
  BY <1>4 DEF ReadPacket
<1>5. ASSUME UNCHANGED vars PROVE UNCHANGED building
  BY <1>5 DEF vars
<1> QED BY <1>1, <1>2, <1>3, <1>4, <1>5 DEF Next

LEMMA TypeInit == Init => IdType /\ PacketType
<1> SUFFICES ASSUME Init PROVE IdType /\ PacketType
  OBVIOUS
<1>1. packet = <<>> /\ packet \in Seq(Byte) /\ Len(packet) = 0
  BY EmptySeq DEF Init
<1> QED BY <1>1, IdsAssumption, SizeAssumption DEF Init, IdType, PacketType

\* No packet outgrows the buffer it is built in, message_id stays a uint16 and
\* the lengths handed to dataCb are no wrapped differences, whatever is built
\* and whatever arrives (mqtt_msg.c:63-141, 188-262).
THEOREM PacketsTypeCorrect == Spec => []TypeOK
<1>1. SegmentInv => \A i \in DOMAIN delivered :
                      /\ delivered[i].topic.length \in Nat
                      /\ delivered[i].data.length \in Nat
  <2> SUFFICES ASSUME SegmentInv, NEW i \in DOMAIN delivered
        PROVE delivered[i].topic.length \in Nat /\ delivered[i].data.length \in Nat
    OBVIOUS
  <2>0. sent \in Seq(Messages)
    BY DEF SegmentInv
  <2>1. CASE delivered = <<>>
    BY <2>1
  <2>2. ASSUME NEW n \in 0 .. Len(sent), delivered = GivenOf(n)
        PROVE  delivered[i].topic.length \in Nat /\ delivered[i].data.length \in Nat
    <3>1. i \in 1 .. n /\ delivered[i] = Given(sent[i])
      BY <2>2 DEF GivenOf
    <3>2. i \in 1 .. Len(sent)
      BY <2>0, <3>1, LenProperties
    <3>3. sent[i] \in Messages
      BY <2>0, <3>2, ElementOfSeq
    <3>4. Len(sent[i].topic) \in Nat /\ Len(sent[i].data) \in Nat
      BY <3>3, MessageParts, LenProperties
    <3> QED BY <3>1, <3>4 DEF Given, Whole
  <2> QED BY <2>1, <2>2 DEF SegmentInv
<1>2. IdType /\ PacketType /\ SegmentInv => TypeOK
  <2>1. SegmentInv => pdata \in Seq(Byte)
    BY DEF SegmentInv
  <2> QED BY <1>1, <2>1 DEF TypeOK, IdType, PacketType
<1> QED BY <1>2, SegmentInit, SegmentStep, TypeInit, TypeStep, PTL DEF Spec

(***************************************************************************)
(* Words and strings read back.                                            *)
(***************************************************************************)

LEMMA FirstKept ==
    ASSUME NEW S, NEW x, NEW y
    PROVE  x \in Seq(S) /\ y \in Seq(S) /\ Len(x) >= 2 =>
             /\ x \o y \in Seq(S) /\ Len(x \o y) = Len(x) + Len(y)
             /\ Len(x) \in Nat /\ Len(y) \in Nat
             /\ (x \o y)[1] = x[1] /\ (x \o y)[2] = x[2]
<1>0. SUFFICES ASSUME x \in Seq(S), y \in Seq(S), Len(x) >= 2
      PROVE  /\ x \o y \in Seq(S) /\ Len(x \o y) = Len(x) + Len(y)
             /\ Len(x) \in Nat /\ Len(y) \in Nat
             /\ (x \o y)[1] = x[1] /\ (x \o y)[2] = x[2]
  OBVIOUS
<1>1. 1 \in 1 .. Len(x) /\ 2 \in 1 .. Len(x) /\ Len(x) \in Nat /\ Len(y) \in Nat
  BY <1>0, LenProperties
<1> QED BY <1>0, <1>1, Longer

\* What stands behind a part.
LEMMA Behind1 ==
    ASSUME NEW S, NEW x, NEW y, NEW b
    PROVE  x \in Seq(S) /\ y \in Seq(S) /\ b = x \o y =>
             /\ SubSeq(b, Len(x) + 1, Len(b)) = y
             /\ \A i \in 1 .. Len(y) : b[Len(x) + i] = y[i]
<1>0. SUFFICES ASSUME x \in Seq(S), y \in Seq(S), b = x \o y
      PROVE  /\ SubSeq(b, Len(x) + 1, Len(b)) = y
             /\ \A i \in 1 .. Len(y) : b[Len(x) + i] = y[i]
  OBVIOUS
<1>1. SubSeq(b, Len(x) + 1, Len(b)) = y
  BY <1>0, Back
<1>2. /\ Len(x) \in Nat /\ Len(y) \in Nat
      /\ \A i \in 1 .. Len(x) + Len(y) : b[i] = IF i <= Len(x) THEN x[i] ELSE y[i - Len(x)]
  BY <1>0, ConcatProperties, LenProperties
<1>3. ASSUME NEW i \in 1 .. Len(y) PROVE b[Len(x) + i] = y[i]
  <2>1. Len(x) + i \in 1 .. Len(x) + Len(y) /\ ~(Len(x) + i <= Len(x))
        /\ (Len(x) + i) - Len(x) = i
    BY <1>2
  <2> QED BY <1>2, <2>1
<1> QED BY <1>1, <1>3

LEMMA WordFirst ==
    ASSUME NEW n \in 0 .. UINT16_MAX, NEW rest
    PROVE  rest \in Seq(Byte) =>
             /\ Word(n) \in Seq(Byte) /\ Len(Word(n)) = 2
             /\ Word(n) \o rest \in Seq(Byte)
             /\ Len(Word(n) \o rest) = 2 + Len(rest) /\ Len(rest) \in Nat
             /\ 256 * (Word(n) \o rest)[1] + (Word(n) \o rest)[2] = n
             /\ (Word(n) \o rest)[1] * 256 + (Word(n) \o rest)[2] = n
             /\ SubSeq(Word(n) \o rest, 3, Len(Word(n) \o rest)) = rest
<1>0. SUFFICES ASSUME rest \in Seq(Byte)
      PROVE  /\ Word(n) \in Seq(Byte) /\ Len(Word(n)) = 2
             /\ Word(n) \o rest \in Seq(Byte)
             /\ Len(Word(n) \o rest) = 2 + Len(rest) /\ Len(rest) \in Nat
             /\ 256 * (Word(n) \o rest)[1] + (Word(n) \o rest)[2] = n
             /\ (Word(n) \o rest)[1] * 256 + (Word(n) \o rest)[2] = n
             /\ SubSeq(Word(n) \o rest, 3, Len(Word(n) \o rest)) = rest
  OBVIOUS
<1> DEFINE w == Word(n)
<1>1. w \in Seq(Byte) /\ Len(w) = 2 /\ w[1] * 256 + w[2] = n
  <2>1. n \in Nat /\ n <= UINT16_MAX
    BY Max16
  <2> QED BY <2>1, WordType
<1>2. w[1] \in Nat /\ w[2] \in Nat
  <2> HIDE DEF w
  <2>1. 1 \in 1 .. Len(w) /\ 2 \in 1 .. Len(w)
    BY <1>1
  <2>2. w[1] \in Byte /\ w[2] \in Byte
    BY <1>1, <2>1, ElementOfSeq
  <2> QED BY <2>2, ByteNat
<1> DEFINE b == w \o rest
<1> HIDE DEF w
<1>3. b \in Seq(Byte) /\ Len(b) = 2 + Len(rest) /\ Len(rest) \in Nat /\ b[1] = w[1] /\ b[2] = w[2]
  <2>1. Len(w) >= 2
    BY <1>1
  <2>2. /\ b \in Seq(Byte) /\ Len(b) = Len(w) + Len(rest) /\ Len(rest) \in Nat
        /\ b[1] = w[1] /\ b[2] = w[2]
    <3>1. w \in Seq(Byte) /\ rest \in Seq(Byte)
      BY <1>0, <1>1
    <3> QED BY <2>1, <3>1, FirstKept
  <2> QED BY <1>1, <2>2
<1>4. SubSeq(b, 3, Len(b)) = rest
  <2>1. SubSeq(b, Len(w) + 1, Len(b)) = rest
    <3>1. w \in Seq(Byte) /\ rest \in Seq(Byte) /\ b = w \o rest
      BY <1>0, <1>1
    <3> HIDE DEF b
    <3> QED BY <3>1, Behind1
  <2> HIDE DEF b
  <2>2. Len(w) + 1 = 3
    BY <1>1
  <2> QED BY <2>1, <2>2
<1> HIDE DEF b
<1>5. 256 * b[1] + b[2] = n /\ b[1] * 256 + b[2] = n
  BY <1>1, <1>2, <1>3
<1> QED BY <1>1, <1>3, <1>4, <1>5 DEF b, w

\* b begins with the string s, and rest follows it.
Begins(b, s, rest) ==
    /\ b \in Seq(Byte) /\ Len(b) = 2 + Len(s) + Len(rest)
    /\ Len(s) \in Nat /\ Len(rest) \in Nat
    /\ b[1] * 256 + b[2] = Len(s)
    /\ Text(b) = s /\ Behind(b) = rest
    /\ \A i \in 1 .. Len(rest) : b[2 + Len(s) + i] = rest[i]

\* A string is read back from where it was appended.
LEMMA StringBegins ==
    ASSUME NEW s, NEW rest, NEW b
    PROVE  s \in Seq(Byte) /\ rest \in Seq(Byte) /\ Len(s) < 128 * 128
           /\ b = append_string(s) \o rest => Begins(b, s, rest) /\ append_string(s) \in Seq(Byte)
<1> DEFINE a == append_string(s)
           w == Word(Len(s))
<1>0. SUFFICES ASSUME s \in Seq(Byte), rest \in Seq(Byte), Len(s) < 128 * 128, b = a \o rest
      PROVE  Begins(b, s, rest) /\ a \in Seq(Byte)
  OBVIOUS
<1>1. Len(s) \in Nat /\ Len(s) \in 0 .. UINT16_MAX
  <2>1. s \in Seq(Byte) /\ Len(s) < 128 * 128
    BY <1>0
  <2> HIDE DEF a, w
  <2>2. Len(s) \in Nat
    BY <2>1, LenProperties
  <2> QED BY <2>1, <2>2, ShortWord, Max16
<1>2. /\ a = w \o s /\ w \in Seq(Byte) /\ Len(w) = 2 /\ a \in Seq(Byte) /\ Len(a) = 2 + Len(s)
      /\ 256 * a[1] + a[2] = Len(s) /\ a[1] * 256 + a[2] = Len(s)
  <2>1. a = w \o s
    BY DEF append_string
  <2> HIDE DEF a
  <2> QED BY <1>0, <1>1, <2>1, WordFirst, SMTT(30)
<1>b. b = a \o rest
  BY <1>0
<1> HIDE DEF a, w
<1>3. b \in Seq(Byte) /\ Len(b) = Len(a) + Len(rest) /\ Len(rest) \in Nat /\ b[1] = a[1] /\ b[2] = a[2]
  <2>1. Len(a) >= 2 /\ a \in Seq(Byte) /\ rest \in Seq(Byte)
    BY <1>0, <1>1, <1>2
  <2> QED BY <1>b, <2>1, FirstKept
<1>4. /\ SubSeq(b, Len(a) + 1, Len(b)) = rest
      /\ \A i \in 1 .. Len(rest) : b[Len(a) + i] = rest[i]
  <2>1. a \in Seq(Byte) /\ rest \in Seq(Byte)
    BY <1>0, <1>2
  <2> QED BY <1>b, <2>1, Behind1
<1>5. SubSeq(b, Len(w) + 1, Len(w) + Len(s)) = s
  <2>1. SubSeq(w \o (s \o rest), Len(w) + 1, Len(w) + Len(s)) = s
    BY <1>0, <1>2, Middle
  <2>2. (w \o s) \o rest = w \o (s \o rest)
    <3>1. w \in Seq(Byte) /\ s \in Seq(Byte) /\ rest \in Seq(Byte)
      BY <1>0, <1>2
    <3> QED BY <3>1, ConcatAssociative
  <2>3. b = (w \o s) \o rest
    BY <1>2, <1>b
  <2> QED BY <2>1, <2>2, <2>3
<1>6. 256 * b[1] + b[2] = Len(s) /\ b[1] * 256 + b[2] = Len(s)
  BY <1>2, <1>3
<1>7. Text(b) = s
  <2>1. 2 + 256 * b[1] + b[2] = Len(w) + Len(s) /\ Len(w) + 1 = 3
    <3>1. b[1] \in Nat /\ b[2] \in Nat
      <4>1. 1 \in 1 .. Len(b) /\ 2 \in 1 .. Len(b)
        BY <1>1, <1>2, <1>3
      <4>2. b[1] \in Byte /\ b[2] \in Byte
        BY <1>3, <4>1, ElementOfSeq
      <4> QED BY <4>2, ByteNat
    <3> QED BY <1>2, <1>6, <3>1, SMTT(30)
  <2>2. Text(b) = SubSeq(b, 3, 2 + 256 * b[1] + b[2])
    BY DEF Text
  <2> QED BY <1>5, <2>1, <2>2
<1>8. Behind(b) = rest
  <2>1. 3 + 256 * b[1] + b[2] = Len(a) + 1
    <3>1. b[1] \in Nat /\ b[2] \in Nat
      <4>1. 1 \in 1 .. Len(b) /\ 2 \in 1 .. Len(b)
        BY <1>1, <1>2, <1>3
      <4>2. b[1] \in Byte /\ b[2] \in Byte
        BY <1>3, <4>1, ElementOfSeq
      <4> QED BY <4>2, ByteNat
    <3> QED BY <1>1, <1>2, <1>6, <3>1, SMTT(30)
  <2>2. Behind(b) = SubSeq(b, 3 + 256 * b[1] + b[2], Len(b))
    BY DEF Behind
  <2> QED BY <1>4, <2>1, <2>2
<1>9. /\ Len(b) = 2 + Len(s) + Len(rest)
      /\ \A i \in 1 .. Len(rest) : b[2 + Len(s) + i] = rest[i]
  BY <1>1, <1>2, <1>3, <1>4
<1> QED BY <1>1, <1>2, <1>3, <1>6, <1>7, <1>8, <1>9 DEF Begins

\* b begins with the word n, and rest follows it.
BeginsWord(b, n, rest) ==
    /\ b \in Seq(Byte) /\ Len(b) = 2 + Len(rest) /\ Len(rest) \in Nat
    /\ 256 * b[1] + b[2] = n /\ b[1] * 256 + b[2] = n
    /\ SubSeq(b, 3, Len(b)) = rest

LEMMA WordBegins ==
    ASSUME NEW n \in 0 .. UINT16_MAX, NEW rest, NEW b
    PROVE  rest \in Seq(Byte) /\ b = Word(n) \o rest
           => BeginsWord(b, n, rest) /\ Word(n) \in Seq(Byte)
<1>0. SUFFICES ASSUME rest \in Seq(Byte), b = Word(n) \o rest
      PROVE  BeginsWord(b, n, rest) /\ Word(n) \in Seq(Byte)
  OBVIOUS
<1> DEFINE w == Word(n)
           c == w \o rest
<1>1. /\ w \in Seq(Byte) /\ c \in Seq(Byte)
      /\ Len(c) = 2 + Len(rest) /\ Len(rest) \in Nat
      /\ 256 * c[1] + c[2] = n
      /\ c[1] * 256 + c[2] = n
      /\ SubSeq(c, 3, Len(c)) = rest
      /\ b = c
  BY <1>0, WordFirst
<1> HIDE DEF c
<1> QED BY <1>1 DEF BeginsWord

\* Three parts, put together from either end.
LEMMA Regroup ==
    ASSUME NEW S, NEW a, NEW b, NEW c
    PROVE  a \in Seq(S) /\ b \in Seq(S) /\ c \in Seq(S) => (a \o b) \o c = a \o (b \o c)
BY ConcatAssociative

(***************************************************************************)
(* Packets read back: PINGREQ, SUBSCRIBE and PUBLISH.                      *)
(***************************************************************************)

\* A packet with nothing behind it, first byte and body being known.
PacketOf(p, first, body) ==
    /\ p \in Seq(Byte) /\ p[1] = first
    /\ body \in Seq(Byte) /\ Len(body) \in Nat /\ Len(body) < 128 * 128
    /\ Len(p) = HeaderSize(Len(body)) + Len(body)
    /\ HeaderEnd(p) = HeaderSize(Len(body)) /\ HeaderSize(Len(body)) \in {2, 3}
    /\ mqtt_get_total_length(p) = Len(p)
    /\ Body(p) = body
    /\ \A i \in 1 .. Len(body) : p[HeaderSize(Len(body)) + i] = body[i]
    /\ Len(body) < 128 => p[2] = Len(body)

LEMMA Built ==
    ASSUME NEW type, NEW qos, NEW retain, NEW body, NEW first \in Byte, NEW p,
           first = type * 16 + qos * 2 + retain, Writable(body),
           p = fini_message(type, qos, retain, body), p # <<>>
    PROVE  PacketOf(p, first, body)
<1> DEFINE n == Len(body)
<1>1. body \in Seq(Byte) /\ n \in Nat /\ n < 128 * 128 /\ Headed(p, first, n, body)
  BY PacketHeaded
<1> HIDE DEF n
<1>2. n = Len(body)
  BY DEF n
<1>3. /\ p \in Seq(Byte) /\ Len(p) = HeaderSize(n) + Len(body) /\ p[1] = first
      /\ HeaderEnd(p) = HeaderSize(n)
      /\ mqtt_get_total_length(p) = HeaderSize(n) + n
      /\ \A i \in 1 .. Len(body) : p[HeaderSize(n) + i] = body[i]
      /\ \A i \in 1 .. HeaderSize(n) - 1 : p[i + 1] = LengthBytes(n)[i]
  BY <1>1, BehindFixed
<1>4. Body(p) = body
  BY <1>1, <1>2, HeadedBody
<1>5. HeaderSize(n) \in {2, 3}
  BY DEF HeaderSize
<1>6. ASSUME n < 128 PROVE p[2] = n
  <2>1. HeaderSize(n) = 2 /\ LengthBytes(n) = <<n>> /\ <<n>>[1] = n
    BY <1>6 DEF HeaderSize, LengthBytes
  <2>2. p[1 + 1] = LengthBytes(n)[1]
    BY <1>3, <2>1
  <2> QED BY <2>1, <2>2
<1> QED BY <1>1, <1>2, <1>3, <1>4, <1>5, <1>6 DEF PacketOf

LEMMA PingReads ==
    ASSUME NEW p, p = mqtt_msg_pingreq, p # <<>>
    PROVE  mqtt_get_total_length(p) = Len(p) /\ Read(p) = [type |-> "PINGREQ"]
<1>1. Writable(<<>>)
  BY WritableBytes, EmptySeq
<1>2. PINGREQ * 16 + 0 * 2 + 0 = 192 /\ 192 \in Byte
  BY FirstBytes
<1>3. PacketOf(p, 192, <<>>)
  BY <1>1, <1>2, Built DEF mqtt_msg_pingreq
<1>4. p[1] \div 16 = PINGREQ /\ PINGREQ # CONNECT /\ PINGREQ # PUBLISH /\ PINGREQ # SUBSCRIBE
  BY <1>3 DEF PacketOf, PINGREQ, CONNECT, PUBLISH, SUBSCRIBE
<1>5. Read(p) = [type |-> "PINGREQ"]
  BY <1>4 DEF Read
<1> QED BY <1>3, <1>5 DEF PacketOf

LEMMA SubscribeReads ==
    ASSUME NEW topic \in Topics, 5 + Len(topic) < 128, NEW id \in 0 .. UINT16_MAX,
           NEW p, p = mqtt_msg_subscribe(topic, 0, id), p # <<>>
    PROVE  /\ mqtt_get_total_length(p) = Len(p)
           /\ Read(p) = [type |-> "SUBSCRIBE", topic |-> topic, qos |-> 0, id |-> id]
           /\ mqtt_get_id(p) = id
<1> DEFINE w == Word(id)
           s == append_string(topic)
           e == <<0>>
           r == s \o e
           body == (w \o s) \o e
<1>1. PacketOf(p, 130, body)
  <2>1. SUBSCRIBE * 16 + 1 * 2 + 0 = 130 /\ 130 \in Byte
    BY FirstBytes
  <2>2. Writable(body)
    BY SubscribeWritable
  <2>3. p = fini_message(SUBSCRIBE, 1, 0, body)
    BY DEF mqtt_msg_subscribe
  <2> HIDE DEF body
  <2> QED BY <2>1, <2>2, <2>3, Built
<1>2. topic \in Seq(Byte) /\ Len(topic) \in Nat /\ Len(topic) < 128 * 128
  <2>1. topic \in Seq(Byte)
    BY TextAssumption
  <2>2. Len(topic) \in Nat
    BY <2>1, LenProperties
  <2> QED BY <2>1, <2>2
<1>4. e \in Seq(Byte) /\ Len(e) = 1 /\ e[1] = 0
  <2>1. 0 \in Byte
    BY DEF Byte
  <2> QED BY <2>1
<1>5. body = (w \o s) \o e /\ r = s \o e
  OBVIOUS
<1> HIDE DEF body, e
<1>6. Begins(r, topic, e) /\ s \in Seq(Byte)
  BY <1>2, <1>4, StringBegins
<1> HIDE DEF s, r
<1>7. r \in Seq(Byte) /\ Len(r) = 2 + Len(topic) + 1 /\ Text(r) = topic /\ Behind(r) = e
  BY <1>4, <1>6 DEF Begins
<1>8. w \in Seq(Byte)
  <2>1. id \in Nat /\ id <= UINT16_MAX
    BY Max16
  <2> QED BY <2>1, WordType
<1>9. BeginsWord(body, id, r)
  <2>1. w \in Seq(Byte) /\ s \in Seq(Byte) /\ e \in Seq(Byte)
    BY <1>4, <1>6, <1>8
  <2> HIDE DEF w
  <2>2. (w \o s) \o e = w \o (s \o e)
    BY <2>1, Regroup, SMTT(30)
  <2>3. body = w \o r
    BY <1>5, <2>2, Zenon
  <2> QED BY <1>7, <2>3, WordBegins DEF w
<1> HIDE DEF w
<1>10. /\ Len(body) = 5 + Len(topic) /\ 256 * body[1] + body[2] = id
       /\ body[1] * 256 + body[2] = id
       /\ SubSeq(body, 3, Len(body)) = r
  BY <1>2, <1>7, <1>9 DEF BeginsWord
<1>11. p[1] \div 16 = SUBSCRIBE /\ SUBSCRIBE # CONNECT /\ SUBSCRIBE # PUBLISH
       /\ SUBSCRIBE # PINGREQ
  BY <1>1 DEF PacketOf, CONNECT, PUBLISH, SUBSCRIBE, PINGREQ
<1>12. Read(p) = [type |-> "SUBSCRIBE", topic |-> topic, qos |-> 0, id |-> id]
  <2>1. Body(p) = body
    BY <1>1 DEF PacketOf
  <2>2. Read(p) = ReadSubscribe(p)
    BY <1>11 DEF Read
  <2>3. ReadSubscribe(p) = [type |-> "SUBSCRIBE", topic |-> Text(r), qos |-> Behind(r)[1],
                            id |-> 256 * body[1] + body[2]]
    BY <1>10, <2>1 DEF ReadSubscribe
  <2> QED BY <1>4, <1>7, <1>10, <2>2, <2>3
<1>13. mqtt_get_id(p) = id
  <2>1. Len(body) < 128 /\ HeaderSize(Len(body)) = 2
    BY <1>2, <1>10 DEF HeaderSize
  <2>2. p[2] < 128 /\ Len(p) >= 4
    BY <1>1, <1>2, <1>10, <2>1 DEF PacketOf
  <2>3. p[2 + 1] = body[1] /\ p[2 + 2] = body[2]
    <3>1. 1 \in 1 .. Len(body) /\ 2 \in 1 .. Len(body)
      BY <1>2, <1>10
    <3> QED BY <1>1, <2>1, <3>1 DEF PacketOf
  <2>4. mqtt_get_type(p) = SUBSCRIBE /\ SUBSCRIBE \in (PUBACK .. SUBACK) \cup {UNSUBACK}
    BY <1>11 DEF mqtt_get_type, SUBSCRIBE, PUBACK, SUBACK
  <2>5. Number(p, 2) = id
    BY <1>10, <2>3 DEF Number
  <2> QED BY <1>11, <2>2, <2>4, <2>5 DEF mqtt_get_id
<1> QED BY <1>1, <1>12, <1>13 DEF PacketOf

LEMMA PublishFirst ==
    ASSUME NEW qos \in {0, 1}, NEW retain \in {0, 1}
    PROVE  LET first == 48 + 2 * qos + retain
           IN  /\ first \div 16 = PUBLISH /\ (first \div 2) % 4 = qos
               /\ first % 2 = retain /\ (first % 8) \div 2 = qos
<1>1. PUBLISH = 3
  BY DEF PUBLISH
<1>2. CASE qos = 0 /\ retain = 0
  BY <1>1, <1>2
<1>3. CASE qos = 0 /\ retain = 1
  BY <1>1, <1>3
<1>4. CASE qos = 1 /\ retain = 0
  BY <1>1, <1>4
<1>5. CASE qos = 1 /\ retain = 1
  BY <1>1, <1>5
<1> QED BY <1>2, <1>3, <1>4, <1>5

LEMMA PublishReads ==
    ASSUME NEW topic \in Topics, NEW data \in Datas, NEW qos \in {0, 1}, NEW retain \in {0, 1},
           NEW id \in 0 .. UINT16_MAX, qos = 0 => id = 0, qos = 1 => data # <<>>,
           NEW p, p = mqtt_msg_publish(topic, data, qos, retain, id), p # <<>>
    PROVE  /\ mqtt_get_total_length(p) = Len(p)
           /\ Read(p) = [type |-> "PUBLISH", topic |-> topic, qos |-> qos, retain |-> retain,
                         id |-> id, data |-> data]
           /\ mqtt_get_id(p) = id
<1> DEFINE s == append_string(topic)
           w == IF qos > 0 THEN Word(id) ELSE <<>>
           rest == w \o data
           body == (s \o w) \o data
           first == 48 + 2 * qos + retain
           h == HeaderSize(Len(body))
<1>1. PacketOf(p, first, body)
  <2>1. PUBLISH * 16 + qos * 2 + retain = first /\ first \in Byte
    BY FirstBytes
  <2>2. Writable(body)
    BY PublishWritable
  <2>3. p = fini_message(PUBLISH, qos, retain, body)
    BY DEF mqtt_msg_publish
  <2> HIDE DEF body, first
  <2> QED BY <2>1, <2>2, <2>3, Built
<1>2. /\ first \div 16 = PUBLISH /\ (first \div 2) % 4 = qos
      /\ first % 2 = retain /\ (first % 8) \div 2 = qos
  BY PublishFirst
<1> HIDE DEF body, rest, first
<1>3. topic \in Seq(Byte) /\ data \in Seq(Byte) /\ Len(topic) \in Nat /\ Len(data) \in Nat
  <2>1. topic \in Seq(Byte) /\ data \in Seq(Byte)
    BY TextAssumption
  <2> QED BY <2>1, LenProperties
<1>4. w \in Seq(Byte)
  <2>1. id \in Nat /\ id <= UINT16_MAX
    BY Max16
  <2> QED BY <2>1, WordType, EmptySeq
<1>5. CASE Len(topic) < 128 * 128
  <2>1. rest \in Seq(Byte) /\ Len(rest) \in Nat
    <3> HIDE DEF w
    <3>1. w \o data \in Seq(Byte)
      BY <1>3, <1>4, ConcatProperties
    <3>2. rest \in Seq(Byte)
      BY <3>1 DEF rest
    <3> QED BY <3>2, LenProperties
  <2>2. s \in Seq(Byte)
    <3>1. Begins(s \o <<>>, topic, <<>>) /\ append_string(topic) \in Seq(Byte)
      BY <1>3, <1>5, EmptySeq, StringBegins
    <3> QED BY <3>1
  <2>3. body = s \o rest
    <3> HIDE DEF s, w
    <3> QED BY <1>3, <1>4, <2>2, Regroup, SMTT(30) DEF body, rest
  <2>4. Begins(body, topic, rest)
    BY <1>3, <1>5, <2>1, <2>3, StringBegins
  <2>5. qos = 0 => rest = data
    <3>1. <<>> \o data = data
      BY <1>3, ConcatEmptySeq
    <3> QED BY <3>1 DEF rest
  <2>6. qos = 1 => BeginsWord(rest, id, data)
    <3>1. qos = 1 => rest = Word(id) \o data
      BY DEF rest
    <3> QED BY <1>3, <3>1, WordBegins
  <2> HIDE DEF s, w
  <2>7. Body(p) = body /\ p[1] = first
    BY <1>1 DEF PacketOf
  <2>8. Text(body) = topic /\ Behind(body) = rest
    BY <2>4 DEF Begins
  <2>9. Read(p) = [type |-> "PUBLISH", topic |-> topic, qos |-> qos, retain |-> retain,
                   id |-> id, data |-> data]
    <3>1. PUBLISH # CONNECT /\ PUBLISH # SUBSCRIBE /\ PUBLISH # PINGREQ
      BY DEF PUBLISH, CONNECT, SUBSCRIBE, PINGREQ
    <3>2. Read(p) = ReadPublish(p)
      BY <1>2, <2>7, <3>1 DEF Read
    <3>3. ReadPublish(p) =
            [type |-> "PUBLISH", topic |-> topic, qos |-> qos, retain |-> retain,
             id |-> IF qos = 0 THEN 0 ELSE 256 * rest[1] + rest[2],
             data |-> SubSeq(rest, IF qos = 0 THEN 1 ELSE 3, Len(rest))]
      <4>1. /\ (p[1] \div 2) % 4 = qos /\ p[1] % 2 = retain
            /\ Text(Body(p)) = topic /\ Behind(Body(p)) = rest
        BY <1>2, <2>7, <2>8
      <4> QED BY <4>1, ZenonT(60) DEF ReadPublish
    <3>4. CASE qos = 0
      <4>1. SubSeq(rest, 1, Len(rest)) = data
        BY <1>3, <2>5, <3>4, SubSeqFull
      <4>2. id = 0 /\ (IF qos = 0 THEN 1 ELSE 3) = 1
            /\ (IF qos = 0 THEN 0 ELSE 256 * rest[1] + rest[2]) = 0
        BY <3>4
      <4> QED BY <3>2, <3>3, <4>1, <4>2
    <3>5. CASE qos = 1
      <4>1. SubSeq(rest, 3, Len(rest)) = data /\ 256 * rest[1] + rest[2] = id
        BY <2>6, <3>5 DEF BeginsWord
      <4>2. (IF qos = 0 THEN 1 ELSE 3) = 3
            /\ (IF qos = 0 THEN 0 ELSE 256 * rest[1] + rest[2]) = 256 * rest[1] + rest[2]
        BY <3>5
      <4> QED BY <3>2, <3>3, <4>1, <4>2
    <3> QED BY <3>4, <3>5
  <2>10. mqtt_get_type(p) = PUBLISH /\ mqtt_get_qos(p) = qos
    BY <1>2, <2>7 DEF mqtt_get_type, mqtt_get_qos
  <2>11. mqtt_get_id(p) = id
    <3>0. PUBLISH \notin (PUBACK .. SUBACK) \cup {UNSUBACK}
      BY DEF PUBLISH, PUBACK, SUBACK, UNSUBACK
    <3>1. CASE qos = 0
      <4>1. mqtt_get_id(p) = 0
        BY <2>10, <3>0, <3>1 DEF mqtt_get_id
      <4> QED BY <3>1, <4>1
    <3>2. CASE qos = 1
      <4>1. /\ Len(body) = 2 + Len(topic) + Len(rest) /\ Len(rest) = 2 + Len(data)
            /\ body[1] * 256 + body[2] = Len(topic)
            /\ rest[1] * 256 + rest[2] = id
            /\ \A i \in 1 .. Len(rest) : body[2 + Len(topic) + i] = rest[i]
        BY <2>4, <2>6, <3>2 DEF Begins, BeginsWord
      <4>2. /\ HeaderEnd(p) = h /\ h \in {2, 3} /\ Len(p) = h + Len(body)
            /\ \A i \in 1 .. Len(body) : p[h + i] = body[i]
        BY <1>1 DEF PacketOf
      <4> HIDE DEF h
      <4>3. Len(data) > 0
        <5>1. Len(data) # 0
          BY <1>3, <3>2, EmptySeq
        <5> QED BY <1>3, <5>1
      <4>4. Number(p, h) = Len(topic)
        <5>1. 1 \in 1 .. Len(body) /\ 2 \in 1 .. Len(body)
          BY <1>3, <4>1
        <5>2. p[h + 1] = body[1] /\ p[h + 2] = body[2]
          BY <4>2, <5>1
        <5> QED BY <4>1, <5>2 DEF Number
      <4>5. TopicEnd(p) = h + 2 + Len(topic)
        BY <4>2, <4>4 DEF TopicEnd
      <4>6. /\ Len(body) = 2 + Len(topic) + (2 + Len(data))
            /\ Len(p) = h + (2 + Len(topic) + (2 + Len(data)))
        BY <4>1, <4>2, ZenonT(60)
      <4>7. ~Cut(p) /\ ~(TopicEnd(p) >= Len(p)) /\ ~(TopicEnd(p) + 2 >= Len(p))
        BY <1>3, <4>2, <4>3, <4>5, <4>6 DEF Cut
      <4>8. Number(p, TopicEnd(p)) = id
        <5>1. /\ 1 \in 1 .. Len(rest) /\ 2 \in 1 .. Len(rest)
              /\ 2 + Len(topic) + 1 \in 1 .. Len(body) /\ 2 + Len(topic) + 2 \in 1 .. Len(body)
          BY <1>3, <4>1
        <5>2. /\ p[h + (2 + Len(topic) + 1)] = body[2 + Len(topic) + 1]
              /\ p[h + (2 + Len(topic) + 2)] = body[2 + Len(topic) + 2]
          BY <4>2, <5>1
        <5>3. /\ body[2 + Len(topic) + 1] = rest[1] /\ body[2 + Len(topic) + 2] = rest[2]
          BY <4>1, <5>1
        <5>4. /\ TopicEnd(p) + 1 = h + (2 + Len(topic) + 1)
              /\ TopicEnd(p) + 2 = h + (2 + Len(topic) + 2)
          BY <1>3, <4>2, <4>5
        <5>5. p[TopicEnd(p) + 1] = rest[1] /\ p[TopicEnd(p) + 2] = rest[2]
          BY <5>2, <5>3, <5>4
        <5> QED BY <4>1, <5>5 DEF Number
      <4>9. mqtt_get_qos(p) # 0
        BY <2>10, <3>2
      <4> QED BY <2>10, <3>0, <4>7, <4>8, <4>9 DEF mqtt_get_id
    <3> QED BY <3>1, <3>2
  <2> QED BY <1>1, <2>9, <2>11 DEF PacketOf
<1>6. Len(topic) < 128 * 128
  <2>1. s \in Seq(Nat) /\ Len(s) = 2 + Len(topic)
    BY <1>3, StringType
  <2>2. w \in Seq(Nat) /\ data \in Seq(Nat) /\ s \in Seq(Nat)
    <3> HIDE DEF s, w
    <3>1. Writable(w) /\ Writable(data)
      BY <1>3, <1>4, WritableBytes
    <3> QED BY <2>1, <3>1 DEF Writable
  <2> DEFINE N == Nat
  <2>3. w \in Seq(N) /\ data \in Seq(N) /\ s \in Seq(N)
    BY <2>2
  <2> HIDE DEF s, w, N
  <2>4. s \o w \in Seq(N) /\ Len(s \o w) = Len(s) + Len(w) /\ Len(w) \in Nat
    BY <2>3, Joined
  <2> DEFINE sw == s \o w
  <2>5. sw \in Seq(N) /\ Len(sw) = Len(s) + Len(w)
    BY <2>4
  <2> HIDE DEF sw
  <2>6. Len(sw \o data) = Len(sw) + Len(data)
    BY <2>3, <2>5, Joined, ZenonT(60)
  <2>7. Len(body) = ((2 + Len(topic)) + Len(w)) + Len(data)
    BY <2>1, <2>5, <2>6 DEF body, sw
  <2>8. Len(body) < 128 * 128
    BY <1>1 DEF PacketOf
  <2> QED BY <1>3, <2>4, <2>7, <2>8
<1> QED BY <1>5, <1>6

(***************************************************************************)
(* Packets read back: CONNECT.                                             *)
(***************************************************************************)

LEMMA FlagsRead ==
    ASSUME NEW c \in {0, 2}, NEW r \in {0, 32}, NEW q \in 0 .. 3, NEW w \in {0, 4 + 8 * q + r},
           NEW u \in {0, 128}, NEW s \in {0, 64}, NEW f, f = ((c + w) + u) + s
    PROVE  /\ Bit(f, 2) <=> c = 2
           /\ Bit(f, 4) <=> w # 0
           /\ w # 0 => (f \div 8) % 4 = q
           /\ w = 0 => (f \div 8) % 4 = 0
           /\ Bit(f, 32) <=> w # 0 /\ r = 32
           /\ Bit(f, 64) <=> s = 64
           /\ Bit(f, 128) <=> u = 128
<1>0. q \in {0, 1, 2, 3}
  OBVIOUS
<1>1. CASE w = 0
  <2>1. f = (c + u) + s
    BY <1>1
  <2> QED BY <1>1, <2>1 DEF Bit
<1>2. CASE w # 0 /\ q = 0
  BY <1>2 DEF Bit
<1>3. CASE w # 0 /\ q = 1
  BY <1>3 DEF Bit
<1>4. CASE w # 0 /\ q = 2
  BY <1>4 DEF Bit
<1>5. CASE w # 0 /\ q = 3
  BY <1>5 DEF Bit
<1> QED BY <1>0, <1>1, <1>2, <1>3, <1>4, <1>5

\* The optional strings of a CONNECT one after the other, as the broker
\* takes them.
OptRead(flags, value, rest) ==
    IF Bit(flags, value) THEN [is |-> Text(rest), then |-> Behind(rest)]
                         ELSE [is |-> <<>>, then |-> rest]
Start(p) == SubSeq(Body(p), 13, Len(Body(p)))
TopicRead(p) == OptRead(Body(p)[10], 4, Behind(Start(p)))
MessageRead(p) == OptRead(Body(p)[10], 4, TopicRead(p).then)
UserRead(p) == OptRead(Body(p)[10], 128, MessageRead(p).then)
PasswordRead(p) == OptRead(Body(p)[10], 64, UserRead(p).then)

LEMMA ConnectFields ==
    ASSUME NEW p
    PROVE  ReadConnect(p) =
             [client_id |-> Text(Start(p)), username |-> UserRead(p).is,
              password |-> PasswordRead(p).is,
              will_topic |-> TopicRead(p).is, will_message |-> MessageRead(p).is,
              will_qos |-> (Body(p)[10] \div 8) % 4, will_retain |-> Bit(Body(p)[10], 32),
              clean_session |-> Bit(Body(p)[10], 2),
              keepalive |-> 256 * Body(p)[11] + Body(p)[12]]
BY Zenon DEF ReadConnect, OptRead, Start, TopicRead, MessageRead, UserRead, PasswordRead

\* The string s comes first in b if it is there, and is taken from it.
First(b, present, s, rest) ==
    s \in Seq(Byte) /\ rest \in Seq(Byte) /\ Len(s) < 128 * 128
    /\ b = Optional(present, s) \o rest /\ (~present => s = <<>>)
Taken(read, s, rest) == read.is = s /\ read.then = rest

LEMMA OptionalReads ==
    ASSUME NEW flags, NEW value, NEW present, NEW s, NEW rest, NEW b
    PROVE  First(b, present, s, rest) /\ (present <=> Bit(flags, value))
           => Taken(OptRead(flags, value, b), s, rest)
<1>0. SUFFICES ASSUME s \in Seq(Byte), rest \in Seq(Byte), Len(s) < 128 * 128,
                      b = Optional(present, s) \o rest, ~present => s = <<>>,
                      present <=> Bit(flags, value)
      PROVE  OptRead(flags, value, b).is = s /\ OptRead(flags, value, b).then = rest
  BY Zenon DEF First, Taken
<1>1. CASE present
  <2>1. b = append_string(s) \o rest
    BY <1>0, <1>1 DEF Optional
  <2>2. Begins(b, s, rest)
    BY <1>0, <2>1, StringBegins
  <2>3. Text(b) = s /\ Behind(b) = rest
    BY <2>2 DEF Begins
  <2>4. OptRead(flags, value, b) = [is |-> Text(b), then |-> Behind(b)]
    BY <1>0, <1>1, Zenon DEF OptRead
  <2> QED BY <2>3, <2>4
<1>2. CASE ~present
  <2>1. b = <<>> \o rest
    BY <1>0, <1>2 DEF Optional
  <2>2. <<>> \o rest = rest
    BY <1>0, ConcatEmptySeq
  <2>3. OptRead(flags, value, b) = [is |-> <<>>, then |-> b]
    BY <1>0, <1>2, Zenon DEF OptRead
  <2> QED BY <1>0, <1>2, <2>1, <2>2, <2>3
<1> QED BY <1>1, <1>2

\* The parts of what fits are bytes.
LEMMA WritableParts ==
    ASSUME NEW a, NEW b
    PROVE  Writable(a) /\ Writable(b) /\ Len(a \o b) < 128 * 128 =>
             /\ a \in Seq(Byte) /\ Len(a) < 128 * 128 /\ Len(a) \in Nat
             /\ b \in Seq(Byte) /\ Len(b) < 128 * 128 /\ Len(b) \in Nat
<1>0. SUFFICES ASSUME Writable(a), Writable(b), Len(a \o b) < 128 * 128
      PROVE  /\ a \in Seq(Byte) /\ Len(a) < 128 * 128 /\ Len(a) \in Nat
             /\ b \in Seq(Byte) /\ Len(b) < 128 * 128 /\ Len(b) \in Nat
  OBVIOUS
<1> DEFINE N == Nat
<1>1. a \in Seq(N) /\ b \in Seq(N)
  BY <1>0 DEF Writable
<1> HIDE DEF N
<1>2. Len(a \o b) = Len(a) + Len(b) /\ Len(a) \in Nat /\ Len(b) \in Nat
  BY <1>1, Joined
<1>3. Len(a) < 128 * 128 /\ Len(b) < 128 * 128
  BY <1>0, <1>2
<1> QED BY <1>0, <1>2, <1>3 DEF Writable

\* The body of a CONNECT from the end to the front.
WillTopic(info) == Optional(info.will_topic # <<>>, info.will_topic)
WillMessage(info) == Optional(info.will_topic # <<>>, info.will_message)
User(info) == Optional(info.username # <<>>, info.username)
Password(info) == Optional(info.password # <<>>, info.password)
FromPassword(info) == Password(info) \o <<>>
FromUser(info) == User(info) \o FromPassword(info)
FromMessage(info) == WillMessage(info) \o FromUser(info)
FromTopic(info) == WillTopic(info) \o FromMessage(info)
FromClient(info) == append_string(info.client_id) \o FromTopic(info)
ConnectHead(info) == (Protocol \o <<3, ConnectFlags(info)>>) \o Word(info.keepalive)

LEMMA OptionalWritable ==
    ASSUME NEW present, NEW s
    PROVE  s \in Seq(Byte) => Writable(Optional(present, s))
BY WritableString, WritableBytes, EmptySeq DEF Optional

LEMMA OptionalShort ==
    ASSUME NEW present, NEW s
    PROVE  s \in Seq(Byte) /\ Len(Optional(present, s)) < 128 * 128 /\ (~present => s = <<>>)
           => Len(s) < 128 * 128
<1>0. SUFFICES ASSUME s \in Seq(Byte), Len(Optional(present, s)) < 128 * 128, ~present => s = <<>>
      PROVE  Len(s) < 128 * 128
  OBVIOUS
<1>1. CASE present
  <2>1. Len(append_string(s)) = 2 + Len(s) /\ Len(s) \in Nat
    BY <1>0, StringType
  <2>2. Optional(present, s) = append_string(s)
    BY <1>1 DEF Optional
  <2> QED BY <1>0, <2>1, <2>2
<1>2. CASE ~present
  BY <1>0, <1>2
<1> QED BY <1>1, <1>2

LEMMA HeadWritable == ASSUME NEW info \in Infos
    PROVE  Writable(ConnectHead(info))
<1>1. Writable(Protocol)
  <2>1. /\ 77 \in Byte /\ 81 \in Byte /\ 73 \in Byte /\ 115 \in Byte
        /\ 100 \in Byte /\ 112 \in Byte
    BY DEF Byte
  <2>2. <<77, 81, 73, 115, 100, 112>> \in Seq(Byte)
    BY <2>1
  <2> QED BY <2>2, WritableString DEF Protocol
<1>2. Writable(<<3, ConnectFlags(info)>>)
  <2>1. 3 \in Byte /\ ConnectFlags(info) \in Byte
    BY FlagsByte DEF Byte
  <2>2. <<3, ConnectFlags(info)>> \in Seq(Byte)
    BY <2>1
  <2> QED BY <2>2, WritableBytes
<1>3. Writable(Word(info.keepalive))
  BY InfoTexts, WritableWord
<1>4. Writable(Protocol \o <<3, ConnectFlags(info)>>)
  BY <1>1, <1>2, WritableJoin
<1> QED BY <1>3, <1>4, WritableJoin DEF ConnectHead

\* All parts of a CONNECT that fits are bytes, and short.
Short(b) == b \in Seq(Byte) /\ Len(b) < 128 * 128 /\ Len(b) \in Nat

LEMMA ConnectShort ==
    ASSUME NEW info \in Infos, Len(ConnectBody(info)) < 128 * 128
    PROVE  /\ Short(ConnectHead(info)) /\ Short(append_string(info.client_id))
           /\ Short(WillTopic(info)) /\ Short(WillMessage(info))
           /\ Short(User(info)) /\ Short(Password(info))
           /\ ConnectBody(info) = ConnectHead(info) \o FromClient(info)
<1> DEFINE f == ConnectHead(info)
           c == append_string(info.client_id)
           t == WillTopic(info)
           m == WillMessage(info)
           u == User(info)
           s == Password(info)
           b3 == f \o c
           b4 == b3 \o t
           b5 == b4 \o m
           b6 == b5 \o u
           b7 == b6 \o s
<1>1. /\ Writable(f) /\ Writable(c) /\ Writable(t) /\ Writable(m) /\ Writable(u) /\ Writable(s)
  BY HeadWritable, InfoTexts, WritableString, OptionalWritable
     DEF WillTopic, WillMessage, User, Password
<1>2. ConnectBody(info) = b7
  BY DEF ConnectBody, ConnectHead, WillTopic, WillMessage, User, Password
<1>3. Len(b7) < 128 * 128
  BY <1>2
<1> HIDE DEF f, c, t, m, u, s
<1>4. Writable(b3)
  BY <1>1, WritableJoin
<1> HIDE DEF b3
<1>5. Writable(b4)
  BY <1>1, <1>4, WritableJoin
<1> HIDE DEF b4
<1>6. Writable(b5)
  BY <1>1, <1>5, WritableJoin
<1> HIDE DEF b5
<1>7. Writable(b6)
  BY <1>1, <1>6, WritableJoin
<1> HIDE DEF b6
<1>8. Short(b6) /\ Short(s)
  BY <1>1, <1>3, <1>7, WritableParts DEF Short
<1>9. Short(b5) /\ Short(u)
  <2>1. Len(b5 \o u) < 128 * 128
    BY <1>8 DEF b6, Short
  <2> QED BY <1>1, <1>6, <2>1, WritableParts DEF Short
<1>10. Short(b4) /\ Short(m)
  <2>1. Len(b4 \o m) < 128 * 128
    BY <1>9 DEF b5, Short
  <2> QED BY <1>1, <1>5, <2>1, WritableParts DEF Short
<1>11. Short(b3) /\ Short(t)
  <2>1. Len(b3 \o t) < 128 * 128
    BY <1>10 DEF b4, Short
  <2> QED BY <1>1, <1>4, <2>1, WritableParts DEF Short
<1>12. Short(f) /\ Short(c)
  <2>1. Len(f \o c) < 128 * 128
    BY <1>11 DEF b3, Short
  <2> QED BY <1>1, <2>1, WritableParts DEF Short
<1> DEFINE r7 == s \o <<>>
           r6 == u \o r7
           r5 == m \o r6
           r4 == t \o r5
           r3 == c \o r4
<1>13. r7 = s /\ s \in Seq(Byte)
  BY <1>8, ConcatEmptySeq DEF Short
<1> HIDE DEF r7
<1>14. b7 = b5 \o r6 /\ r6 \in Seq(Byte)
  <2>1. b5 \in Seq(Byte) /\ u \in Seq(Byte)
    BY <1>9 DEF Short
  <2>2. (b5 \o u) \o s = b5 \o (u \o s)
    BY <1>13, <2>1, Regroup
  <2>3. u \o s \in Seq(Byte)
    BY <1>13, <2>1, ConcatProperties
  <2> QED BY <1>13, <2>2, <2>3 DEF b6
<1> HIDE DEF r6, b7
<1>15. b7 = b4 \o r5 /\ r5 \in Seq(Byte)
  <2>1. b4 \in Seq(Byte) /\ m \in Seq(Byte) /\ r6 \in Seq(Byte)
    BY <1>10, <1>14 DEF Short
  <2>2. (b4 \o m) \o r6 = b4 \o (m \o r6)
    BY <2>1, Regroup, SMTT(30)
  <2>3. m \o r6 \in Seq(Byte)
    BY <2>1, ConcatProperties
  <2> QED BY <1>14, <2>2, <2>3 DEF b5
<1> HIDE DEF r5
<1>16. b7 = b3 \o r4 /\ r4 \in Seq(Byte)
  <2>1. b3 \in Seq(Byte) /\ t \in Seq(Byte) /\ r5 \in Seq(Byte)
    BY <1>11, <1>15 DEF Short
  <2>2. (b3 \o t) \o r5 = b3 \o (t \o r5)
    BY <2>1, Regroup, SMTT(30)
  <2>3. t \o r5 \in Seq(Byte)
    BY <2>1, ConcatProperties
  <2> QED BY <1>15, <2>2, <2>3 DEF b4
<1> HIDE DEF r4
<1>17. b7 = f \o r3
  <2>1. f \in Seq(Byte) /\ c \in Seq(Byte) /\ r4 \in Seq(Byte)
    BY <1>12, <1>16 DEF Short
  <2>2. (f \o c) \o r4 = f \o (c \o r4)
    BY <2>1, Regroup
  <2> QED BY <1>16, <2>2 DEF b3
<1>18. FromClient(info) = r3
  BY DEF FromClient, FromTopic, FromMessage, FromUser, FromPassword, r4, r5, r6, r7, f, c, t, m, u, s
<1>19. ConnectBody(info) = ConnectHead(info) \o FromClient(info)
  BY <1>2, <1>17, <1>18 DEF b7, b6, b5, b4, b3, f, c, t, m, u, s
<1> QED BY <1>8, <1>9, <1>10, <1>11, <1>12, <1>19 DEF f, c, t, m, u, s

LEMMA HeadBytes ==
    ASSUME NEW info \in Infos, Short(ConnectHead(info))
    PROVE  LET f == ConnectHead(info)
           IN  /\ Len(f) = 12 /\ f[10] = ConnectFlags(info)
               /\ 256 * f[11] + f[12] = info.keepalive
<1> DEFINE t == <<77, 81, 73, 115, 100, 112>>
           e == <<3, ConnectFlags(info)>>
           w == Word(info.keepalive)
           a == Protocol
           b == a \o e
           f == b \o w
           N == Nat
<1>1. /\ t \in Seq(Byte) /\ Len(t) = 6
  BY DEF Byte
<1>2. a \in Seq(N) /\ Len(a) = 8
  <2> HIDE DEF t
  <2>1. append_string(t) \in Seq(Nat) /\ Len(append_string(t)) = 2 + Len(t)
    BY <1>1, StringType
  <2>2. Len(append_string(t)) = 8
    BY <1>1, <2>1
  <2> QED BY <2>1, <2>2 DEF Protocol, t
<1>3. e \in Seq(N) /\ Len(e) = 2 /\ e[2] = ConnectFlags(info)
  <2>1. ConnectFlags(info) \in Nat
    BY FlagsByte, ByteNat
  <2> QED BY <2>1
<1>4. w \in Seq(N) /\ Len(w) = 2 /\ w[1] * 256 + w[2] = info.keepalive
      /\ w[1] \in Nat /\ w[2] \in Nat
  <2>1. info.keepalive \in Nat /\ info.keepalive <= UINT16_MAX
    BY InfoTexts, Max16
  <2>2. w \in Seq(Byte) /\ Len(w) = 2 /\ w[1] * 256 + w[2] = info.keepalive
    BY <2>1, WordType
  <2> HIDE DEF w
  <2>3. w[1] \in Nat /\ w[2] \in Nat
    <3>1. 1 \in 1 .. Len(w) /\ 2 \in 1 .. Len(w)
      BY <2>2
    <3>2. w[1] \in Byte /\ w[2] \in Byte
      BY <2>2, <3>1, ElementOfSeq
    <3> QED BY <3>2, ByteNat
  <2>4. Writable(w)
    BY <2>2, WritableBytes
  <2> QED BY <2>2, <2>3, <2>4 DEF Writable
<1>5. ConnectHead(info) = f
  BY DEF ConnectHead
<1> HIDE DEF t, e, w, a, N
<1>6. b \in Seq(N) /\ Len(b) = 10 /\ b[10] = ConnectFlags(info)
  <2>1. b \in Seq(N) /\ Len(b) = Len(a) + Len(e)
    BY <1>2, <1>3, Joined
  <2>2. \A i \in 1 .. Len(e) : b[Len(a) + i] = e[i]
    <3>1. a \in Seq(N) /\ e \in Seq(N) /\ b = a \o e
      BY <1>2, <1>3
    <3> HIDE DEF b, f
    <3> QED BY <3>1, Behind1
  <2> HIDE DEF b
  <2>3. 2 \in 1 .. Len(e) /\ Len(a) + 2 = 10 /\ Len(a) + Len(e) = 10
    BY <1>2, <1>3
  <2>4. b[Len(a) + 2] = e[2]
    BY <2>2, <2>3
  <2> QED BY <1>3, <2>1, <2>3, <2>4
<1> HIDE DEF b
<1>7. f \in Seq(N) /\ Len(f) = 12 /\ f[10] = ConnectFlags(info) /\ f[11] = w[1] /\ f[12] = w[2]
  <2>1. f \in Seq(N) /\ Len(f) = Len(b) + Len(w)
    BY <1>4, <1>6, Joined, ZenonT(60)
  <2>2. \A i \in 1 .. Len(w) : f[Len(b) + i] = w[i]
    <3>1. b \in Seq(N) /\ w \in Seq(N) /\ f = b \o w
      BY <1>4, <1>6
    <3> HIDE DEF f
    <3> QED BY <3>1, Behind1
  <2>3. 10 \in 1 .. Len(b)
    BY <1>6
  <2>4. f[10] = b[10]
    <3>1. b \in Seq(N) /\ w \in Seq(N)
      BY <1>4, <1>6
    <3> QED BY <2>3, <3>1, Longer
  <2> HIDE DEF f
  <2>5. /\ 1 \in 1 .. Len(w) /\ 2 \in 1 .. Len(w) /\ Len(b) + 1 = 11 /\ Len(b) + 2 = 12
        /\ Len(b) + Len(w) = 12
    BY <1>4, <1>6
  <2>6. f[Len(b) + 1] = w[1] /\ f[Len(b) + 2] = w[2]
    BY <2>2, <2>5
  <2> QED BY <1>6, <2>1, <2>4, <2>5, <2>6
<1> HIDE DEF f
<1>8. 256 * f[11] + f[12] = info.keepalive
  <2>1. 256 * w[1] + w[2] = info.keepalive
    BY <1>4
  <2> QED BY <1>7, <2>1
<1> QED BY <1>5, <1>7, <1>8

\* A client without a last will has none of its parts.
PlainWill(info) ==
    info.will_topic = <<>> => info.will_message = <<>> /\ info.will_qos = 0 /\ ~info.will_retain

LEMMA InfoFlags ==
    ASSUME NEW info \in Infos, PlainWill(info), NEW f, f = ConnectFlags(info)
    PROVE  /\ Bit(f, 2) = info.clean_session
           /\ info.will_topic # <<>> <=> Bit(f, 4)
           /\ (f \div 8) % 4 = info.will_qos
           /\ Bit(f, 32) = info.will_retain
           /\ info.password # <<>> <=> Bit(f, 64)
           /\ info.username # <<>> <=> Bit(f, 128)
<1>1. /\ info.clean_session \in BOOLEAN /\ info.will_retain \in BOOLEAN
      /\ info.will_qos \in 0 .. 3
  BY TextAssumption DEF ConnectInfo
<1> DEFINE q == info.will_qos
           c == Flag(2, info.clean_session)
           r == Flag(32, info.will_retain)
           w == Flag(4 + 8 * q + r, info.will_topic # <<>>)
           u == Flag(128, info.username # <<>>)
           s == Flag(64, info.password # <<>>)
<1>2. /\ c \in {0, 2} /\ (c = 2 <=> info.clean_session)
      /\ r \in {0, 32} /\ (r = 32 <=> info.will_retain)
      /\ u \in {0, 128} /\ (u = 128 <=> info.username # <<>>)
      /\ s \in {0, 64} /\ (s = 64 <=> info.password # <<>>)
  BY DEF Flag
<1>3. w \in {0, 4 + 8 * q + r} /\ (w # 0 <=> info.will_topic # <<>>)
  <2>1. 4 + 8 * q + r # 0
    <3> HIDE DEF r
    <3> QED BY <1>1, <1>2
  <2> QED BY <2>1 DEF Flag
<1>4. f = ((c + w) + u) + s
  BY DEF ConnectFlags
<1>5. q \in 0 .. 3
  BY <1>1
<1> HIDE DEF c, r, w, u, s, q
<1>6. /\ Bit(f, 2) <=> c = 2
      /\ Bit(f, 4) <=> w # 0
      /\ w # 0 => (f \div 8) % 4 = q
      /\ w = 0 => (f \div 8) % 4 = 0
      /\ Bit(f, 32) <=> w # 0 /\ r = 32
      /\ Bit(f, 64) <=> s = 64
      /\ Bit(f, 128) <=> u = 128
  <2>1. /\ c \in {0, 2} /\ r \in {0, 32} /\ u \in {0, 128} /\ s \in {0, 64}
        /\ w \in {0, 4 + 8 * q + r}
    BY <1>2, <1>3
  <2> QED BY <1>4, <1>5, <2>1, FlagsRead
<1>7. Bit(f, 2) \in BOOLEAN /\ Bit(f, 32) \in BOOLEAN
  BY DEF Bit
<1>8. Bit(f, 2) = info.clean_session
  BY <1>1, <1>2, <1>6, <1>7
<1>9. Bit(f, 32) = info.will_retain
  BY <1>1, <1>2, <1>3, <1>6, <1>7 DEF PlainWill
<1>10. (f \div 8) % 4 = info.will_qos
  BY <1>3, <1>6 DEF PlainWill, q
<1> QED BY <1>2, <1>3, <1>6, <1>8, <1>9, <1>10

LEMMA ConnectReads ==
    ASSUME NEW info \in Infos, PlainWill(info), NEW p, p = mqtt_msg_connect(info), p # <<>>
    PROVE  /\ mqtt_get_total_length(p) = Len(p)
           /\ Read(p) = [type |-> "CONNECT", info |-> info]
<1> DEFINE body == ConnectBody(info)
           head == ConnectHead(info)
           start == FromClient(info)
           f == ConnectFlags(info)
<1>1. PacketOf(p, 16, body)
  <2>1. CONNECT * 16 + 0 * 2 + 0 = 16 /\ 16 \in Byte
    BY FirstBytes
  <2>2. Writable(body)
    BY ConnectWritable
  <2>3. p = fini_message(CONNECT, 0, 0, body)
    BY ConnectParts
  <2> HIDE DEF body
  <2> QED BY <2>1, <2>2, <2>3, Built
<1>2. /\ Short(head) /\ Short(append_string(info.client_id))
      /\ Short(WillTopic(info)) /\ Short(WillMessage(info))
      /\ Short(User(info)) /\ Short(Password(info))
      /\ body = head \o start
  <2>1. Len(ConnectBody(info)) < 128 * 128
    BY <1>1 DEF PacketOf
  <2> QED BY <2>1, ConnectShort
<1>3. /\ info.client_id \in Seq(Byte)
      /\ info.will_topic \in Seq(Byte) /\ info.will_message \in Seq(Byte)
      /\ info.username \in Seq(Byte) /\ info.password \in Seq(Byte)
  BY InfoTexts
<1>4. /\ Len(info.will_topic) < 128 * 128 /\ Len(info.will_message) < 128 * 128
      /\ Len(info.username) < 128 * 128 /\ Len(info.password) < 128 * 128
  <2>1. info.will_topic = <<>> => info.will_message = <<>>
    BY DEF PlainWill
  <2> QED BY <1>2, <1>3, <2>1, OptionalShort, ZenonT(60) DEF Short, WillTopic, WillMessage, User, Password
<1>5. Len(info.client_id) < 128 * 128
  <2>1. /\ Len(append_string(info.client_id)) = 2 + Len(info.client_id)
        /\ Len(info.client_id) \in Nat
    BY <1>3, StringType
  <2> QED BY <1>2, <2>1 DEF Short
<1>6. /\ <<>> \in Seq(Byte) /\ FromPassword(info) \in Seq(Byte) /\ FromUser(info) \in Seq(Byte)
      /\ FromMessage(info) \in Seq(Byte) /\ FromTopic(info) \in Seq(Byte)
      /\ FromClient(info) \in Seq(Byte)
  <2>0. <<>> \in Seq(Byte)
    BY EmptySeq
  <2>1. FromPassword(info) \in Seq(Byte)
    BY <1>2, <2>0, Joined DEF FromPassword, Short
  <2>2. FromUser(info) \in Seq(Byte)
    BY <1>2, <2>1, Joined DEF FromUser, Short
  <2>3. FromMessage(info) \in Seq(Byte)
    BY <1>2, <2>2, Joined DEF FromMessage, Short
  <2>4. FromTopic(info) \in Seq(Byte)
    BY <1>2, <2>3, Joined DEF FromTopic, Short
  <2>5. FromClient(info) \in Seq(Byte)
    BY <1>2, <2>4, Joined DEF FromClient, Short
  <2> QED BY <2>0, <2>1, <2>2, <2>3, <2>4, <2>5
<1>7. /\ Bit(f, 2) = info.clean_session
      /\ info.will_topic # <<>> <=> Bit(f, 4)
      /\ (f \div 8) % 4 = info.will_qos
      /\ Bit(f, 32) = info.will_retain
      /\ info.password # <<>> <=> Bit(f, 64)
      /\ info.username # <<>> <=> Bit(f, 128)
  BY InfoFlags
<1>8. Len(head) = 12 /\ head[10] = f /\ 256 * head[11] + head[12] = info.keepalive
  BY <1>2, HeadBytes
<1> HIDE DEF body, head, start, f
<1>9. body[10] = f /\ 256 * body[11] + body[12] = info.keepalive /\ SubSeq(body, 13, Len(body)) = start
  <2>1. head \in Seq(Byte) /\ start \in Seq(Byte) /\ body = head \o start
    BY <1>2, <1>6 DEF Short, start
  <2>2. SubSeq(body, Len(head) + 1, Len(body)) = start
    BY <2>1, Behind1
  <2>3. 10 \in 1 .. Len(head) /\ 11 \in 1 .. Len(head) /\ 12 \in 1 .. Len(head)
        /\ Len(head) + 1 = 13
    BY <1>8
  <2>4. \A i \in 1 .. Len(head) : body[i] = head[i]
    BY <2>1, Longer
  <2>5. body[10] = head[10] /\ body[11] = head[11] /\ body[12] = head[12]
    BY <2>3, <2>4
  <2> QED BY <1>8, <2>2, <2>3, <2>5
<1>10. Body(p) = body /\ p[1] = 16
  BY <1>1 DEF PacketOf
<1>11. Start(p) = FromClient(info) /\ Body(p)[10] = f
  BY <1>9, <1>10 DEF Start, start
<1>12. Text(Start(p)) = info.client_id /\ Behind(Start(p)) = FromTopic(info)
  <2>1. Begins(FromClient(info), info.client_id, FromTopic(info))
    BY <1>3, <1>5, <1>6, StringBegins DEF FromClient
  <2> QED BY <1>11, <2>1 DEF Begins
<1>13. TopicRead(p).is = info.will_topic /\ TopicRead(p).then = FromMessage(info)
  <2>1. TopicRead(p) = OptRead(f, 4, FromTopic(info))
    BY <1>11, <1>12 DEF TopicRead
  <2> DEFINE present == info.will_topic # <<>>
  <2>2. FromTopic(info) = Optional(present, info.will_topic) \o FromMessage(info)
    BY DEF FromTopic, WillTopic
  <2>3. (~present => info.will_topic = <<>>) /\ (present <=> Bit(f, 4))
    BY <1>7
  <2>4. info.will_topic \in Seq(Byte) /\ Len(info.will_topic) < 128 * 128 /\ FromMessage(info) \in Seq(Byte)
    BY <1>3, <1>4, <1>6
  <2> HIDE DEF present
  <2>5. First(FromTopic(info), present, info.will_topic, FromMessage(info))
    BY <2>2, <2>3, <2>4, Zenon DEF First
  <2>6. Taken(OptRead(f, 4, FromTopic(info)), info.will_topic, FromMessage(info))
    BY <2>3, <2>5, OptionalReads
  <2> QED BY <2>1, <2>6 DEF Taken
<1>14. MessageRead(p).is = info.will_message /\ MessageRead(p).then = FromUser(info)
  <2>1. MessageRead(p) = OptRead(f, 4, FromMessage(info))
    BY <1>11, <1>13 DEF MessageRead
  <2> DEFINE present == info.will_topic # <<>>
  <2>2. FromMessage(info) = Optional(present, info.will_message) \o FromUser(info)
    BY DEF FromMessage, WillMessage
  <2>3. (~present => info.will_message = <<>>) /\ (present <=> Bit(f, 4))
    BY <1>7 DEF PlainWill
  <2>4. info.will_message \in Seq(Byte) /\ Len(info.will_message) < 128 * 128 /\ FromUser(info) \in Seq(Byte)
    BY <1>3, <1>4, <1>6
  <2> HIDE DEF present
  <2>5. First(FromMessage(info), present, info.will_message, FromUser(info))
    BY <2>2, <2>3, <2>4, Zenon DEF First
  <2>6. Taken(OptRead(f, 4, FromMessage(info)), info.will_message, FromUser(info))
    BY <2>3, <2>5, OptionalReads
  <2> QED BY <2>1, <2>6 DEF Taken
<1>15. UserRead(p).is = info.username /\ UserRead(p).then = FromPassword(info)
  <2>1. UserRead(p) = OptRead(f, 128, FromUser(info))
    BY <1>11, <1>14 DEF UserRead
  <2> DEFINE present == info.username # <<>>
  <2>2. FromUser(info) = Optional(present, info.username) \o FromPassword(info)
    BY DEF FromUser, User
  <2>3. (~present => info.username = <<>>) /\ (present <=> Bit(f, 128))
    BY <1>7
  <2>4. info.username \in Seq(Byte) /\ Len(info.username) < 128 * 128 /\ FromPassword(info) \in Seq(Byte)
    BY <1>3, <1>4, <1>6
  <2> HIDE DEF present
  <2>5. First(FromUser(info), present, info.username, FromPassword(info))
    BY <2>2, <2>3, <2>4, Zenon DEF First
  <2>6. Taken(OptRead(f, 128, FromUser(info)), info.username, FromPassword(info))
    BY <2>3, <2>5, OptionalReads
  <2> QED BY <2>1, <2>6 DEF Taken
<1>16. PasswordRead(p).is = info.password
  <2>1. PasswordRead(p) = OptRead(f, 64, FromPassword(info))
    BY <1>11, <1>15 DEF PasswordRead
  <2> DEFINE present == info.password # <<>>
  <2>2. FromPassword(info) = Optional(present, info.password) \o <<>>
    BY DEF FromPassword, Password
  <2>3. (~present => info.password = <<>>) /\ (present <=> Bit(f, 64))
    BY <1>7
  <2>4. info.password \in Seq(Byte) /\ Len(info.password) < 128 * 128 /\ <<>> \in Seq(Byte)
    BY <1>3, <1>4, <1>6
  <2> HIDE DEF present
  <2>5. First(FromPassword(info), present, info.password, <<>>)
    BY <2>2, <2>3, <2>4, Zenon DEF First
  <2>6. Taken(OptRead(f, 64, FromPassword(info)), info.password, <<>>)
    BY <2>3, <2>5, OptionalReads
  <2> QED BY <2>1, <2>6 DEF Taken
<1>17. ReadConnect(p) = info
  <2>1. ReadConnect(p) =
             [client_id |-> info.client_id, username |-> info.username,
              password |-> info.password,
              will_topic |-> info.will_topic, will_message |-> info.will_message,
              will_qos |-> info.will_qos, will_retain |-> info.will_retain,
              clean_session |-> info.clean_session,
              keepalive |-> info.keepalive]
    BY <1>7, <1>9, <1>10, <1>11, <1>12, <1>13, <1>14, <1>15, <1>16, ConnectFields
  <2>2. info \in ConnectInfo
    BY TextAssumption
  <2> QED BY <2>1, <2>2 DEF ConnectInfo
<1>18. Read(p) = [type |-> "CONNECT", info |-> info]
  <2>1. p[1] \div 16 = CONNECT /\ CONNECT # PUBLISH /\ CONNECT # SUBSCRIBE /\ CONNECT # PINGREQ
    BY <1>10 DEF CONNECT, PUBLISH, SUBSCRIBE, PINGREQ
  <2> QED BY <1>17, <2>1 DEF Read
<1> QED BY <1>1, <1>18 DEF PacketOf

\* What the program subscribes to is short, and its clients either have a
\* last will or none of its parts.
ShortTopics == \A topic \in Topics : 5 + Len(topic) < 128
PlainWills == \A info \in Infos : PlainWill(info)

LEMMA ReadBackStep ==
    ASSUME ShortTopics, PlainWills, IdType, IdType', PacketsReadBack, [Next]_vars
    PROVE  PacketsReadBack'
<1>1. CASE UNCHANGED building
  BY <1>1 DEF building, PacketsReadBack
<1>2. ASSUME NEW topic \in Topics, NEW data \in Datas, NEW qos \in {0, 1},
             NEW retain \in {0, 1}, qos = 1 => data # <<>>, Publish(topic, data, qos, retain)
      PROVE  PacketsReadBack'
  <2> DEFINE id == IF qos > 0 THEN message_id' ELSE 0
  <2>1. id \in 0 .. UINT16_MAX /\ (qos = 0 => id = 0)
    BY Max16 DEF IdType
  <2>2. /\ packet' = mqtt_msg_publish(topic, data, qos, retain, id)
        /\ asked' = [type |-> "PUBLISH", topic |-> topic, qos |-> qos,
                     retain |-> retain, id |-> id, data |-> data]
    BY <1>2 DEF Publish
  <2> HIDE DEF id
  <2>3. packet' # <<>> =>
          /\ mqtt_get_total_length(packet') = Len(packet')
          /\ Read(packet') = asked'
          /\ mqtt_get_id(packet') = asked'.id
    BY <1>2, <2>1, <2>2, PublishReads
  <2> QED BY <2>3 DEF PacketsReadBack
<1>3. ASSUME NEW topic \in Topics, Subscribe(topic) PROVE PacketsReadBack'
  <2>1. /\ packet' = mqtt_msg_subscribe(topic, 0, message_id')
        /\ asked' = [type |-> "SUBSCRIBE", topic |-> topic, qos |-> 0, id |-> message_id']
    BY <1>3 DEF Subscribe
  <2>2. 5 + Len(topic) < 128
    BY DEF ShortTopics
  <2>3. message_id' \in 0 .. UINT16_MAX
    BY DEF IdType
  <2>4. packet' # <<>> =>
          /\ mqtt_get_total_length(packet') = Len(packet')
          /\ Read(packet') = asked'
          /\ mqtt_get_id(packet') = asked'.id
    BY <2>1, <2>2, <2>3, SubscribeReads
  <2> QED BY <2>4 DEF PacketsReadBack
<1>4. ASSUME NEW info \in Infos, Connect(info) PROVE PacketsReadBack'
  <2>1. packet' = mqtt_msg_connect(info) /\ asked' = [type |-> "CONNECT", info |-> info]
    BY <1>4 DEF Connect
  <2>2. PlainWill(info)
    BY DEF PlainWills
  <2>3. packet' # <<>> =>
          mqtt_get_total_length(packet') = Len(packet') /\ Read(packet') = asked'
    BY <2>1, <2>2, ConnectReads
  <2>4. asked'.type \notin {"PUBLISH", "SUBSCRIBE"}
    BY <2>1
  <2> QED BY <2>3, <2>4 DEF PacketsReadBack
<1>5. CASE Ping
  <2>1. packet' = mqtt_msg_pingreq /\ asked' = [type |-> "PINGREQ"]
    BY <1>5 DEF Ping
  <2>2. packet' # <<>> =>
          mqtt_get_total_length(packet') = Len(packet') /\ Read(packet') = asked'
    BY <2>1, PingReads
  <2>3. asked'.type \notin {"PUBLISH", "SUBSCRIBE"}
    BY <2>1
  <2> QED BY <2>2, <2>3 DEF PacketsReadBack
<1>6. ASSUME NEW messages, NEW answer, Receive(messages, answer) PROVE UNCHANGED building
  BY <1>6 DEF Receive
<1>7. ASSUME ReadPacket PROVE UNCHANGED building
  BY <1>7 DEF ReadPacket
<1>8. ASSUME UNCHANGED vars PROVE UNCHANGED building
  BY <1>8 DEF vars
<1>9. 0 \in {0, 1} /\ 1 \in {0, 1} /\ 0 # 1
  OBVIOUS
<1>10. ASSUME Build PROVE PacketsReadBack'
  BY <1>2, <1>3, <1>4, <1>5, <1>9, <1>10 DEF Build
<1> QED BY <1>1, <1>6, <1>7, <1>8, <1>10 DEF Next

\* Every packet the client builds, whatever its texts, says to a broker that
\* reads by the standard what it was to say, and to MQTT_Task what type and
\* id it has (mqtt_msg.c:105-126, 264-290, 307-442; mqtt.c:454-455).
THEOREM PacketsUnderstood == ShortTopics /\ PlainWills /\ Spec => []PacketsReadBack
<1> SUFFICES ASSUME ShortTopics, PlainWills PROVE Spec => []PacketsReadBack
  OBVIOUS
<1> DEFINE Inv == IdType /\ PacketType /\ PacketsReadBack
<1>1. Init => Inv
  <2>1. Init => packet = <<>>
    BY DEF Init
  <2> QED BY <2>1, TypeInit DEF PacketsReadBack
<1>2. Inv /\ [Next]_vars => Inv'
  BY TypeStep, ReadBackStep
<1>3. Inv => PacketsReadBack
  OBVIOUS
<1> HIDE DEF Inv
<1> QED BY <1>1, <1>2, <1>3, PTL DEF Spec

=============================================================================
