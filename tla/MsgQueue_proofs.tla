--------------------------- MODULE MsgQueue_proofs ---------------------------
(***************************************************************************)
(* For every ring size and every set of packets that fit in it the message *)
(* queue is PacketQueue.                                                   *)
(***************************************************************************)
EXTENDS MsgQueue, SequenceTheorems, WellFoundedInduction, TLAPS

(***************************************************************************)
(* Induction, as statements about sets.                                    *)
(***************************************************************************)

\* A set with 0 that is closed under + 1 has every natural number.
LEMMA NatInd == ASSUME NEW T, 0 \in T, \A n \in Nat : n \in T => n + 1 \in T
                PROVE  \A n \in Nat : n \in T
<1> DEFINE U == Nat \ T
<1> SUFFICES ASSUME U # {} PROVE FALSE
  OBVIOUS
<1>1. PICK x \in U : \A y \in U : <<y, x>> \notin OpToRel(<, Nat)
  BY WFMin, NatLessThanWellFounded
<1>2. x \in Nat /\ x # 0 /\ x - 1 \in Nat
  OBVIOUS
<1>3. <<x - 1, x>> \in OpToRel(<, Nat)
  BY <1>2 DEF OpToRel
<1>4. x - 1 \in T
  BY <1>1, <1>2, <1>3
<1> QED
  BY <1>2, <1>4

\* A set with the empty sequence that is closed under Append has every
\* sequence.
LEMMA SeqInd == ASSUME NEW S, NEW T, <<>> \in T,
                       \A s \in Seq(S), e \in S : s \in T => Append(s, e) \in T
                PROVE  \A s \in Seq(S) : s \in T
<1> DEFINE L == {n \in Nat : \A s \in Seq(S) : Len(s) = n => s \in T}
<1>1. 0 \in L
  BY EmptySeq
<1>2. ASSUME NEW n \in Nat, n \in L PROVE n + 1 \in L
  <2> SUFFICES ASSUME NEW s \in Seq(S), Len(s) = n + 1 PROVE s \in T
    OBVIOUS
  <2>1. PICK t \in Seq(S), e \in S : s = Append(t, e)
    BY EmptySeq, SequenceEmptyOrAppend
  <2>2. Len(t) = n
    BY <2>1, AppendProperties, LenProperties
  <2> QED BY <1>2, <2>1, <2>2
<1> HIDE DEF L
<1>3. \A n \in Nat : n \in L
  BY <1>1, <1>2, NatInd
<1> QED BY <1>3, LenProperties DEF L

(***************************************************************************)
(* Scan, a fold, runs byte by byte.                                        *)
(***************************************************************************)

\* The recursion that FoldLeft runs over the sets of indices.
IsScan(iter, I, base, seq) ==
  iter = [s \in SUBSET I |->
            IF s = {} THEN base ELSE ScanByte(iter[s \ {Max(s)}], seq[Max(s)])]

LEMMA ScanDef ==
  ASSUME NEW base, NEW seq
  PROVE  Scan(base, seq) =
           (CHOOSE iter : IsScan(iter, DOMAIN seq, base, seq))[DOMAIN seq]
BY DEF Scan, FoldLeft, MapThenFoldSet, IsScan

LEMMA MaxOf ==
  ASSUME NEW n \in Nat, NEW s \in SUBSET (1 .. n + 1), n + 1 \in s
  PROVE  Max(s) = n + 1
<1>1. \E x \in s : \A y \in s : x >= y
  OBVIOUS
<1>2. Max(s) \in s /\ \A y \in s : Max(s) >= y
  BY <1>1 DEF Max
<1>3. Max(s) \in 1 .. n + 1 /\ Max(s) >= n + 1
  BY <1>2
<1> QED BY <1>3

\* The recursion has a solution ...
LEMMA ScanExists ==
  ASSUME NEW base, NEW seq, NEW n \in Nat
  PROVE  \E iter : IsScan(iter, 1 .. n, base, seq)
<1> DEFINE T == {k \in Nat : \E iter : IsScan(iter, 1 .. k, base, seq)}
<1>1. 0 \in T
  <2> DEFINE it == [s \in SUBSET (1 .. 0) |-> base]
  <2>1. \A s \in SUBSET (1 .. 0) : s = {}
    OBVIOUS
  <2>2. it = [s \in SUBSET (1 .. 0) |->
            IF s = {} THEN base ELSE ScanByte(it[s \ {Max(s)}], seq[Max(s)])]
    BY <2>1
  <2> QED BY <2>2 DEF IsScan
<1>2. ASSUME NEW k \in Nat, k \in T PROVE k + 1 \in T
  <2>1. PICK h : IsScan(h, 1 .. k, base, seq)
    BY <1>2
  <2> DEFINE g == [s \in SUBSET (1 .. k + 1) |->
                     IF k + 1 \in s THEN ScanByte(h[s \ {k + 1}], seq[k + 1])
                     ELSE h[s]]
  <2>2. ASSUME NEW s \in SUBSET (1 .. k + 1)
        PROVE  g[s] = IF s = {} THEN base
                      ELSE ScanByte(g[s \ {Max(s)}], seq[Max(s)])
    <3>1. CASE k + 1 \in s
      <4>1. Max(s) = k + 1
        BY <3>1, MaxOf
      <4>2. s \ {k + 1} \in SUBSET (1 .. k + 1) /\ k + 1 \notin s \ {k + 1}
        OBVIOUS
      <4>3. g[s \ {k + 1}] = h[s \ {k + 1}]
        BY <4>2
      <4> QED BY <3>1, <4>1, <4>3
    <3>2. CASE k + 1 \notin s
      <4>1. s \in SUBSET (1 .. k)
        BY <3>2
      <4>2. h[s] = IF s = {} THEN base ELSE ScanByte(h[s \ {Max(s)}], seq[Max(s)])
        BY <4>1, <2>1 DEF IsScan
      <4>3. s \ {Max(s)} \in SUBSET (1 .. k + 1) /\ k + 1 \notin s \ {Max(s)}
        BY <3>2, Zenon
      <4>4. g[s] = h[s] /\ g[s \ {Max(s)}] = h[s \ {Max(s)}]
        BY <3>2, <4>3
      <4> QED BY <4>2, <4>4
    <3> QED BY <3>1, <3>2
  <2>3. g = [s \in SUBSET (1 .. k + 1) |-> g[s]]
    OBVIOUS
  <2> HIDE DEF g
  <2>4. g = [s \in SUBSET (1 .. k + 1) |->
            IF s = {} THEN base ELSE ScanByte(g[s \ {Max(s)}], seq[Max(s)])]
    BY <2>2, <2>3
  <2>5. IsScan(g, 1 .. k + 1, base, seq)
    BY <2>4 DEF IsScan
  <2> QED BY <2>5
<1> HIDE DEF T
<1>3. n \in T
  BY <1>1, <1>2, NatInd
<1> QED BY <1>3 DEF T

\* ... and the bytes behind do not change what it says of those before.
LEMMA ScanUnique ==
  ASSUME NEW base, NEW v, NEW w, NEW n \in Nat, NEW m \in Nat, n <= m,
         \A i \in 1 .. n : v[i] = w[i],
         NEW g, IsScan(g, 1 .. n, base, v), NEW h, IsScan(h, 1 .. m, base, w)
  PROVE  g[1 .. n] = h[1 .. n]
<1> DEFINE T == {k \in Nat : k <= n => \A s \in SUBSET (1 .. k) : g[s] = h[s]}
<1>1. 0 \in T
  BY DEF IsScan
<1>2. ASSUME NEW k \in Nat, k \in T PROVE k + 1 \in T
  <2> SUFFICES ASSUME k + 1 <= n, NEW s \in SUBSET (1 .. k + 1)
               PROVE  g[s] = h[s]
    OBVIOUS
  <2>1. CASE k + 1 \in s
    <3>1. Max(s) = k + 1 /\ s \in SUBSET (1 .. n) /\ s \in SUBSET (1 .. m) /\ s # {}
      BY <2>1, MaxOf
    <3>2. s \ {k + 1} \in SUBSET (1 .. k)
      OBVIOUS
    <3>3. /\ g[s] = ScanByte(g[s \ {k + 1}], v[k + 1])
          /\ h[s] = ScanByte(h[s \ {k + 1}], w[k + 1])
      BY <3>1 DEF IsScan
    <3> QED BY <3>2, <3>3, <1>2
  <2>2. CASE k + 1 \notin s
    BY <2>2, <1>2
  <2> QED BY <2>1, <2>2
<1> HIDE DEF T
<1>3. n \in T
  BY <1>1, <1>2, NatInd
<1> QED BY <1>3 DEF T

\* No byte leaves the parser as it is.
LEMMA ScanEmpty == ASSUME NEW base PROVE Scan(base, <<>>) = base
<1>1. PICK g : IsScan(g, 1 .. 0, base, <<>>)
  BY ScanExists
<1>2. DOMAIN <<>> = 1 .. 0
  OBVIOUS
<1> DEFINE h == CHOOSE iter : IsScan(iter, 1 .. 0, base, <<>>)
<1>3. IsScan(h, 1 .. 0, base, <<>>) /\ Scan(base, <<>>) = h[1 .. 0]
  BY <1>1, <1>2, ScanDef
<1> HIDE DEF h
<1>4. 1 .. 0 = {}
  OBVIOUS
<1> QED BY <1>3, <1>4 DEF IsScan

\* One more byte is one more step of the parser.
LEMMA ScanAppend ==
  ASSUME NEW base, NEW w \in Seq(Byte), NEW v \in Byte
  PROVE  Scan(base, Append(w, v)) = ScanByte(Scan(base, w), v)
<1> DEFINE n == Len(w)
           x == Append(w, v)
           g == CHOOSE iter : IsScan(iter, 1 .. n, base, w)
           h == CHOOSE iter : IsScan(iter, 1 .. n + 1, base, x)
<1>1. n \in Nat /\ DOMAIN w = 1 .. n /\ DOMAIN x = 1 .. n + 1 /\ x[n + 1] = v
      /\ \A i \in 1 .. n : w[i] = x[i]
  OBVIOUS
<1> HIDE DEF n, x
<1>2. IsScan(g, 1 .. n, base, w) /\ IsScan(h, 1 .. n + 1, base, x)
  <2>1. n \in Nat /\ n + 1 \in Nat
    BY <1>1
  <2>2. \E iter : IsScan(iter, 1 .. n, base, w)
    BY <2>1, ScanExists
  <2>3. \E iter : IsScan(iter, 1 .. n + 1, base, x)
    BY <2>1, ScanExists
  <2> QED BY <2>2, <2>3, Zenon
<1>3. Scan(base, w) = g[1 .. n] /\ Scan(base, x) = h[1 .. n + 1]
  BY <1>1, ScanDef
<1> HIDE DEF g, h
<1>4. g[1 .. n] = h[1 .. n]
  BY <1>1, <1>2, ScanUnique
<1>5. Max(1 .. n + 1) = n + 1 /\ (1 .. n + 1) \ {n + 1} = 1 .. n /\ 1 .. n + 1 # {}
  BY <1>1, MaxOf
<1>6. h[1 .. n + 1] = ScanByte(h[1 .. n], v)
  <2>1. h[1 .. n + 1] = IF 1 .. n + 1 = {} THEN base
                        ELSE ScanByte(h[(1 .. n + 1) \ {Max(1 .. n + 1)}],
                                      x[Max(1 .. n + 1)])
    BY <1>2, Zenon DEF IsScan
  <2> QED BY <1>1, <1>5, <2>1, Zenon
<1> QED BY <1>3, <1>4, <1>6 DEF x

LEMMA ScanOne ==
  ASSUME NEW base, NEW u \in Byte
  PROVE  Scan(base, <<u>>) = ScanByte(base, u)
<1>1. <<u>> = Append(<<>>, u) /\ <<>> \in Seq(Byte)
  OBVIOUS
<1>2. Scan(base, Append(<<>>, u)) = ScanByte(Scan(base, <<>>), u)
  BY <1>1, ScanAppend, Zenon
<1> QED BY <1>1, <1>2, ScanEmpty, Zenon

LEMMA ScanTwo ==
  ASSUME NEW base, NEW u \in Byte, NEW v \in Byte
  PROVE  Scan(base, <<u, v>>) = ScanByte(ScanByte(base, u), v)
<1>1. <<u, v>> = Append(<<u>>, v) /\ <<u>> \in Seq(Byte)
  OBVIOUS
<1>2. Scan(base, Append(<<u>>, v)) = ScanByte(Scan(base, <<u>>), v)
  BY <1>1, ScanAppend, Zenon
<1> QED BY <1>1, <1>2, ScanOne, Zenon

\* The parser reads one run of bytes and then the other.
LEMMA ScanConcat ==
  ASSUME NEW base, NEW w \in Seq(Byte), NEW x \in Seq(Byte)
  PROVE  Scan(base, w \o x) = Scan(Scan(base, w), x)
<1> DEFINE T == {y \in Seq(Byte) : Scan(base, w \o y) = Scan(Scan(base, w), y)}
<1>1. <<>> \in T
  BY ScanEmpty, ConcatEmptySeq, EmptySeq
<1>2. ASSUME NEW y \in Seq(Byte), NEW v \in Byte, y \in T PROVE Append(y, v) \in T
  <2>1. w \o y \in Seq(Byte) /\ Append(y, v) \in Seq(Byte)
    OBVIOUS
  <2>2. w \o Append(y, v) = Append(w \o y, v)
    OBVIOUS
  <2>3. Scan(base, Append(w \o y, v)) = ScanByte(Scan(base, w \o y), v)
    BY <2>1, ScanAppend
  <2>4. Scan(Scan(base, w), Append(y, v)) = ScanByte(Scan(Scan(base, w), y), v)
    BY <2>1, ScanAppend
  <2> QED BY <1>2, <2>1, <2>2, <2>3, <2>4
<1> HIDE DEF T
<1>3. x \in T
  BY <1>1, <1>2, SeqInd
<1> QED BY <1>3 DEF T

(***************************************************************************)
(* The bytes of a frame.                                                   *)
(***************************************************************************)

\* The recursion of FlattenSeq over the first n sequences.
IsFlat(f, n, seqs) ==
  f = [i \in 1 .. n |-> IF i = 1 THEN seqs[i] ELSE f[i - 1] \o seqs[i]]

LEMMA FlattenDef ==
  ASSUME NEW seqs, Len(seqs) # 0
  PROVE  FlattenSeq(seqs) =
           (CHOOSE f : IsFlat(f, Len(seqs), seqs))[Len(seqs)]
BY DEF FlattenSeq, IsFlat

LEMMA FlattenExists ==
  ASSUME NEW seqs, NEW n \in Nat
  PROVE  \E f : IsFlat(f, n, seqs)
<1> DEFINE T == {k \in Nat : \E f : IsFlat(f, k, seqs)}
<1>1. 0 \in T
  <2> DEFINE f == [i \in 1 .. 0 |-> <<>>]
  <2>1. f = [i \in 1 .. 0 |-> IF i = 1 THEN seqs[i] ELSE f[i - 1] \o seqs[i]]
    OBVIOUS
  <2> QED BY <2>1 DEF IsFlat
<1>2. ASSUME NEW k \in Nat, k \in T PROVE k + 1 \in T
  <2>1. PICK f : IsFlat(f, k, seqs)
    BY <1>2
  <2> DEFINE g == [i \in 1 .. k + 1 |->
                     IF i <= k THEN f[i]
                     ELSE IF i = 1 THEN seqs[i] ELSE f[i - 1] \o seqs[i]]
  <2>2. ASSUME NEW i \in 1 .. k + 1
        PROVE  g[i] = IF i = 1 THEN seqs[i] ELSE g[i - 1] \o seqs[i]
    <3>1. i # 1 => i - 1 \in 1 .. k /\ g[i - 1] = f[i - 1]
      OBVIOUS
    <3>2. CASE i <= k
      <4>1. i \in 1 .. k
        BY <3>2
      <4>2. f[i] = IF i = 1 THEN seqs[i] ELSE f[i - 1] \o seqs[i]
        BY <2>1, <4>1 DEF IsFlat
      <4> QED BY <3>1, <3>2, <4>2
    <3>3. CASE ~(i <= k)
      BY <3>1, <3>3
    <3> QED BY <3>2, <3>3
  <2>3. g = [i \in 1 .. k + 1 |-> g[i]]
    OBVIOUS
  <2> HIDE DEF g
  <2>4. g = [i \in 1 .. k + 1 |-> IF i = 1 THEN seqs[i] ELSE g[i - 1] \o seqs[i]]
    BY <2>2, <2>3
  <2>5. IsFlat(g, k + 1, seqs)
    BY <2>4 DEF IsFlat
  <2> QED BY <2>5
<1> HIDE DEF T
<1>3. n \in T
  BY <1>1, <1>2, NatInd
<1> QED BY <1>3 DEF T

LEMMA FlattenUnique ==
  ASSUME NEW v, NEW w, NEW n \in Nat, NEW m \in Nat, n <= m,
         \A i \in 1 .. n : v[i] = w[i],
         NEW g, IsFlat(g, n, v), NEW h, IsFlat(h, m, w)
  PROVE  n # 0 => g[n] = h[n]
<1> DEFINE T == {k \in Nat : k \in 1 .. n => g[k] = h[k]}
<1>1. 0 \in T
  OBVIOUS
<1>2. ASSUME NEW k \in Nat, k \in T PROVE k + 1 \in T
  <2> SUFFICES ASSUME k + 1 \in 1 .. n PROVE g[k + 1] = h[k + 1]
    OBVIOUS
  <2>1. k + 1 \in 1 .. m /\ (k + 1) - 1 = k /\ v[k + 1] = w[k + 1]
        /\ (k + 1 # 1 => k \in 1 .. n)
    OBVIOUS
  <2>2. g[k + 1] = IF k + 1 = 1 THEN v[k + 1] ELSE g[k] \o v[k + 1]
    BY <2>1, ZenonT(60) DEF IsFlat
  <2>3. h[k + 1] = IF k + 1 = 1 THEN w[k + 1] ELSE h[k] \o w[k + 1]
    BY <2>1 DEF IsFlat
  <2> QED BY <1>2, <2>1, <2>2, <2>3
<1> HIDE DEF T
<1>3. \A k \in Nat : k \in T
  BY <1>1, <1>2, NatInd
<1> QED BY <1>3 DEF T

\* The sequence put last comes out last.
LEMMA FlattenLast ==
  ASSUME NEW v, NEW w, NEW n \in Nat, n # 0, Len(v) = n, Len(w) = n + 1,
         \A i \in 1 .. n : v[i] = w[i]
  PROVE  FlattenSeq(w) = FlattenSeq(v) \o w[n + 1]
<1> DEFINE g == CHOOSE f : IsFlat(f, n, v)
           h == CHOOSE f : IsFlat(f, n + 1, w)
<1>0. n + 1 \in Nat /\ n + 1 \in 1 .. n + 1 /\ n + 1 # 1 /\ (n + 1) - 1 = n
  OBVIOUS
<1>1. IsFlat(g, n, v) /\ IsFlat(h, n + 1, w)
  <2>1. \E f : IsFlat(f, n, v)
    BY FlattenExists
  <2>2. \E f : IsFlat(f, n + 1, w)
    BY <1>0, FlattenExists
  <2> QED BY <2>1, <2>2, Zenon
<1>2. FlattenSeq(w) = h[n + 1] /\ FlattenSeq(v) = g[n]
  BY FlattenDef
<1> HIDE DEF g, h
<1>3. h[n + 1] = h[n] \o w[n + 1]
  <2>1. h[n + 1] = IF n + 1 = 1 THEN w[n + 1] ELSE h[(n + 1) - 1] \o w[n + 1]
    BY <1>0, <1>1, Zenon DEF IsFlat
  <2> QED BY <1>0, <2>1
<1>4. g[n] = h[n]
  BY <1>1, FlattenUnique
<1> QED BY <1>2, <1>3, <1>4

LEMMA FlattenAppend ==
  ASSUME NEW S, NEW seqs \in Seq(Seq(S)), NEW x \in Seq(S)
  PROVE  FlattenSeq(Append(seqs, x)) = FlattenSeq(seqs) \o x
<1> DEFINE n == Len(seqs)
           all == Append(seqs, x)
<1>1. /\ n \in Nat /\ Len(all) = n + 1 /\ all[n + 1] = x
      /\ \A i \in 1 .. n : seqs[i] = all[i]
  OBVIOUS
<1>2. CASE n = 0
  <2>1. seqs = <<>> /\ all = <<x>>
    BY <1>2
  <2>2. FlattenSeq(<<>>) = <<>> /\ <<>> \o x = x
    BY DEF FlattenSeq
  <2>3. Len(<<x>>) # 0 /\ Len(<<x>>) = 1
    OBVIOUS
  <2>4. PICK f : IsFlat(f, 1, <<x>>)
    BY FlattenExists
  <2> DEFINE h == CHOOSE it : IsFlat(it, 1, <<x>>)
  <2>5. FlattenSeq(<<x>>) = h[1]
    BY <2>3, FlattenDef
  <2>6. IsFlat(h, 1, <<x>>)
    BY <2>4, Zenon
  <2> HIDE DEF h
  <2>7. h[1] = x
    BY <2>6 DEF IsFlat
  <2> QED BY <2>1, <2>2, <2>5, <2>7
<1>3. CASE n # 0
  <2> HIDE DEF n, all
  <2>1. FlattenSeq(all) = FlattenSeq(seqs) \o all[n + 1]
    BY <1>1, <1>3, FlattenLast DEF n
  <2> QED BY <1>1, <2>1 DEF all
<1> QED BY <1>2, <1>3

\* What a packet is between the marks of its frame.
Escapes(packet) == FlattenSeq([i \in DOMAIN packet |-> Escaped(packet[i])])

LEMMA Xor20OfMarks ==
  ASSUME NEW v \in Marks
  PROVE  Xor20(v) \in Byte /\ Xor20(v) \notin Marks /\ Xor20(Xor20(v)) = v /\ Esc \in Byte
<1>1. v \in {125, 126, 127} /\ Marks = {125, 126, 127}
  BY DEF Marks, Esc, Begin, End
<1>2. v \div 32 = 3 /\ (v - 32) \div 32 = 2 /\ 3 % 2 = 1 /\ 2 % 2 = 0
  BY <1>1
<1>3. Xor20(v) = v - 32
  BY <1>2 DEF Xor20
<1>4. Xor20(v - 32) = v
  BY <1>1, <1>2 DEF Xor20
<1> QED BY <1>1, <1>3, <1>4 DEF Byte, Esc

LEMMA EscapedBytes ==
  ASSUME NEW v \in Byte
  PROVE  /\ Escaped(v) \in Seq(Byte)
         /\ Len(Escaped(v)) \in 1 .. 2
         /\ \A i \in 1 .. Len(Escaped(v)) : Escaped(v)[i] \notin {Begin, End}
<1>1. CASE v \in Marks
  <2>1. Escaped(v) = <<Esc, Xor20(v)>> /\ Esc \notin {Begin, End} /\ {Begin, End} \subseteq Marks
    BY <1>1 DEF Escaped, Marks, Esc, Begin, End
  <2>2. Xor20(v) \in Byte /\ Esc \in Byte /\ Xor20(v) \notin Marks
    BY <1>1, Xor20OfMarks
  <2> QED BY <2>1, <2>2
<1>2. CASE v \notin Marks
  BY <1>2 DEF Escaped, Marks
<1> QED BY <1>1, <1>2

LEMMA EscapesAppend ==
  ASSUME NEW w \in Seq(Byte), NEW v \in Byte
  PROVE  Escapes(Append(w, v)) = Escapes(w) \o Escaped(v)
<1> DEFINE s == [i \in DOMAIN w |-> Escaped(w[i])]
           t == [i \in DOMAIN Append(w, v) |-> Escaped(Append(w, v)[i])]
<1>1. \A i \in 1 .. Len(w) : Escaped(w[i]) \in Seq(Byte)
  BY EscapedBytes, ElementOfSeq
<1>2. s \in Seq(Seq(Byte)) /\ Len(s) = Len(w) /\ Escaped(v) \in Seq(Byte)
  <2>1. s \in [1 .. Len(w) -> Seq(Byte)]
    BY <1>1
  <2> QED BY <2>1, EscapedBytes
<1>3. DOMAIN t = 1 .. Len(w) + 1 /\ \A i \in 1 .. Len(w) + 1 :
            t[i] = IF i = Len(w) + 1 THEN Escaped(v) ELSE s[i]
  OBVIOUS
<1>4. t \in Seq(Seq(Byte)) /\ Len(t) = Len(w) + 1
  <2>1. \A i \in 1 .. Len(w) + 1 : t[i] \in Seq(Byte)
    BY <1>1, <1>2, <1>3
  <2> QED BY <1>3, <2>1
<1>5. Append(s, Escaped(v)) \in Seq(Seq(Byte)) /\ Len(Append(s, Escaped(v))) = Len(w) + 1
      /\ \A i \in 1 .. Len(w) + 1 :
            Append(s, Escaped(v))[i] = IF i = Len(w) + 1 THEN Escaped(v) ELSE s[i]
  BY <1>2, AppendProperties
<1> HIDE DEF s, t
<1>6. t = Append(s, Escaped(v))
  BY <1>3, <1>4, <1>5, SeqEqual
<1>7. FlattenSeq(Append(s, Escaped(v))) = FlattenSeq(s) \o Escaped(v)
  BY <1>2, FlattenAppend
<1> QED BY <1>6, <1>7 DEF Escapes, s, t

LEMMA EscapesEmpty == Escapes(<<>>) = <<>>
<1>1. [i \in DOMAIN <<>> |-> Escaped(<<>>[i])] = <<>>
  OBVIOUS
<1>2. FlattenSeq(<<>>) = <<>>
  BY DEF FlattenSeq
<1> QED BY <1>1, <1>2 DEF Escapes

(***************************************************************************)
(* What the parser makes of bytes, and of a frame.                         *)
(***************************************************************************)

State(d, e, b, f) ==
    [parser |-> [data |-> d, isEsc |-> e, isBegin |-> b], found |-> f]

ScanState == [parser : [data : Seq(Byte), isEsc : BOOLEAN, isBegin : BOOLEAN],
              found : Seq(Seq(Byte))]

LEMMA StateType ==
  ASSUME NEW d \in Seq(Byte), NEW e \in BOOLEAN, NEW b \in BOOLEAN,
         NEW f \in Seq(Seq(Byte))
  PROVE  State(d, e, b, f) \in ScanState
BY DEF State, ScanState

LEMMA StateParts ==
  ASSUME NEW s \in ScanState
  PROVE  /\ s.parser.data \in Seq(Byte)
         /\ s.parser.isEsc \in BOOLEAN
         /\ s.parser.isBegin \in BOOLEAN
         /\ s.found \in Seq(Seq(Byte))
         /\ s = State(s.parser.data, s.parser.isEsc, s.parser.isBegin, s.found)
BY DEF State, ScanState

LEMMA StartType ==
  ASSUME NEW b \in BOOLEAN
  PROVE  Start(b) \in ScanState /\ Start(b).found = <<>>
<1>1. Start(b) = State(<<>>, FALSE, b, <<>>)
  BY DEF Start, PROTO_Init, State
<1>2. Start(b) \in ScanState
  BY <1>1, StateType, EmptySeq
<1> QED BY <1>2 DEF Start

\* The branches of PROTO_ParseByte.
LEMMA ReadEsc ==
  ASSUME NEW d, NEW e, NEW b, NEW f
  PROVE  ScanByte(State(d, e, b, f), Esc) = State(d, TRUE, b, f)
<1>1. Esc # End /\ Esc # Begin
  BY DEF Esc, Begin, End
<1> QED BY <1>1 DEF State, ScanByte, PROTO_ParseByte

LEMMA ReadBegin ==
  ASSUME NEW d, NEW e, NEW b, NEW f
  PROVE  ScanByte(State(d, e, b, f), Begin) = State(<<>>, FALSE, TRUE, f)
<1>1. Begin # End /\ Begin # Esc
  BY DEF Esc, Begin, End
<1> QED BY <1>1 DEF State, ScanByte, PROTO_ParseByte

LEMMA ReadEnd ==
  ASSUME NEW d, NEW e, NEW b, NEW f
  PROVE  ScanByte(State(d, e, b, f), End) = State(d, e, FALSE, Append(f, d))
BY DEF State, ScanByte

LEMMA ReadOutside ==
  ASSUME NEW d, NEW e, NEW f, NEW v, v \notin Marks
  PROVE  ScanByte(State(d, e, FALSE, f), v) = State(d, e, FALSE, f)
BY DEF State, ScanByte, PROTO_ParseByte, Marks

\* The byte a parser makes of v.
Plain(e, v) == IF e THEN Xor20(v) ELSE v

LEMMA ReadInside ==
  ASSUME NEW d, NEW e, NEW f, NEW v, v \notin Marks
  PROVE  ScanByte(State(d, e, TRUE, f), v) =
            State(IF Len(d) < BUF_SIZE THEN Append(d, Plain(e, v)) ELSE d,
                  FALSE, TRUE, f)
BY DEF State, ScanByte, PROTO_ParseByte, Marks, Plain

LEMMA ScanByteType ==
  ASSUME NEW s \in ScanState, NEW v \in Byte
  PROVE  ScanByte(s, v) \in ScanState
<1> DEFINE d == s.parser.data
           e == s.parser.isEsc
           b == s.parser.isBegin
           f == s.found
<1>1. /\ d \in Seq(Byte) /\ e \in BOOLEAN /\ b \in BOOLEAN /\ f \in Seq(Seq(Byte))
      /\ s = State(d, e, b, f)
  BY StateParts
<1> HIDE DEF d, e, b, f
<1>2. CASE v = Esc
  <2>2. State(d, TRUE, b, f) \in ScanState
    BY <1>1, StateType
  <2>3. ScanByte(s, v) = State(d, TRUE, b, f)
    BY <1>1, <1>2, ReadEsc, ZenonT(60)
  <2> QED BY <2>2, <2>3
<1>3. CASE v = Begin
  <2>2. State(<<>>, FALSE, TRUE, f) \in ScanState
    BY <1>1, EmptySeq, StateType
  <2>3. ScanByte(s, v) = State(<<>>, FALSE, TRUE, f)
    BY <1>1, <1>3, ReadBegin
  <2> QED BY <2>2, <2>3
<1>4. CASE v = End
  <2>1. Append(f, d) \in Seq(Seq(Byte))
    BY <1>1
  <2>2. State(d, e, FALSE, Append(f, d)) \in ScanState
    BY <1>1, <2>1, StateType
  <2>3. ScanByte(s, v) = State(d, e, FALSE, Append(f, d))
    BY <1>1, <1>4, ReadEnd
  <2> QED BY <2>2, <2>3
<1>5. CASE v \notin Marks /\ b = FALSE
  BY <1>1, <1>5, ReadOutside
<1>6. CASE v \notin Marks /\ b = TRUE
  <2>1. Plain(e, v) \in Byte
    BY DEF Plain, Xor20, Byte
  <2> DEFINE c == IF Len(d) < BUF_SIZE THEN Append(d, Plain(e, v)) ELSE d
  <2>2. c \in Seq(Byte)
    BY <1>1, <2>1
  <2> HIDE DEF c
  <2>3. State(c, FALSE, TRUE, f) \in ScanState
    BY <1>1, <2>2, StateType
  <2>4. ScanByte(s, v) = State(c, FALSE, TRUE, f)
    BY <1>1, <1>6, ReadInside DEF c
  <2> QED BY <2>3, <2>4
<1> QED BY <1>1, <1>2, <1>3, <1>4, <1>5, <1>6 DEF Marks

LEMMA ScanType ==
  ASSUME NEW s \in ScanState, NEW w \in Seq(Byte)
  PROVE  Scan(s, w) \in ScanState
<1> DEFINE T == {x \in Seq(Byte) : Scan(s, x) \in ScanState}
<1>1. <<>> \in T
  BY ScanEmpty, EmptySeq
<1>2. ASSUME NEW x \in Seq(Byte), NEW v \in Byte, x \in T PROVE Append(x, v) \in T
  <2>1. Scan(s, Append(x, v)) = ScanByte(Scan(s, x), v) /\ Append(x, v) \in Seq(Byte)
    BY ScanAppend, AppendProperties
  <2> QED BY <1>2, <2>1, ScanByteType
<1> HIDE DEF T
<1>3. w \in T
  BY <1>1, <1>2, SeqInd
<1> QED BY <1>3 DEF T

\* Without an end mark no packet is found.
LEMMA ScanOpenEnd ==
  ASSUME NEW s \in ScanState, NEW w \in Seq(Byte), \A i \in 1 .. Len(w) : w[i] # End
  PROVE  Scan(s, w).found = s.found
<1> DEFINE T == {x \in Seq(Byte) : (\A i \in 1 .. Len(x) : x[i] # End)
                                     => Scan(s, x).found = s.found}
<1>1. <<>> \in T
  BY ScanEmpty, EmptySeq
<1>2. ASSUME NEW x \in Seq(Byte), NEW v \in Byte, x \in T PROVE Append(x, v) \in T
  <2> SUFFICES ASSUME \A i \in 1 .. Len(Append(x, v)) : Append(x, v)[i] # End
               PROVE  Scan(s, Append(x, v)).found = s.found
    BY AppendProperties
  <2>1. v # End /\ \A i \in 1 .. Len(x) : x[i] # End
    BY AppendProperties, LenProperties
  <2>2. Scan(s, x) \in ScanState /\ Scan(s, x).found = s.found
    BY <1>2, <2>1, ScanType
  <2>3. ScanByte(Scan(s, x), v).found = Scan(s, x).found
    BY <2>1, <2>2 DEF ScanByte, ScanState
  <2> QED BY <2>2, <2>3, ScanAppend
<1> HIDE DEF T
<1>3. w \in T
  BY <1>1, <1>2, SeqInd
<1> QED BY <1>3 DEF T

LEMMA AppendConcat ==
  ASSUME NEW q \in Seq(Seq(Byte)), NEW f \in Seq(Seq(Byte)), NEW d \in Seq(Byte)
  PROVE  Append(q \o f, d) = q \o Append(f, d)
<1> DEFINE P == Seq(Byte)
<1>1. q \in Seq(P) /\ f \in Seq(P) /\ d \in P
  OBVIOUS
<1> HIDE DEF P
<1> QED BY <1>1

\* What was found before does not matter for what is found next.
LEMMA ScanFoundBefore ==
  ASSUME NEW s \in ScanState, NEW t \in ScanState, NEW q \in Seq(Seq(Byte)),
         t.parser = s.parser, t.found = q \o s.found, NEW w \in Seq(Byte)
  PROVE  Scan(t, w).found = q \o Scan(s, w).found
<1> DEFINE T == {x \in Seq(Byte) : /\ Scan(t, x).parser = Scan(s, x).parser
                                   /\ Scan(t, x).found = q \o Scan(s, x).found}
<1>1. <<>> \in T
  <2>1. Scan(t, <<>>) = t /\ Scan(s, <<>>) = s
    BY ScanEmpty
  <2> QED BY <2>1, EmptySeq
<1>2. ASSUME NEW x \in Seq(Byte), NEW v \in Byte, x \in T PROVE Append(x, v) \in T
  <2> DEFINE a == Scan(s, x)
             b == Scan(t, x)
  <2>1. a \in ScanState /\ b \in ScanState /\ b.parser = a.parser /\ b.found = q \o a.found
    BY <1>2, ScanType
  <2>0. /\ Scan(s, Append(x, v)) = ScanByte(a, v) /\ Scan(t, Append(x, v)) = ScanByte(b, v)
        /\ Append(x, v) \in Seq(Byte)
    BY ScanAppend, AppendProperties
  <2> HIDE DEF a, b
  <2>2. CASE v = End
    <3>1. ScanByte(b, v).parser = ScanByte(a, v).parser
      BY <2>1, <2>2 DEF ScanByte, ScanState
    <3>2. ScanByte(b, v).found = Append(b.found, b.parser.data)
          /\ ScanByte(a, v).found = Append(a.found, a.parser.data)
      BY <2>1, <2>2 DEF ScanByte, ScanState
    <3>3. a.found \in Seq(Seq(Byte)) /\ a.parser.data \in Seq(Byte)
      BY <2>1 DEF ScanState
    <3>4. Append(q \o a.found, a.parser.data) = q \o Append(a.found, a.parser.data)
      BY <3>3, AppendConcat
    <3>5. ScanByte(b, v).found = q \o ScanByte(a, v).found
      BY <2>1, <3>2, <3>4
    <3> QED BY <2>0, <3>1, <3>5
  <2>3. CASE v # End
    <3>1. ScanByte(b, v).parser = ScanByte(a, v).parser
      BY <2>1, <2>3 DEF ScanByte, ScanState
    <3>2. ScanByte(b, v).found = b.found /\ ScanByte(a, v).found = a.found
      BY <2>1, <2>3 DEF ScanByte, ScanState
    <3> QED BY <2>0, <2>1, <3>1, <3>2
  <2> QED BY <2>2, <2>3
<1> HIDE DEF T
<1>3. w \in T
  BY <1>1, <1>2, SeqInd
<1> QED BY <1>3 DEF T

\* A begin mark makes the parser forget what it was reading.
LEMMA ScanBegin ==
  ASSUME NEW s \in ScanState
  PROVE  ScanByte(s, Begin) = State(<<>>, FALSE, TRUE, s.found)
<1>1. ScanByte(State(s.parser.data, s.parser.isEsc, s.parser.isBegin, s.found), Begin)
        = State(<<>>, FALSE, TRUE, s.found)
  BY ReadBegin
<1>2. s = State(s.parser.data, s.parser.isEsc, s.parser.isBegin, s.found)
  BY StateParts
<1> QED BY <1>1, <1>2, Zenon

\* An escaped byte is read as the byte.
LEMMA ScanEscaped ==
  ASSUME NEW f, NEW p \in Seq(Byte), Len(p) < BUF_SIZE, NEW v \in Byte
  PROVE  Scan(State(p, FALSE, TRUE, f), Escaped(v)) = State(Append(p, v), FALSE, TRUE, f)
<1> DEFINE s == State(p, FALSE, TRUE, f)
<1>1. CASE v \in Marks
  <2> DEFINE x == Xor20(v)
  <2>1. x \in Byte /\ x \notin Marks /\ Xor20(x) = v /\ Esc \in Byte
    BY <1>1, Xor20OfMarks
  <2> HIDE DEF x
  <2>2. Scan(s, <<Esc, x>>) = ScanByte(ScanByte(s, Esc), x)
    BY <2>1, ScanTwo
  <2>3. Escaped(v) = <<Esc, x>>
    BY <1>1 DEF Escaped, x
  <2>4. ScanByte(s, Esc) = State(p, TRUE, TRUE, f)
    BY ReadEsc
  <2>5. ScanByte(State(p, TRUE, TRUE, f), x)
          = State(IF Len(p) < BUF_SIZE THEN Append(p, Plain(TRUE, x)) ELSE p, FALSE, TRUE, f)
    BY <2>1, ReadInside
  <2>6. Plain(TRUE, x) = v
    BY <2>1 DEF Plain
  <2> QED BY <2>2, <2>3, <2>4, <2>5, <2>6
<1>2. CASE v \notin Marks
  <2>1. Escaped(v) = <<v>>
    BY <1>2 DEF Escaped
  <2>2. Scan(s, <<v>>) = ScanByte(s, v)
    BY ScanOne
  <2>3. ScanByte(s, v)
          = State(IF Len(p) < BUF_SIZE THEN Append(p, Plain(FALSE, v)) ELSE p, FALSE, TRUE, f)
    BY <1>2, ReadInside
  <2>4. Plain(FALSE, v) = v
    BY DEF Plain
  <2> QED BY <2>1, <2>2, <2>3, <2>4
<1> QED BY <1>1, <1>2

\* The bytes between the marks: no begin and no end mark among them, and what
\* the parser makes of them is the packet.
EscapesRead(packet) ==
    /\ Escapes(packet) \in Seq(Byte)
    /\ \A i \in 1 .. Len(Escapes(packet)) : Escapes(packet)[i] \notin {Begin, End}
    /\ \A f : Scan(State(<<>>, FALSE, TRUE, f), Escapes(packet))
                = State(packet, FALSE, TRUE, f)

LEMMA EscapesReadBack ==
  ASSUME NEW packet \in Seq(Byte), Len(packet) <= BUF_SIZE
  PROVE  EscapesRead(packet)
<1> DEFINE T == {p \in Seq(Byte) : Len(p) <= BUF_SIZE => EscapesRead(p)}
<1>1. <<>> \in T
  <2>1. Escapes(<<>>) = <<>> /\ <<>> \in Seq(Byte) /\ Len(<<>>) = 0
    BY EscapesEmpty
  <2>2. \A f : Scan(State(<<>>, FALSE, TRUE, f), <<>>) = State(<<>>, FALSE, TRUE, f)
    BY ScanEmpty
  <2>3. \A i \in 1 .. Len(Escapes(<<>>)) : Escapes(<<>>)[i] \notin {Begin, End}
    BY <2>1
  <2>4. EscapesRead(<<>>)
    BY <2>1, <2>2, <2>3, Zenon DEF EscapesRead
  <2> QED BY <2>1, <2>4
<1>2. ASSUME NEW p \in Seq(Byte), NEW v \in Byte, p \in T PROVE Append(p, v) \in T
  <2> SUFFICES ASSUME Len(Append(p, v)) <= BUF_SIZE PROVE EscapesRead(Append(p, v))
    BY AppendProperties
  <2>1. Len(p) < BUF_SIZE /\ EscapesRead(p)
    BY <1>2, AppendProperties, LenProperties, SizesAssumption
  <2> DEFINE w == Escapes(p)
             e == Escaped(v)
  <2>2. w \in Seq(Byte) /\ e \in Seq(Byte) /\ Escapes(Append(p, v)) = w \o e
    BY <2>1, EscapesAppend, EscapedBytes DEF EscapesRead
  <2>3. /\ \A i \in 1 .. Len(w) : w[i] \notin {Begin, End}
        /\ \A i \in 1 .. Len(e) : e[i] \notin {Begin, End}
    BY <2>1, EscapedBytes DEF EscapesRead
  <2>4. ASSUME NEW f
        PROVE  Scan(State(<<>>, FALSE, TRUE, f), w \o e)
                 = State(Append(p, v), FALSE, TRUE, f)
    <3>1. Scan(State(<<>>, FALSE, TRUE, f), w) = State(p, FALSE, TRUE, f)
      BY <2>1 DEF EscapesRead
    <3>2. Scan(State(p, FALSE, TRUE, f), e) = State(Append(p, v), FALSE, TRUE, f)
      BY <2>1, ScanEscaped
    <3> HIDE DEF w, e
    <3>3. Scan(State(<<>>, FALSE, TRUE, f), w \o e)
            = Scan(Scan(State(<<>>, FALSE, TRUE, f), w), e)
      BY <2>2, ScanConcat
    <3> QED BY <3>1, <3>2, <3>3
  <2> HIDE DEF w, e
  <2>5. w \o e \in Seq(Byte)
    BY <2>2
  <2>6. \A i \in 1 .. Len(w \o e) : (w \o e)[i] \notin {Begin, End}
    BY <2>2, <2>3, ConcatProperties
  <2> QED BY <2>2, <2>4, <2>5, <2>6 DEF EscapesRead
<1> HIDE DEF T
<1>3. packet \in T
  BY <1>1, <1>2, SeqInd
<1> QED BY <1>3 DEF T

\* A frame is framed: its first byte is the begin mark, its last and only its
\* last the end mark.
FrameShape(frame) ==
    /\ frame \in Seq(Byte)
    /\ Len(frame) >= 2
    /\ frame[1] = Begin
    /\ frame[Len(frame)] = End
    /\ \A i \in 1 .. Len(frame) - 1 : frame[i] # End

LEMMA FrameParts ==
  ASSUME NEW packet
  PROVE  Frame(packet) = <<Begin>> \o Escapes(packet) \o <<End>>
BY DEF Frame, Escapes

LEMMA FrameIsFramed ==
  ASSUME NEW packet \in Seq(Byte), Len(packet) <= BUF_SIZE
  PROVE  FrameShape(Frame(packet))
<1> DEFINE w == Escapes(packet)
<1>1. w \in Seq(Byte) /\ \A i \in 1 .. Len(w) : w[i] # End
  BY EscapesReadBack DEF EscapesRead
<1>2. Begin \in Byte /\ End \in Byte /\ Begin # End
  BY DEF Begin, End, Byte
<1>3. Frame(packet) = <<Begin>> \o w \o <<End>>
  BY FrameParts
<1> HIDE DEF w
<1> DEFINE u == <<Begin>> \o w
           f == u \o <<End>>
<1>4. u \in Seq(Byte) /\ Len(u) = Len(w) + 1 /\ u[1] = Begin
      /\ \A i \in 1 .. Len(w) + 1 : u[i] # End
  BY <1>1, <1>2
<1> HIDE DEF u
<1>5. f \in Seq(Byte) /\ Len(f) = Len(u) + 1 /\ f[Len(u) + 1] = End
      /\ \A i \in 1 .. Len(u) : f[i] = u[i]
  BY <1>2, <1>4
<1> HIDE DEF f
<1>6. Len(w) \in Nat
  BY <1>1
<1>7. FrameShape(f)
  BY <1>4, <1>5, <1>6 DEF FrameShape
<1> QED BY <1>3, <1>7 DEF f, u

\* A frame is read as its packet, whatever the parser was doing before.
LEMMA ScanFrame ==
  ASSUME NEW packet \in Seq(Byte), Len(packet) <= BUF_SIZE, NEW s \in ScanState
  PROVE  Scan(s, Frame(packet)) = State(packet, FALSE, FALSE, Append(s.found, packet))
<1> DEFINE w == Escapes(packet)
           t == State(<<>>, FALSE, TRUE, s.found)
<1>1. w \in Seq(Byte) /\ Scan(t, w) = State(packet, FALSE, TRUE, s.found)
  BY EscapesReadBack DEF EscapesRead
<1>2. Begin \in Byte /\ End \in Byte
  BY DEF Begin, End, Byte
<1>3. Scan(s, <<Begin>>) = t
  BY <1>2, ScanOne, ScanBegin
<1>4. Frame(packet) = <<Begin>> \o w \o <<End>>
  BY FrameParts
<1> HIDE DEF w, t
<1>5. <<Begin>> \in Seq(Byte) /\ <<End>> \in Seq(Byte) /\ <<Begin>> \o w \in Seq(Byte)
  BY <1>1, <1>2
<1>6. Scan(s, <<Begin>> \o w) = Scan(Scan(s, <<Begin>>), w)
  BY <1>1, <1>5, ScanConcat
<1>7. Scan(s, (<<Begin>> \o w) \o <<End>>) = Scan(Scan(s, <<Begin>> \o w), <<End>>)
  BY <1>5, ScanConcat
<1>8. Scan(State(packet, FALSE, TRUE, s.found), <<End>>)
        = State(packet, FALSE, FALSE, Append(s.found, packet))
  BY <1>2, ScanOne, ReadEnd, ZenonT(60)
<1> QED BY <1>1, <1>3, <1>4, <1>6, <1>7, <1>8

(***************************************************************************)
(* Taking a packet out of the ring.                                        *)
(***************************************************************************)

\* A frame starts at the first byte and behind every end mark, whatever
\* partial frames are in the ring.
FramesStart(bytes) ==
    \A i \in 1 .. Len(bytes) :
        (i = 1 \/ bytes[i - 1] = End) => bytes[i] = Begin

\* e is the first end mark.
FirstEnd(bytes, e) ==
    /\ e \in 1 .. Len(bytes)
    /\ bytes[e] = End
    /\ \A i \in 1 .. e - 1 : bytes[i] # End

Before(bytes, e) == SubSeq(bytes, 1, e)
After(bytes, e) == SubSeq(bytes, e + 1, Len(bytes))

\* The first end mark is where PROTO_ParseRb stops.
LEMMA ParseFirst ==
  ASSUME NEW bytes \in Seq(Byte), NEW e, FirstEnd(bytes, e), NEW b
  PROVE  PROTO_ParseRb(bytes, b) =
            [ok |-> TRUE, packet |-> Scan(Start(b), Before(bytes, e)).found[1],
             rb |-> After(bytes, e)]
<1> DEFINE I == {i \in 1 .. Len(bytes) : bytes[i] = End}
<1>1. e \in I /\ I \subseteq Int /\ \A i \in I : e =< i
  BY DEF FirstEnd
<1> HIDE DEF I
<1>2. Min(I) = e
  <2>1. \E x \in I : \A y \in I : x =< y
    BY <1>1
  <2>2. Min(I) \in I /\ \A y \in I : Min(I) =< y
    BY <2>1, Zenon DEF Min
  <2>3. Min(I) \in Int /\ e \in Int /\ Min(I) =< e /\ e =< Min(I)
    BY <1>1, <2>2
  <2> QED BY <2>3
<1>3. SelectInSeq(bytes, LAMBDA v : v = End) = e
  BY <1>1, <1>2 DEF SelectInSeq, I
<1>4. e # 0
  BY DEF FirstEnd
<1> QED BY <1>3, <1>4 DEF PROTO_ParseRb, Before, After

\* Without an end mark everything is taken out and no packet found.
LEMMA ParseNone ==
  ASSUME NEW bytes \in Seq(Byte), \A i \in 1 .. Len(bytes) : bytes[i] # End, NEW b
  PROVE  PROTO_ParseRb(bytes, b) = [ok |-> FALSE, packet |-> <<>>, rb |-> <<>>]
<1>1. {i \in 1 .. Len(bytes) : bytes[i] = End} = {}
  OBVIOUS
<1>2. SelectInSeq(bytes, LAMBDA v : v = End) = 0
  BY <1>1 DEF SelectInSeq
<1> QED BY <1>2 DEF PROTO_ParseRb

LEMMA FirstEndExists ==
  ASSUME NEW bytes \in Seq(Byte), NEW k \in 1 .. Len(bytes), bytes[k] = End
  PROVE  \E e : FirstEnd(bytes, e)
<1> DEFINE T == {n \in Nat : \A i \in 1 .. Len(bytes) :
                    i <= n /\ bytes[i] = End => \E e : FirstEnd(bytes, e)}
<1>1. 0 \in T
  OBVIOUS
<1>2. ASSUME NEW n \in Nat, n \in T PROVE n + 1 \in T
  <2> SUFFICES ASSUME NEW i \in 1 .. Len(bytes), i <= n + 1, bytes[i] = End
               PROVE  \E e : FirstEnd(bytes, e)
    OBVIOUS
  <2>1. CASE \E j \in 1 .. i - 1 : bytes[j] = End
    <3>1. PICK j \in 1 .. i - 1 : bytes[j] = End
      BY <2>1
    <3>2. j \in 1 .. Len(bytes) /\ j <= n
      BY <3>1, LenProperties
    <3> QED BY <1>2, <3>1, <3>2
  <2>2. CASE \A j \in 1 .. i - 1 : bytes[j] # End
    BY <2>2 DEF FirstEnd
  <2> QED BY <2>1, <2>2
<1> HIDE DEF T
<1>3. k \in T
  BY <1>1, <1>2, NatInd, LenProperties
<1> QED BY <1>3, LenProperties DEF T

\* In a ring in which frames start as they should, isBegin does not matter.
LEMMA StartIrrelevant ==
  ASSUME NEW bytes \in Seq(Byte), bytes # <<>>, bytes[1] = Begin,
         NEW s \in ScanState, NEW t \in ScanState, s.found = t.found
  PROVE  Scan(s, bytes) = Scan(t, bytes)
<1> DEFINE r == SubSeq(bytes, 2, Len(bytes))
<1>1. bytes = <<Begin>> \o r /\ <<Begin>> \in Seq(Byte) /\ r \in Seq(Byte)
  BY SubSeqFull, SubSeqRecursiveFirst, ElementOfSeq, LenProperties, EmptySeq
<1> HIDE DEF r
<1>2. Begin \in Byte
  BY DEF Begin, Byte
<1>3. Scan(s, <<Begin>>) = Scan(t, <<Begin>>)
  BY <1>2, ScanOne, ScanBegin
<1>4. Scan(s, <<Begin>> \o r) = Scan(Scan(s, <<Begin>>), r)
  BY <1>1, ScanConcat
<1>5. Scan(t, <<Begin>> \o r) = Scan(Scan(t, <<Begin>>), r)
  BY <1>1, ScanConcat
<1> QED BY <1>1, <1>3, <1>4, <1>5

LEMMA QueuedNone ==
  ASSUME NEW bytes \in Seq(Byte), \A i \in 1 .. Len(bytes) : bytes[i] # End
  PROVE  Queued(bytes) = <<>>
<1>1. Start(FALSE) \in ScanState /\ Start(FALSE).found = <<>>
  BY StartType, Zenon
<1> QED BY <1>1, ScanOpenEnd DEF Queued

\* A ring falls apart at its first end mark.
LEMMA CutAtEnd ==
  ASSUME NEW bytes \in Seq(Byte), FramesStart(bytes), NEW e, FirstEnd(bytes, e)
  PROVE  /\ Before(bytes, e) \in Seq(Byte)
         /\ Before(bytes, e) # <<>>
         /\ Before(bytes, e)[1] = Begin
         /\ \E w \in Seq(Byte) : /\ Before(bytes, e) = w \o <<End>>
                                 /\ \A i \in 1 .. Len(w) : w[i] # End
         /\ After(bytes, e) \in Seq(Byte)
         /\ After(bytes, e) # <<>> => After(bytes, e)[1] = Begin
         /\ bytes = Before(bytes, e) \o After(bytes, e)
<1> DEFINE w == SubSeq(bytes, 1, e - 1)
<1>1. e \in 1 .. Len(bytes) /\ Len(bytes) \in Nat
      /\ \A i \in 1 .. Len(bytes) : bytes[i] \in Byte
  BY LenProperties DEF FirstEnd
<1>2. w \in Seq(Byte) /\ Len(w) = e - 1 /\ \A i \in 1 .. e - 1 : w[i] = bytes[i]
  BY <1>1, SubSeqProperties
<1> HIDE DEF w
<1>3. Before(bytes, e) = w \o <<End>>
  BY <1>1, SubSeqRecursiveSecond DEF Before, FirstEnd, w
<1>4. \A i \in 1 .. Len(w) : w[i] # End
  BY <1>1, <1>2 DEF FirstEnd
<1>5. /\ Before(bytes, e) \in Seq(Byte) /\ Len(Before(bytes, e)) = e
      /\ Before(bytes, e)[1] = bytes[1]
  BY <1>1, SubSeqProperties DEF Before
<1>6. /\ After(bytes, e) \in Seq(Byte) /\ Len(After(bytes, e)) = Len(bytes) - e
      /\ Len(bytes) > e => After(bytes, e)[1] = bytes[e + 1]
  BY <1>1, SubSeqProperties DEF After
<1>7. bytes = Before(bytes, e) \o After(bytes, e)
  BY <1>1, ConcatAdjacentSubSeq, SubSeqFull DEF Before, After
<1>8. bytes[1] = Begin /\ (Len(bytes) > e => bytes[e + 1] = Begin)
  BY <1>1 DEF FramesStart, FirstEnd
<1>9. Before(bytes, e) # <<>> /\ (After(bytes, e) # <<>> => Len(bytes) > e)
  BY <1>1, <1>5, <1>6
<1> QED BY <1>2, <1>3, <1>4, <1>5, <1>6, <1>7, <1>8, <1>9

\* What stands in front of the first end mark is one packet ...
LEMMA ScanFirst ==
  ASSUME NEW w \in Seq(Byte), \A i \in 1 .. Len(w) : w[i] # End,
         NEW s \in ScanState, s.found = <<>>
  PROVE  \E p \in Seq(Byte) : Scan(s, w \o <<End>>).found = <<p>>
<1>1. PICK u \in ScanState : u = Scan(s, w)
  BY ScanType
<1>2. u.found = <<>> /\ u.parser.data \in Seq(Byte)
  BY <1>1, ScanOpenEnd, StateParts
<1>3. End \in Byte /\ <<End>> \in Seq(Byte)
  BY DEF End, Byte
<1>4. Scan(s, w \o <<End>>) = ScanByte(u, End)
  BY <1>1, <1>3, ScanConcat, ScanOne, ZenonT(60)
<1>5. ScanByte(u, End).found = Append(u.found, u.parser.data)
  BY <1>1 DEF ScanByte, ScanState
<1>6. ScanByte(u, End).found = <<u.parser.data>>
  BY <1>2, <1>5
<1> QED BY <1>2, <1>4, <1>6

\* ... and what stands behind it is read as if it were a ring of its own.
LEMMA ScanRest ==
  ASSUME NEW x \in ScanState, NEW p \in Seq(Byte), x.found = <<p>>,
         NEW a \in Seq(Byte), a # <<>> => a[1] = Begin
  PROVE  Scan(x, a).found = <<p>> \o Queued(a)
<1> DEFINE z == Start(FALSE)
<1>1. z \in ScanState /\ z.found = <<>>
  BY StartType, Zenon
<1>2. z = State(z.parser.data, z.parser.isEsc, z.parser.isBegin, z.found)
  BY <1>1, StateParts
<1>3. <<p>> \in Seq(Seq(Byte)) /\ <<p>> = <<p>> \o <<>>
  <2> DEFINE S == Seq(Byte)
  <2>1. p \in S
    OBVIOUS
  <2> HIDE DEF S
  <2>2. <<p>> \in Seq(S) /\ <<p>> = <<p>> \o <<>>
    BY <2>1
  <2> QED BY <2>2 DEF S
<1> HIDE DEF z
<1>4. PICK y \in ScanState : y.parser = z.parser /\ y.found = <<p>>
  <2> DEFINE y == [parser |-> z.parser, found |-> <<p>>]
  <2>1. y \in ScanState
    BY <1>1, <1>3 DEF ScanState
  <2> QED BY <2>1
<1>5. Scan(y, a).found = <<p>> \o Scan(z, a).found
  BY <1>1, <1>3, <1>4, ScanFoundBefore, ZenonT(60)
<1>6. Scan(x, a).found = Scan(y, a).found
  <2>1. CASE a = <<>>
    BY <1>4, <2>1, ScanEmpty
  <2>2. CASE a # <<>>
    BY <1>4, <2>2, StartIrrelevant
  <2> QED BY <2>1, <2>2
<1> QED BY <1>5, <1>6 DEF Queued, z

\* The packet in front of the first end mark is the oldest of the queue, what
\* is behind the mark is the ring of the others.
LEMMA QueuedFirst ==
  ASSUME NEW bytes \in Seq(Byte), FramesStart(bytes), NEW e, FirstEnd(bytes, e)
  PROVE  \E p \in Seq(Byte) :
            /\ Queued(bytes) = <<p>> \o Queued(After(bytes, e))
            /\ \A b \in BOOLEAN : Scan(Start(b), Before(bytes, e)).found[1] = p
<1> DEFINE z == Start(FALSE)
<1>1. z \in ScanState /\ z.found = <<>>
  BY StartType, Zenon
<1>2. PICK w \in Seq(Byte) : /\ Before(bytes, e) = w \o <<End>>
                             /\ \A i \in 1 .. Len(w) : w[i] # End
  BY CutAtEnd
<1> HIDE DEF z
<1>3. PICK p \in Seq(Byte) : Scan(z, Before(bytes, e)).found = <<p>>
  BY <1>1, <1>2, ScanFirst
<1>4. Scan(z, Before(bytes, e)) \in ScanState
  BY <1>1, CutAtEnd, ScanType
<1>5. Scan(Scan(z, Before(bytes, e)), After(bytes, e)).found
        = <<p>> \o Queued(After(bytes, e))
  BY <1>3, <1>4, CutAtEnd, ScanRest, ZenonT(60)
<1>6. Queued(bytes) = <<p>> \o Queued(After(bytes, e))
  <2>1. Scan(z, Before(bytes, e) \o After(bytes, e))
          = Scan(Scan(z, Before(bytes, e)), After(bytes, e))
    BY CutAtEnd, ScanConcat
  <2>2. Scan(z, bytes) = Scan(Scan(z, Before(bytes, e)), After(bytes, e))
    BY <2>1, CutAtEnd
  <2> QED BY <1>5, <2>2 DEF Queued, z
<1>7. ASSUME NEW b \in BOOLEAN
      PROVE  Scan(Start(b), Before(bytes, e)).found[1] = p
  <2>1. Start(b) \in ScanState /\ Start(b).found = z.found
    BY <1>1, StartType
  <2>2. Scan(Start(b), Before(bytes, e)) = Scan(z, Before(bytes, e))
    BY <1>1, <2>1, CutAtEnd, StartIrrelevant
  <2> QED BY <1>3, <2>2
<1> QED BY <1>6, <1>7

(***************************************************************************)
(* The inductive invariant, and what each call does to it.                 *)
(***************************************************************************)

\* The loop of MQTT_Publish is about a packet.
QueuingPacket == pc # "idle" => msg \in Packets

\* Between callbacks no partial frame is at the end of the ring.
FramesEnd == pc = "idle" /\ rb # <<>> => rb[Len(rb)] = End

\* What is complete in the ring are packets.
WholePackets == Queued(rb) \in Seq(Packets)

IInv ==
    /\ TypeOK
    /\ QueuingPacket
    /\ FramesStart(rb)
    /\ FramesEnd
    /\ WholePackets

\* What begins with a begin mark and has no end mark but its last byte may be
\* put behind any ring.
LEMMA ConcatStarts ==
  ASSUME NEW bytes \in Seq(Byte), FramesStart(bytes), NEW f \in Seq(Byte),
         f # <<>> => f[1] = Begin, \A i \in 1 .. Len(f) - 1 : f[i] # End
  PROVE  FramesStart(bytes \o f)
<1> DEFINE x == bytes \o f
<1>1. /\ Len(x) = Len(bytes) + Len(f)
      /\ \A i \in 1 .. Len(bytes) : x[i] = bytes[i]
      /\ \A i \in 1 .. Len(f) : x[Len(bytes) + i] = f[i]
  OBVIOUS
<1>2. Len(bytes) \in Nat /\ Len(f) \in Nat
  OBVIOUS
<1> HIDE DEF x
<1> SUFFICES ASSUME NEW i \in 1 .. Len(x), i = 1 \/ x[i - 1] = End
             PROVE  x[i] = Begin
  BY DEF FramesStart, x
<1>3. CASE i <= Len(bytes)
  <2>1. i \in 1 .. Len(bytes) /\ x[i] = bytes[i]
    BY <1>1, <1>2, <1>3
  <2>2. i # 1 => i - 1 \in 1 .. Len(bytes) /\ x[i - 1] = bytes[i - 1]
    BY <1>1, <1>2, <2>1
  <2> QED BY <2>1, <2>2 DEF FramesStart
<1>4. CASE i = Len(bytes) + 1
  <2>1. Len(f) # 0 /\ x[Len(bytes) + 1] = f[1]
    BY <1>1, <1>2, <1>4
  <2> QED BY <1>4, <2>1
<1>5. CASE i > Len(bytes) + 1
  <2> DEFINE j == (i - 1) - Len(bytes)
  <2>1. j \in 1 .. Len(f) - 1 /\ i - 1 = Len(bytes) + j /\ i # 1
    BY <1>1, <1>2, <1>5
  <2>2. x[i - 1] = f[j]
    BY <1>1, <1>2, <2>1, SMTT(30)
  <2> QED BY <2>1, <2>2
<1> QED BY <1>2, <1>3, <1>4, <1>5

\* A whole frame put behind what is in the ring queues its packet.
LEMMA AddFrame ==
  ASSUME NEW bytes \in Seq(Byte), FramesStart(bytes), NEW p \in Packets
  PROVE  /\ bytes \o Frame(p) \in Seq(Byte)
         /\ Len(bytes \o Frame(p)) = Len(bytes) + Len(Frame(p))
         /\ bytes \o Frame(p) # <<>>
         /\ (bytes \o Frame(p))[Len(bytes \o Frame(p))] = End
         /\ FramesStart(bytes \o Frame(p))
         /\ Queued(bytes \o Frame(p)) = Append(Queued(bytes), p)
<1> DEFINE f == Frame(p)
           x == bytes \o f
<1>1. p \in Seq(Byte) /\ Len(p) <= BUF_SIZE
  BY PacketsAssumption, SizesAssumption
<1>2. /\ f \in Seq(Byte) /\ Len(f) >= 2 /\ f[1] = Begin /\ f[Len(f)] = End
      /\ \A i \in 1 .. Len(f) - 1 : f[i] # End
  BY <1>1, FrameIsFramed DEF FrameShape
<1> HIDE DEF f
<1>3. /\ x \in Seq(Byte) /\ Len(x) = Len(bytes) + Len(f)
      /\ \A i \in 1 .. Len(bytes) : x[i] = bytes[i]
      /\ \A i \in 1 .. Len(f) : x[Len(bytes) + i] = f[i]
  BY <1>2
<1>4. Len(bytes) \in Nat /\ Len(f) \in Nat
  BY <1>2
<1> HIDE DEF x
<1>5. x # <<>> /\ x[Len(x)] = End
  BY <1>2, <1>3, <1>4
<1>6. FramesStart(x)
  BY <1>2, ConcatStarts DEF x
<1>7. Queued(x) = Append(Queued(bytes), p)
  <2> DEFINE z == Start(FALSE)
  <2>1. z \in ScanState
    BY StartType, Zenon
  <2> HIDE DEF z
  <2>2. PICK u \in ScanState : u = Scan(z, bytes)
    BY <2>1, ScanType
  <2>3. Scan(z, x) = Scan(u, f)
    BY <1>2, <2>2, ScanConcat DEF x
  <2>4. Scan(u, f) = State(p, FALSE, FALSE, Append(u.found, p))
    BY <1>1, ScanFrame DEF f
  <2>5. Scan(u, f).found = Append(u.found, p)
    BY <2>4 DEF State
  <2> QED BY <2>2, <2>3, <2>5 DEF Queued, z
<1> QED BY <1>3, <1>5, <1>6, <1>7 DEF x, f

\* The part of a frame that fits queues nothing and changes nothing.
LEMMA AddPart ==
  ASSUME NEW bytes \in Seq(Byte), FramesStart(bytes), NEW p \in Packets,
         NEW room \in Nat, room < Len(Frame(p))
  PROVE  /\ bytes \o SubSeq(Frame(p), 1, room) \in Seq(Byte)
         /\ Len(bytes \o SubSeq(Frame(p), 1, room)) = Len(bytes) + room
         /\ FramesStart(bytes \o SubSeq(Frame(p), 1, room))
         /\ Queued(bytes \o SubSeq(Frame(p), 1, room)) = Queued(bytes)
<1> DEFINE f == SubSeq(Frame(p), 1, room)
           x == bytes \o f
<1>1. p \in Seq(Byte) /\ Len(p) <= BUF_SIZE
  BY PacketsAssumption, SizesAssumption
<1>2. /\ f \in Seq(Byte) /\ Len(f) = room
      /\ room # 0 => f[1] = Begin
      /\ \A i \in 1 .. room : f[i] # End
  <2>1. FrameShape(Frame(p))
    BY <1>1, FrameIsFramed
  <2>2. \A i \in 1 .. room : Frame(p)[i] \in Byte /\ Frame(p)[i] # End
    BY <2>1 DEF FrameShape
  <2>3. /\ f \in Seq(Byte) /\ Len(f) = room
        /\ \A i \in 1 .. room : f[i] = Frame(p)[i]
    BY <2>2, SubSeqProperties
  <2> HIDE DEF f
  <2>4. room # 0 => f[1] = Frame(p)[1]
    BY <2>3
  <2> QED BY <2>1, <2>2, <2>3, <2>4 DEF FrameShape
<1> HIDE DEF f
<1>3. /\ x \in Seq(Byte) /\ Len(x) = Len(bytes) + room
      /\ \A i \in 1 .. Len(bytes) : x[i] = bytes[i]
      /\ \A i \in 1 .. room : x[Len(bytes) + i] = f[i]
  BY <1>2
<1>4. Len(bytes) \in Nat
  OBVIOUS
<1> HIDE DEF x
<1>5. FramesStart(x)
  BY <1>2, ConcatStarts DEF x
<1>6. Queued(x) = Queued(bytes)
  <2> DEFINE z == Start(FALSE)
  <2>1. z \in ScanState
    BY StartType, Zenon
  <2> HIDE DEF z
  <2>2. PICK u \in ScanState : u = Scan(z, bytes)
    BY <2>1, ScanType
  <2>3. Scan(z, x) = Scan(u, f)
    BY <1>2, <2>2, ScanConcat DEF x
  <2>4. Scan(u, f).found = u.found
    BY <1>2, ScanOpenEnd
  <2> QED BY <2>2, <2>3, <2>4 DEF Queued, z
<1> QED BY <1>3, <1>5, <1>6 DEF x, f

\* PROTO_ParseRb takes the oldest packet out, ...
Takes(bytes) ==
  \E p \in Seq(Byte), a \in Seq(Byte) :
      /\ \A b \in BOOLEAN :
            PROTO_ParseRb(bytes, b) = [ok |-> TRUE, packet |-> p, rb |-> a]
      /\ Queued(bytes) = <<p>> \o Queued(a)
      /\ FramesStart(a)
      /\ Len(a) < Len(bytes)
      /\ a # <<>> => a[Len(a)] = bytes[Len(bytes)]

\* ... or empties a ring in which no packet is complete.
Empties(bytes) ==
      /\ \A b \in BOOLEAN :
            PROTO_ParseRb(bytes, b) = [ok |-> FALSE, packet |-> <<>>, rb |-> <<>>]
      /\ Queued(bytes) = <<>>
      /\ \A i \in 1 .. Len(bytes) : bytes[i] # End

LEMMA ParseRb ==
  ASSUME NEW bytes \in Seq(Byte), FramesStart(bytes)
  PROVE  Takes(bytes) \/ Empties(bytes)
<1>1. CASE \A i \in 1 .. Len(bytes) : bytes[i] # End
  BY <1>1, ParseNone, QueuedNone DEF Empties
<1>2. CASE \E i \in 1 .. Len(bytes) : bytes[i] = End
  <2>1. PICK e : FirstEnd(bytes, e)
    BY <1>2, FirstEndExists
  <2>2. PICK p \in Seq(Byte) :
            /\ Queued(bytes) = <<p>> \o Queued(After(bytes, e))
            /\ \A b \in BOOLEAN : Scan(Start(b), Before(bytes, e)).found[1] = p
    BY <2>1, QueuedFirst
  <2>3. PICK a \in Seq(Byte) : a = After(bytes, e)
    BY <2>1, CutAtEnd
  <2>4. \A b \in BOOLEAN :
            PROTO_ParseRb(bytes, b) = [ok |-> TRUE, packet |-> p, rb |-> a]
    BY <2>1, <2>2, <2>3, ParseFirst
  <2>5. /\ e \in 1 .. Len(bytes) /\ Len(bytes) \in Nat
        /\ \A i \in e + 1 .. Len(bytes) : bytes[i] \in Byte
    BY <2>1, LenProperties DEF FirstEnd
  <2>6. Len(a) = Len(bytes) - e /\ \A i \in 1 .. Len(bytes) - e : a[i] = bytes[e + i]
    <3>1. \A i \in 1 .. Len(bytes) - (e + 1) + 1 : a[i] = bytes[(e + 1) + i - 1]
      BY <2>3, <2>5, SubSeqProperties DEF After
    <3>2. Len(a) = IF e + 1 <= Len(bytes) THEN Len(bytes) - (e + 1) + 1 ELSE 0
      BY <2>3, <2>5, SubSeqProperties DEF After
    <3> QED BY <2>5, <3>1, <3>2
  <2>7. FramesStart(a)
    <3> SUFFICES ASSUME NEW i \in 1 .. Len(a), i = 1 \/ a[i - 1] = End
                 PROVE  a[i] = Begin
      BY DEF FramesStart
    <3>1. e + i \in 1 .. Len(bytes) /\ e + i # 1 /\ a[i] = bytes[e + i]
      BY <2>5, <2>6
    <3>2. bytes[(e + i) - 1] = End
      <4>1. CASE i = 1
        BY <2>1, <4>1, <2>5 DEF FirstEnd
      <4>2. CASE i # 1
        <5>1. i - 1 \in 1 .. Len(bytes) - e /\ e + (i - 1) = (e + i) - 1
          BY <2>5, <2>6, <4>2
        <5> QED BY <2>6, <4>2, <5>1
      <4> QED BY <4>1, <4>2
    <3> QED BY <3>1, <3>2 DEF FramesStart
  <2>8. Len(a) < Len(bytes) /\ (a # <<>> => a[Len(a)] = bytes[Len(bytes)])
    BY <2>5, <2>6
  <2>9. Takes(bytes)
    BY <2>2, <2>3, <2>4, <2>7, <2>8 DEF Takes
  <2> QED BY <2>9
<1> QED BY <1>1, <1>2

\* The queue without its oldest packet.
LEMMA OldestPacket ==
  ASSUME NEW p \in Seq(Byte), NEW q \in Seq(Seq(Byte)), <<p>> \o q \in Seq(Packets)
  PROVE  /\ p \in Packets
         /\ q \in Seq(Packets)
         /\ <<p>> \o q # <<>>
         /\ Head(<<p>> \o q) = p
         /\ Tail(<<p>> \o q) = q
<1> DEFINE S == Seq(Byte)
           x == <<p>> \o q
<1>1. p \in S /\ q \in Seq(S)
  OBVIOUS
<1> HIDE DEF S
<1>2. x # <<>> /\ Head(x) = p /\ Tail(x) = q
  BY <1>1
<1>3. x \in Seq(Packets)
  OBVIOUS
<1> HIDE DEF x
<1>4. Head(x) \in Packets /\ Tail(x) \in Seq(Packets)
  BY <1>2, <1>3, HeadTailProperties
<1> QED BY <1>2, <1>4 DEF x

LEMMA QueuedType ==
  ASSUME NEW bytes \in Seq(Byte)
  PROVE  Queued(bytes) \in Seq(Seq(Byte))
<1>1. Start(FALSE) \in ScanState
  BY StartType, Zenon
<1> QED BY <1>1, ScanType, StateParts DEF Queued

LEMMA QueuedEmpty == Queued(<<>>) = <<>>
<1>1. Start(FALSE).found = <<>>
  BY StartType, Zenon
<1> QED BY <1>1, ScanEmpty DEF Queued

LEMMA InitInv == Init => IInv
<1> SUFFICES ASSUME Init PROVE IInv
  OBVIOUS
<1>1. rb = <<>> /\ rb \in Seq(Byte) /\ Len(rb) = 0
  BY EmptySeq DEF Init
<1>2. Queued(rb) = <<>>
  BY <1>1, QueuedEmpty
<1>3. FramesStart(rb)
  BY <1>1 DEF FramesStart
<1>4. TypeOK
  BY <1>1, SizesAssumption DEF Init, TypeOK
<1> QED BY <1>1, <1>2, <1>3, <1>4, EmptySeq
        DEF Init, IInv, QueuingPacket, FramesEnd, WholePackets

LEMMA InitRefines == Init => Abstract!Init
<1> SUFFICES ASSUME Init PROVE Queued(rb) = <<>> /\ sent = <<>>
  BY DEF Abstract!Init
<1> QED BY QueuedEmpty DEF Init

\* A packet to be queued changes nothing in the ring.
LEMMA PublishStep ==
  ASSUME IInv, NEW p \in Packets, Publish(p)
  PROVE  IInv' /\ UNCHANGED <<Queued(rb), sent>>
<1>1. rb' = rb /\ sent' = sent /\ result' = result /\ pc' = "puts" /\ msg' = p
  BY DEF Publish
<1>2. TypeOK'
  BY <1>1 DEF IInv, TypeOK
<1>3. Queued(rb)' = Queued(rb) /\ FramesStart(rb)'
  BY <1>1 DEF IInv
<1> QED BY <1>1, <1>2, <1>3 DEF IInv, QueuingPacket, FramesEnd, WholePackets

\* A packet that fits is queued as the newest.
LEMMA PutsFits ==
  ASSUME IInv, QUEUE_Puts, PROTO_AddRb(rb, msg).ok
  PROVE  IInv' /\ Abstract!Enqueue
<1>1. /\ rb \in Seq(Byte) /\ msg \in Packets /\ FramesStart(rb)
      /\ Queued(rb) \in Seq(Packets)
  BY DEF IInv, TypeOK, QueuingPacket, WholePackets, QUEUE_Puts
<1>2. Len(Frame(msg)) <= RB_SIZE - Len(rb)
  BY DEF PROTO_AddRb
<1>3. rb' = rb \o Frame(msg) /\ pc' = "idle" /\ msg' = <<>> /\ result' = TRUE
      /\ sent' = sent
  BY <1>2 DEF QUEUE_Puts, PROTO_AddRb
<1>4. /\ rb' \in Seq(Byte)
      /\ Len(rb') = Len(rb) + Len(Frame(msg))
      /\ rb'[Len(rb')] = End
      /\ FramesStart(rb')
      /\ Queued(rb') = Append(Queued(rb), msg)
  BY <1>1, <1>3, AddFrame
<1>5. Len(rb') <= RB_SIZE
  <2>1. msg \in Seq(Byte) /\ Len(msg) <= BUF_SIZE
    BY <1>1, PacketsAssumption, SizesAssumption
  <2>2. Len(Frame(msg)) \in Nat /\ Len(rb) \in Nat
    BY <1>1, <2>1, FrameIsFramed, LenProperties DEF FrameShape
  <2> QED BY <1>2, <1>4, <2>2, SizesAssumption
<1>6. TypeOK'
  BY <1>3, <1>4, <1>5 DEF IInv, TypeOK
<1>7. Queued(rb') \in Seq(Packets)
  BY <1>1, <1>4, AppendProperties
<1>8. IInv'
  BY <1>3, <1>4, <1>6, <1>7 DEF IInv, QueuingPacket, FramesEnd, WholePackets
<1> QED BY <1>1, <1>3, <1>4, <1>8 DEF Abstract!Enqueue

\* What was put of one that does not fit is no packet.
LEMMA PutsFails ==
  ASSUME IInv, QUEUE_Puts, ~PROTO_AddRb(rb, msg).ok
  PROVE  IInv' /\ UNCHANGED <<Queued(rb), sent>>
<1> DEFINE room == RB_SIZE - Len(rb)
<1>1. /\ rb \in Seq(Byte) /\ msg \in Packets /\ FramesStart(rb)
      /\ Queued(rb) \in Seq(Packets)
  BY DEF IInv, TypeOK, QueuingPacket, WholePackets, QUEUE_Puts
<1>2. ~(Len(Frame(msg)) <= room)
  BY DEF PROTO_AddRb
<1>3. rb' = rb \o SubSeq(Frame(msg), 1, room) /\ pc' = "gets" /\ msg' = msg
      /\ result' = result /\ sent' = sent
  BY <1>2 DEF QUEUE_Puts, PROTO_AddRb
<1>4. room \in Nat /\ room < Len(Frame(msg)) /\ Len(rb) \in Nat
  <2>1. msg \in Seq(Byte) /\ Len(msg) <= BUF_SIZE
    BY <1>1, PacketsAssumption, SizesAssumption
  <2>2. Len(Frame(msg)) \in Nat /\ Len(rb) \in Nat
    BY <1>1, <2>1, FrameIsFramed, LenProperties DEF FrameShape
  <2>3. Len(rb) <= RB_SIZE
    BY DEF IInv, TypeOK
  <2> QED BY <1>2, <2>2, <2>3, SizesAssumption
<1> HIDE DEF room
<1>5. /\ rb' \in Seq(Byte)
      /\ Len(rb') = Len(rb) + room
      /\ FramesStart(rb')
      /\ Queued(rb') = Queued(rb)
  BY <1>1, <1>3, <1>4, AddPart
<1>6. TypeOK'
  BY <1>1, <1>3, <1>4, <1>5, SizesAssumption DEF IInv, TypeOK, room
<1> QED BY <1>1, <1>3, <1>5, <1>6 DEF IInv, QueuingPacket, FramesEnd, WholePackets

\* Taking a packet out: the next but it are the queue, the ring got shorter.
LEMMA TakenOut ==
  ASSUME IInv, NEW isBegin \in BOOLEAN, PROTO_ParseRb(rb, isBegin).ok
  PROVE  \E p \in Packets, a \in Seq(Byte) :
            /\ PROTO_ParseRb(rb, isBegin) = [ok |-> TRUE, packet |-> p, rb |-> a]
            /\ Queued(rb) # <<>>
            /\ p = Head(Queued(rb))
            /\ Queued(a) = Tail(Queued(rb))
            /\ Queued(a) \in Seq(Packets)
            /\ FramesStart(a)
            /\ Len(a) <= RB_SIZE
            /\ a # <<>> => rb # <<>> /\ a[Len(a)] = rb[Len(rb)]
<1>1. /\ rb \in Seq(Byte) /\ FramesStart(rb) /\ Len(rb) <= RB_SIZE
      /\ Queued(rb) \in Seq(Packets)
  BY DEF IInv, TypeOK, WholePackets
<1>2. Takes(rb)
  BY <1>1, ParseRb DEF Empties
<1>3. PICK p \in Seq(Byte), a \in Seq(Byte) :
          /\ PROTO_ParseRb(rb, isBegin) = [ok |-> TRUE, packet |-> p, rb |-> a]
          /\ Queued(rb) = <<p>> \o Queued(a)
          /\ FramesStart(a)
          /\ Len(a) < Len(rb)
          /\ a # <<>> => a[Len(a)] = rb[Len(rb)]
  BY <1>2 DEF Takes
<1>4. Queued(a) \in Seq(Seq(Byte)) /\ <<p>> \o Queued(a) \in Seq(Packets)
  BY <1>1, <1>3, QueuedType
<1>5. /\ p \in Packets /\ Queued(a) \in Seq(Packets) /\ Queued(rb) # <<>>
      /\ Head(Queued(rb)) = p /\ Tail(Queued(rb)) = Queued(a)
  BY <1>3, <1>4, OldestPacket
<1>6. Len(a) <= RB_SIZE /\ rb # <<>>
  <2>1. Len(a) \in Nat /\ Len(rb) \in Nat
    BY <1>1, <1>3
  <2>2. rb # <<>>
    BY <1>3, <2>1, EmptySeq
  <2> QED BY <1>1, <1>3, <2>1, <2>2, SizesAssumption
<1> QED BY <1>3, <1>5, <1>6

\* What a parse that fails leaves is the empty ring of an empty queue.
LEMMA NothingOut ==
  ASSUME IInv, NEW isBegin \in BOOLEAN, ~PROTO_ParseRb(rb, isBegin).ok
  PROVE  /\ PROTO_ParseRb(rb, isBegin).rb = <<>>
         /\ Queued(rb) = <<>>
         /\ \A i \in 1 .. Len(rb) : rb[i] # End
<1>1. rb \in Seq(Byte) /\ FramesStart(rb)
  BY DEF IInv, TypeOK
<1>2. ~Takes(rb)
  <2> SUFFICES ASSUME Takes(rb) PROVE FALSE
    OBVIOUS
  <2>1. PICK p, a : PROTO_ParseRb(rb, isBegin) = [ok |-> TRUE, packet |-> p, rb |-> a]
    BY DEF Takes
  <2> QED BY <2>1
<1>3. Empties(rb)
  BY <1>1, <1>2, ParseRb
<1> QED BY <1>3 DEF Empties

\* An empty ring satisfies whatever is said of the ring.
LEMMA EmptyRing ==
  ASSUME rb' = <<>>
  PROVE  /\ rb' \in Seq(Byte) /\ Len(rb') <= RB_SIZE
         /\ FramesStart(rb') /\ FramesEnd'
         /\ Queued(rb') = <<>> /\ WholePackets'
<1>1. rb' \in Seq(Byte) /\ Len(rb') = 0
  BY EmptySeq
<1>2. Queued(rb') = <<>>
  BY QueuedEmpty
<1>3. FramesStart(rb') /\ FramesEnd'
  BY <1>1 DEF FramesStart, FramesEnd
<1>4. WholePackets'
  BY <1>2, EmptySeq DEF WholePackets
<1> QED BY <1>1, <1>2, <1>3, <1>4, SizesAssumption

\* The loop drops the oldest packet, ...
LEMMA GetsPacket ==
  ASSUME IInv, QUEUE_Gets, NEW isBegin \in BOOLEAN, PROTO_ParseRb(rb, isBegin).ok,
         rb' = PROTO_ParseRb(rb, isBegin).rb, pc' = "puts",
         UNCHANGED <<msg, result, sent>>
  PROVE  IInv' /\ Abstract!DropOldest
<1>1. PICK p \in Packets, a \in Seq(Byte) :
            /\ PROTO_ParseRb(rb, isBegin) = [ok |-> TRUE, packet |-> p, rb |-> a]
            /\ Queued(rb) # <<>>
            /\ Queued(a) = Tail(Queued(rb))
            /\ Queued(a) \in Seq(Packets)
            /\ FramesStart(a)
            /\ Len(a) <= RB_SIZE
  BY TakenOut
<1>2. rb' = a
  BY <1>1
<1>3. TypeOK'
  BY <1>1, <1>2 DEF IInv, TypeOK
<1>4. QueuingPacket'
  BY DEF IInv, QueuingPacket, QUEUE_Gets
<1> QED BY <1>1, <1>2, <1>3, <1>4
        DEF IInv, FramesEnd, WholePackets, Abstract!DropOldest

\* ... or gives up with the ring emptied.
LEMMA GetsNothing ==
  ASSUME IInv, QUEUE_Gets, NEW isBegin \in BOOLEAN, ~PROTO_ParseRb(rb, isBegin).ok,
         rb' = PROTO_ParseRb(rb, isBegin).rb, pc' = "idle", msg' = <<>>,
         result' = FALSE, sent' = sent
  PROVE  IInv' /\ UNCHANGED <<Queued(rb), sent>>
<1>1. rb' = <<>> /\ Queued(rb) = <<>>
  BY NothingOut
<1>2. /\ rb' \in Seq(Byte) /\ Len(rb') <= RB_SIZE
      /\ FramesStart(rb') /\ FramesEnd'
      /\ Queued(rb') = <<>> /\ WholePackets'
  BY <1>1, EmptyRing
<1>3. TypeOK' /\ QueuingPacket'
  BY <1>2 DEF IInv, TypeOK, QueuingPacket
<1> QED BY <1>1, <1>2, <1>3 DEF IInv

\* MQTT_Task sends the oldest packet: there is one.
LEMMA TaskSends ==
  ASSUME IInv, MQTT_Task
  PROVE  IInv' /\ Abstract!Take
<1>1. PICK isBegin \in BOOLEAN :
          /\ rb' = PROTO_ParseRb(rb, isBegin).rb
          /\ sent' = IF PROTO_ParseRb(rb, isBegin).ok
                     THEN PROTO_ParseRb(rb, isBegin).packet ELSE sent
  BY DEF MQTT_Task
<1>2. rb \in Seq(Byte) /\ rb # <<>> /\ rb[Len(rb)] = End
  BY DEF IInv, TypeOK, FramesEnd, MQTT_Task
<1>3. PROTO_ParseRb(rb, isBegin).ok
  <2>1. Len(rb) \in 1 .. Len(rb)
    BY <1>2
  <2> QED BY <1>2, <2>1, NothingOut
<1>4. PICK p \in Packets, a \in Seq(Byte) :
            /\ PROTO_ParseRb(rb, isBegin) = [ok |-> TRUE, packet |-> p, rb |-> a]
            /\ Queued(rb) # <<>>
            /\ p = Head(Queued(rb))
            /\ Queued(a) = Tail(Queued(rb))
            /\ Queued(a) \in Seq(Packets)
            /\ FramesStart(a)
            /\ Len(a) <= RB_SIZE
            /\ a # <<>> => rb # <<>> /\ a[Len(a)] = rb[Len(rb)]
  BY <1>3, TakenOut
<1>5. rb' = a /\ sent' = p /\ pc' = pc /\ msg' = msg /\ result' = result
  BY <1>1, <1>4 DEF MQTT_Task
<1>6. TypeOK'
  BY <1>4, <1>5 DEF IInv, TypeOK
<1>7. QueuingPacket' /\ FramesEnd'
  BY <1>2, <1>4, <1>5 DEF IInv, QueuingPacket, FramesEnd
<1> QED BY <1>4, <1>5, <1>6, <1>7 DEF IInv, WholePackets, Abstract!Take

\* Every step keeps the invariant and is a step of the queue of packets.
LEMMA NextStep == IInv /\ [Next]_vars => IInv' /\ [Abstract!Next]_(Abstract!vars)
<1> SUFFICES ASSUME IInv, [Next]_vars
             PROVE  IInv' /\ [Abstract!Next]_(Abstract!vars)
  OBVIOUS
<1> USE DEF Abstract!Next, Abstract!vars
<1>1. ASSUME NEW p \in Packets, Publish(p)
      PROVE  IInv' /\ [Abstract!Next]_(Abstract!vars)
  BY <1>1, PublishStep
<1>2. CASE QUEUE_Puts
  BY <1>2, PutsFits, PutsFails
<1>3. CASE QUEUE_Gets
  <2>1. PICK isBegin \in BOOLEAN :
            /\ rb' = PROTO_ParseRb(rb, isBegin).rb
            /\ \/ /\ PROTO_ParseRb(rb, isBegin).ok
                  /\ pc' = "puts" /\ UNCHANGED <<msg, result>>
               \/ /\ ~PROTO_ParseRb(rb, isBegin).ok
                  /\ pc' = "idle" /\ msg' = <<>> /\ result' = FALSE
    BY <1>3 DEF QUEUE_Gets
  <2>2. sent' = sent
    BY <1>3 DEF QUEUE_Gets
  <2>3. CASE PROTO_ParseRb(rb, isBegin).ok
    BY <1>3, <2>1, <2>2, <2>3, GetsPacket
  <2>4. CASE ~PROTO_ParseRb(rb, isBegin).ok
    BY <1>3, <2>1, <2>2, <2>4, GetsNothing
  <2> QED BY <2>3, <2>4
<1>4. CASE MQTT_Task
  BY <1>4, TaskSends
<1>5. CASE UNCHANGED vars
  BY <1>5 DEF vars, IInv, TypeOK, QueuingPacket, FramesStart, FramesEnd,
              WholePackets, Queued
<1> QED BY <1>1, <1>2, <1>3, <1>4, <1>5 DEF Next, Loop

LEMMA Invariant == Spec => []IInv
BY InitInv, NextStep, PTL DEF Spec

(***************************************************************************)
(* The theorems.                                                           *)
(***************************************************************************)

\* The ring never overflows, and nothing but packets is in the loop of
\* MQTT_Publish or handed to the connection.
THEOREM QueueTypeCorrect == Spec => []TypeOK
<1>1. IInv => TypeOK
  BY DEF IInv
<1> QED BY <1>1, Invariant, PTL

\* Whatever isBegin was on the stack, PROTO_ParseRb takes the same out.
THEOREM StaleBeginIsHarmless == Spec => []StaleBeginHarmless
<1>1. IInv => StaleBeginHarmless
  <2> SUFFICES ASSUME IInv PROVE StaleBeginHarmless
    OBVIOUS
  <2>1. rb \in Seq(Byte) /\ FramesStart(rb)
    BY DEF IInv, TypeOK
  <2>2. CASE Takes(rb)
    BY <2>2 DEF Takes, StaleBeginHarmless
  <2>3. CASE Empties(rb)
    BY <2>3 DEF Empties, StaleBeginHarmless
  <2> QED BY <2>1, <2>2, <2>3, ParseRb
<1> QED BY <1>1, Invariant, PTL

\* MQTT_Task, run because the ring is not empty, finds a packet in it.
THEOREM NonemptyRingHasPacket == Spec => []NonemptyHasPacket
<1>1. IInv => NonemptyHasPacket
  <2> SUFFICES ASSUME IInv, pc = "idle", rb # <<>>, ~PROTO_ParseRb(rb, FALSE).ok
               PROVE  FALSE
    BY DEF NonemptyHasPacket
  <2>1. rb \in Seq(Byte) /\ rb[Len(rb)] = End
    BY DEF IInv, TypeOK, FramesEnd
  <2>2. \A i \in 1 .. Len(rb) : rb[i] # End
    BY NothingOut, Zenon
  <2>3. Len(rb) \in 1 .. Len(rb)
    BY <2>1
  <2> QED BY <2>1, <2>2, <2>3
<1> QED BY <1>1, Invariant, PTL

\* Escaped and framed in a ring that overflows, read with an uninitialized
\* flag, the packets come out whole and in order: the message queue implements
\* the queue of packets.
THEOREM QueueIsPacketQueue == Spec => ImplementsQueue
BY Invariant, InitRefines, NextStep, PTL DEF Spec, Abstract!Spec, ImplementsQueue

=============================================================================
