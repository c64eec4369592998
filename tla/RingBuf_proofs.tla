--------------------------- MODULE RingBuf_proofs ---------------------------
(* For every size and every set of bytes the ring buffer is a bounded queue. *)
EXTENDS RingBuf, SequenceTheorems, TLAPS

IInv == TypeOK /\ PointersAgree

LEMMA InitInv == RINGBUF_Init => IInv
<1> SUFFICES ASSUME RINGBUF_Init PROVE IInv
  OBVIOUS
<1>1. TypeOK
  BY SizeAssumption, ByteAssumption DEF RINGBUF_Init, TypeOK, Index
<1>2. PointersAgree
  BY SizeAssumption DEF RINGBUF_Init, PointersAgree, Slot
<1> QED BY <1>1, <1>2 DEF IInv

LEMMA PutInv == ASSUME IInv, NEW c \in Byte, PutByte(c) PROVE IInv'
<1> USE SizeAssumption DEF IInv, PutByte
<1>1. TypeOK'
  BY DEF TypeOK, Advance, Index
<1>2. PointersAgree'
  BY DEF TypeOK, PointersAgree, Advance, Index, Slot
<1> QED BY <1>1, <1>2

LEMMA GetInv == ASSUME IInv, GetByte PROVE IInv'
<1> USE SizeAssumption DEF IInv, GetByte
<1>1. buf[p_r] \in Byte
  BY DEF TypeOK
<1>2. TypeOK'
  BY <1>1 DEF TypeOK, Advance, Index
<1>3. PointersAgree'
  BY DEF TypeOK, PointersAgree, Advance, Index, Slot
<1> QED BY <1>2, <1>3

LEMMA NextInv == IInv /\ [Next]_vars => IInv'
<1> SUFFICES ASSUME IInv, [Next]_vars PROVE IInv'
  OBVIOUS
<1>1. ASSUME NEW c \in Byte, PutByte(c) PROVE IInv'
  BY <1>1, PutInv
<1>2. CASE GetByte
  BY <1>2, GetInv
<1>3. ASSUME UNCHANGED <<buf, p_r, p_w, fill_cnt>>, ret' \in {ret, Fail}
      PROVE  IInv'
  BY <1>3 DEF IInv, TypeOK, PointersAgree, Slot
<1>4. CASE UNCHANGED vars
  BY <1>3, <1>4 DEF vars
<1>5. CASE GetEmpty
  BY <1>3, <1>5 DEF GetEmpty
<1>6. ASSUME NEW c \in Byte, PutFull(c) PROVE IInv'
  BY <1>3, <1>6 DEF PutFull
<1> QED BY <1>1, <1>2, <1>4, <1>5, <1>6 DEF Next, RINGBUF_Get, RINGBUF_Put

\* The pointers and the count always agree, whatever the calls.
THEOREM PointersAlwaysAgree == Spec => []PointersAgree
<1>1. Spec => []IInv
  BY InitInv, NextInv, PTL DEF Spec
<1>2. IInv => PointersAgree
  BY DEF IInv
<1> QED BY <1>1, <1>2, PTL

(***************************************************************************)
(* Refinement.                                                             *)
(***************************************************************************)

ContentsOK ==
    /\ Contents \in Seq(Byte)
    /\ Len(Contents) = fill_cnt
    /\ \A k \in 1 .. fill_cnt : Contents[k] = buf[Slot(k - 1)]

\* The contents are a sequence of fill_cnt bytes.
LEMMA ContentsType == TypeOK => ContentsOK
<1> SUFFICES ASSUME TypeOK PROVE ContentsOK
  OBVIOUS
<1>1. \A k \in 1 .. fill_cnt : Slot(k - 1) \in Index
  BY SizeAssumption DEF TypeOK, Index, Slot
<1>2. Contents \in [1 .. fill_cnt -> Byte]
  BY <1>1 DEF TypeOK, Contents
<1>3. fill_cnt \in Nat
  BY SizeAssumption DEF TypeOK
<1> QED BY <1>2, <1>3, SeqDef DEF Contents, ContentsOK

LEMMA ContentsTypeNext == TypeOK' => ContentsOK'
BY ContentsType, PTL

\* A byte put is appended: the slot written is none of those that count.
LEMMA PutAppends ==
    ASSUME IInv, NEW c \in Byte, PutByte(c)
    PROVE  Contents' = Append(Contents, c)
<1>1. ContentsOK /\ ContentsOK'
  BY PutInv, ContentsType, ContentsTypeNext DEF IInv
<1>2. /\ Append(Contents, c) \in Seq(Byte)
      /\ Len(Append(Contents, c)) = fill_cnt + 1
      /\ \A k \in 1 .. fill_cnt : Append(Contents, c)[k] = buf[Slot(k - 1)]
      /\ Append(Contents, c)[fill_cnt + 1] = c
  BY <1>1, AppendProperties DEF ContentsOK
<1>3. /\ Contents' \in Seq(Byte)
      /\ Len(Contents') = fill_cnt + 1
      /\ \A k \in 1 .. fill_cnt + 1 : Contents'[k] = buf'[Slot(k - 1)]
  BY <1>1 DEF ContentsOK, PutByte, Slot
<1>4. \A k \in 1 .. fill_cnt + 1 :
        buf'[Slot(k - 1)] = IF k = fill_cnt + 1 THEN c ELSE buf[Slot(k - 1)]
  <2>1. p_w = Slot(fill_cnt) /\ fill_cnt \in Nat /\ fill_cnt < Size
    BY DEF IInv, PointersAgree, TypeOK, PutByte
  <2>2. \A k \in 1 .. fill_cnt : Slot(k - 1) \in Index /\ Slot(k - 1) # p_w
    BY <2>1, SizeAssumption DEF IInv, TypeOK, Index, Slot
  <2> QED BY <2>1, <2>2 DEF IInv, TypeOK, PutByte
<1>5. \A k \in 1 .. fill_cnt + 1 : Contents'[k] = Append(Contents, c)[k]
  BY <1>2, <1>3, <1>4 DEF IInv, TypeOK
<1> HIDE DEF Contents
<1> QED BY <1>2, <1>3, <1>5, SeqEqual

\* A byte got is the oldest, and the others stay in order.
LEMMA GetTakesHead ==
    ASSUME IInv, GetByte
    PROVE  /\ Contents # <<>>
           /\ Head(Contents) = buf[p_r]
           /\ Contents' = Tail(Contents)
<1>1. ContentsOK /\ ContentsOK'
  BY GetInv, ContentsType, ContentsTypeNext DEF IInv
<1>2. fill_cnt \in Nat /\ fill_cnt > 0 /\ fill_cnt' = fill_cnt - 1
  BY DEF IInv, TypeOK, GetByte
<1>3. Contents # <<>>
  BY <1>1, <1>2, EmptySeq DEF ContentsOK
<1>4. Head(Contents) = buf[p_r]
  <2>1. Contents[1] = buf[Slot(0)]
    BY <1>1, <1>2 DEF ContentsOK
  <2>2. Slot(0) = p_r
    BY SizeAssumption DEF IInv, TypeOK, Index, Slot
  <2>3. Head(Contents) = Contents[1]
    BY <1>1, <1>3 DEF ContentsOK
  <2> QED BY <2>1, <2>2, <2>3
<1>5. /\ Tail(Contents) \in Seq(Byte)
      /\ Len(Tail(Contents)) = fill_cnt - 1
      /\ \A k \in 1 .. fill_cnt - 1 : Tail(Contents)[k] = Contents[k + 1]
  BY <1>1, <1>3, HeadTailProperties DEF ContentsOK
<1>6. /\ Contents' \in Seq(Byte)
      /\ Len(Contents') = fill_cnt - 1
      /\ \A k \in 1 .. fill_cnt - 1 : Contents'[k] = buf'[Slot(k - 1)']
  BY <1>1, <1>2 DEF ContentsOK
<1>7. \A k \in 1 .. fill_cnt - 1 : buf'[Slot(k - 1)'] = Contents[k + 1]
  <2>1. \A k \in 1 .. fill_cnt - 1 : Slot(k - 1)' = Slot(k)
    BY <1>2, SizeAssumption DEF IInv, TypeOK, GetByte, Advance, Index, Slot
  <2>2. \A k \in 1 .. fill_cnt - 1 : Contents[k + 1] = buf[Slot(k)]
    BY <1>1, <1>2 DEF ContentsOK
  <2> QED BY <2>1, <2>2 DEF GetByte
<1>8. \A k \in 1 .. fill_cnt - 1 : Contents'[k] = Tail(Contents)[k]
  BY <1>2, <1>5, <1>6, <1>7
<1> QED BY <1>3, <1>4, <1>5, <1>6, <1>8, SeqEqual

LEMMA InitRefines == RINGBUF_Init => Fifo!Init
<1> SUFFICES ASSUME RINGBUF_Init PROVE Contents = <<>> /\ ret = Done
  BY DEF Fifo!Init, Fifo!Done, Done
<1> QED BY DEF RINGBUF_Init, Contents

LEMMA FillIsLength == IInv => Len(Contents) = fill_cnt /\ fill_cnt \in 0 .. Size
                              /\ Contents \in Seq(Byte)
BY ContentsType DEF IInv, TypeOK, ContentsOK

LEMMA NextRefines == IInv /\ [Next]_vars => [Fifo!Next]_(Fifo!vars)
<1> SUFFICES ASSUME IInv, [Next]_vars PROVE [Fifo!Next]_(Fifo!vars)
  OBVIOUS
<1> USE DEF Fifo!Next, Fifo!Put, Fifo!Get, Fifo!Ok, Fifo!Fail, Fifo!Done,
            Ok, Fail, Done
<1>1. Len(Contents) = fill_cnt /\ fill_cnt \in 0 .. Size
      /\ Contents \in Seq(Byte)
  BY FillIsLength
<1>2. UNCHANGED <<buf, p_r, p_w, fill_cnt>> => UNCHANGED Contents
  BY DEF Contents, Slot
<1>3. ASSUME NEW c \in Byte, PutByte(c) PROVE Fifo!Put(c)
  BY <1>1, <1>3, PutAppends, SizeAssumption DEF PutByte
<1>4. ASSUME NEW c \in Byte, PutFull(c) PROVE Fifo!Put(c)
  BY <1>1, <1>2, <1>4, SizeAssumption DEF PutFull
<1>5. CASE GetByte
  BY <1>5, GetTakesHead DEF GetByte
<1>6. CASE GetEmpty
  <2>1. Contents = <<>>
    BY <1>1, <1>6, EmptySeq, SizeAssumption DEF GetEmpty
  <2> QED BY <1>2, <1>6, <2>1 DEF GetEmpty
<1>7. CASE UNCHANGED vars
  BY <1>2, <1>7 DEF vars, Fifo!vars
<1> QED BY <1>3, <1>4, <1>5, <1>6, <1>7 DEF Next, RINGBUF_Get, RINGBUF_Put

\* The ring buffer implements the bounded queue.
THEOREM RingIsFifo == Spec => ImplementsFifo
<1>1. Spec => []IInv
  BY InitInv, NextInv, PTL DEF Spec
<1> QED BY <1>1, InitRefines, NextRefines, PTL DEF Spec, Fifo!Spec, ImplementsFifo
=============================================================================
