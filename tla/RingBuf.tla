------------------------------ MODULE RingBuf ------------------------------
(***************************************************************************)
(* The byte ring of mqtt/ringbuf.c that backs the client's message queue.  *)
(* Pointers are indexes into the array (p_o is 0).  The calls come from    *)
(* callbacks that are never preempted, so each is one action.              *)
(***************************************************************************)
EXTENDS Integers, Sequences

CONSTANTS Size,     \* RINGBUF.size: QUEUE_BUFFER_SIZE in the firmware
          Byte      \* the bytes that are put

ASSUME SizeAssumption == Size \in Nat /\ Size >= 2   \* RINGBUF_Init refuses less
ASSUME ByteAssumption == 0 \in Byte                  \* os_zalloc clears the array

VARIABLES buf, p_r, p_w, fill_cnt,
          ret       \* what the last call returned: a status, and a Get's byte

vars == <<buf, p_r, p_w, fill_cnt, ret>>

Index == 0 .. Size - 1

Ok(c) == [status |-> 0, byte |-> {c}]
Fail == [status |-> -1, byte |-> {}]
Done == [status |-> 0, byte |-> {}]

RINGBUF_Init ==
    /\ buf = [i \in Index |-> 0]
    /\ p_r = 0
    /\ p_w = 0
    /\ fill_cnt = 0
    /\ ret = Done

\* A pointer past the physical boundary goes back to the start.
Advance(p) == IF p + 1 >= Size THEN 0 ELSE p + 1

\* Mutant: a full ring overwrites its oldest byte.
PutOverwrites(c) ==
    /\ fill_cnt >= Size
    /\ buf' = [buf EXCEPT ![p_w] = c]
    /\ p_w' = Advance(p_w)
    /\ ret' = Done
    /\ UNCHANGED <<p_r, fill_cnt>>

PutFull(c) ==
    /\ fill_cnt >= Size
    /\ ret' = Fail
    /\ UNCHANGED <<buf, p_r, p_w, fill_cnt>>

PutByte(c) ==
    /\ fill_cnt < Size
    /\ fill_cnt' = fill_cnt + 1
    /\ buf' = [buf EXCEPT ![p_w] = c]
    /\ p_w' = Advance(p_w)
    /\ ret' = Done
    /\ UNCHANGED p_r

RINGBUF_Put(c) == PutFull(c) \/ PutByte(c)

GetEmpty ==
    /\ fill_cnt <= 0
    /\ ret' = Fail
    /\ UNCHANGED <<buf, p_r, p_w, fill_cnt>>

\* Mutant: the read pointer goes forward after a whole round only.
GetInPlace ==
    /\ fill_cnt > 0
    /\ fill_cnt' = fill_cnt - 1
    /\ ret' = Ok(buf[p_r])
    /\ UNCHANGED <<buf, p_w, p_r>>

GetByte ==
    /\ fill_cnt > 0
    /\ fill_cnt' = fill_cnt - 1
    /\ ret' = Ok(buf[p_r])
    /\ p_r' = Advance(p_r)
    /\ UNCHANGED <<buf, p_w>>

RINGBUF_Get == GetEmpty \/ GetByte

Next == RINGBUF_Get \/ \E c \in Byte : RINGBUF_Put(c)

Spec == RINGBUF_Init /\ [][Next]_vars

-----------------------------------------------------------------------------
(* Properties.                                                              *)

\* The pointers stay in the array and the count within its size.
TypeOK ==
    /\ buf \in [Index -> Byte]
    /\ p_r \in Index
    /\ p_w \in Index
    /\ fill_cnt \in 0 .. Size
    /\ ret \in {Fail, Done} \cup {Ok(c) : c \in Byte}

\* Where slot k of the p_r end lies in the array.
Slot(k) == IF p_r + k >= Size THEN p_r + k - Size ELSE p_r + k

\* The three fields agree: the write pointer is fill_cnt slots ahead of the
\* read pointer, round the end of the array.  Full and empty both have
\* p_r = p_w, and only the count tells them apart.
PointersAgree ==
    \/ fill_cnt < Size /\ p_w = Slot(fill_cnt)
    \/ fill_cnt = Size /\ p_w = p_r

\* The bytes held, oldest first.
Contents == [k \in 1 .. fill_cnt |-> buf[Slot(k - 1)]]

Fifo == INSTANCE BoundedFifo WITH q <- Contents

\* The ring is a bounded first-in first-out queue: nothing is lost,
\* reordered or overwritten, across any number of wraps.
ImplementsFifo == Fifo!Spec

=============================================================================
