---------------------------- MODULE BoundedFifo ----------------------------
(* What the ring buffer of mqtt/ringbuf.c promises its callers: a queue of   *)
(* at most Size bytes that refuses a byte when full, says so when empty, and *)
(* otherwise gives back what was put, oldest first.                          *)
EXTENDS Integers, Sequences

CONSTANTS Size,     \* capacity in bytes
          Byte      \* the bytes that are put

VARIABLES q,        \* the bytes held, oldest first
          ret       \* what the last call returned: a status, and a Get's byte

vars == <<q, ret>>

Ok(c) == [status |-> 0, byte |-> {c}]
Fail == [status |-> -1, byte |-> {}]
Done == [status |-> 0, byte |-> {}]

Init ==
    /\ q = <<>>
    /\ ret = Done

Put(c) ==
    \/ /\ Len(q) < Size
       /\ q' = Append(q, c)
       /\ ret' = Done
    \/ /\ Len(q) = Size
       /\ ret' = Fail
       /\ UNCHANGED q

Get ==
    \/ /\ q # <<>>
       /\ q' = Tail(q)
       /\ ret' = Ok(Head(q))
    \/ /\ q = <<>>
       /\ ret' = Fail
       /\ UNCHANGED q

Next == Get \/ \E c \in Byte : Put(c)

Spec == Init /\ [][Next]_vars

=============================================================================
