---------------------------- MODULE PacketQueue ----------------------------
(* What the message queue of the client promises: packets come out whole and *)
(* in the order they went in; to make room the oldest are given up first.    *)
EXTENDS Sequences

CONSTANT Packets

VARIABLES q,        \* the packets queued, oldest first
          taken     \* the packet last taken out for sending

vars == <<q, taken>>

Init ==
    /\ q = <<>>
    /\ taken = <<>>

Enqueue ==
    /\ \E p \in Packets : q' = Append(q, p)
    /\ UNCHANGED taken

DropOldest ==
    /\ q # <<>>
    /\ q' = Tail(q)
    /\ UNCHANGED taken

Take ==
    /\ q # <<>>
    /\ taken' = Head(q)
    /\ q' = Tail(q)

Next == Enqueue \/ DropOldest \/ Take

Spec == Init /\ [][Next]_vars

=============================================================================
