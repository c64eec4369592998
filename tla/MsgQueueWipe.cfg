\* A packet longer than all queued ones empties the queue and is refused.
CONSTANTS
    RB_SIZE = 12
    BUF_SIZE = 4
    Packets <- MCPackets
SPECIFICATION Spec
INVARIANTS
    FittingPacketQueued
