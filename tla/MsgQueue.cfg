\* The queue of packets keeps its promise, whatever the ring contains.
CONSTANTS
    RB_SIZE = 12
    BUF_SIZE = 4
    Packets <- MCPackets
SPECIFICATION FairSpec
INVARIANTS
    TypeOK
    StaleBeginHarmless
    NonemptyHasPacket
PROPERTIES
    ImplementsQueue
    PublishEnds
