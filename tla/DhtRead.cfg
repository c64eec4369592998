\* One reading, with one interrupt or failure at any point of it.
CONSTANTS
    Readings <- MCReadings
    ShortPolls = 1
    LongPolls = 2
    LowPolls = 2
    DHT_BREAKTIME = 1
    MaxFaults = 1
    MaxSkip = 2
SPECIFICATION Spec
INVARIANTS
    CleanReadingAccepted
    BelievedIsSent
PROPERTIES
    ReadingEnds
CHECK_DEADLOCK FALSE
