\* Safety and liveness of the fan logic.
CONSTANTS
    DHT_COUNTER = 2
    Unit = 2
    Readings <- MCReadings
    Payloads <- MCPayloads
    AbsHumidity <- MCAbsHumidity
SPECIFICATION FairSpec
INVARIANTS
    CountersBelowLimit
    NoRelayFlap
    ReportsAgree
PROPERTIES
    RelayRests
    HysteresisKept
    DecisionSafe
    ForcedFanStarts
    ColdFanStops
    DampFanRuns
