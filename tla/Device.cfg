\* Device, broker and server, with lost sessions and restarts.
CONSTANTS
    DHT_COUNTER = 1
    Unit = 1
    Readings <- MCReadings
    OutdoorAir <- MCOutdoorAir
    AbsHumidity <- MCAbsHumidity
    QueueLen = 3
    MaxFaults = 2
    MaxCommands = 2
SPECIFICATION FairSpec
INVARIANTS
    ServerFollowsFan
    DeviceFollowsServer
PROPERTIES
    CommandObeyed
    FanReported
