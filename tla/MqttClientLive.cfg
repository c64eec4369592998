SPECIFICATION FairSpec
CONSTANTS
    KEEPALIVE = 2
    RECONNECT_TIMEOUT = 1
    SEND_TIMEOUT = 2
    QueueLen = 2
    HostIsName = TRUE
    MaxFaults = 3
    OrphansCallBack = FALSE
INVARIANTS
    SubscribeWaits
PROPERTIES
    NothingBeforeConnack
    EventuallySubscribed
    ImplementsSession
    SessionGoesOn
