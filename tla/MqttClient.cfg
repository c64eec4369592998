SPECIFICATION Spec
CONSTANTS
    KEEPALIVE = 2
    RECONNECT_TIMEOUT = 1
    SEND_TIMEOUT = 2
    QueueLen = 2
    HostIsName = TRUE
    MaxFaults = 3
    OrphansCallBack = TRUE
INVARIANTS
    NoLostWakeup
    NoStall
    OneLostPerOpening
PROPERTY
    OnlyLateConnectStrands
