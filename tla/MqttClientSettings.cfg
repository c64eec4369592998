SPECIFICATION Spec
CONSTANTS
    KEEPALIVE = 2
    RECONNECT_TIMEOUT = 1
    SEND_TIMEOUT = 2
    QueueLen = 2
    HostIsName = FALSE
    MaxFaults = 0
    OrphansCallBack = FALSE
INVARIANT
    NoSettingSkipped
