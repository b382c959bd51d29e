\* The second of three connections meets a Disconnect meant for the first.
CONSTANTS
    MaxConn = 3
    Disconnecters = {"loop", "heartbeat", "user"}
    MaxRetries = 0
    DelayOutlasts = TRUE
SPECIFICATION UserFairSpec
PROPERTY Reconnects
CHECK_DEADLOCK FALSE
