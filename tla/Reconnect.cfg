\* Three connections: one fails, one is lost, one is tried again.
CONSTANTS
    MaxConn = 3
    Disconnecters = {"loop", "heartbeat"}
    MaxRetries = 1
    DelayOutlasts = TRUE
SPECIFICATION FairSpec
INVARIANTS TypeOK ReadyMeansHandshake HeartbeatEndsOwnConnection 
PROPERTIES ConnectProceeds SilentPeerDetected CancelReturns
CHECK_DEADLOCK FALSE
