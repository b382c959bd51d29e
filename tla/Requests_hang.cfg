\* A call made while the reconnect loop replaces the connection.
CONSTANTS
    MaxReq = 1
    MaxItems = 0
    MaxConn = 2
    Kinds = {"AccountSummary"}
    Reconnect = TRUE
    UserDisconnect = FALSE
SPECIFICATION FairSpec
PROPERTY LostConnectionReleases
CHECK_DEADLOCK FALSE
