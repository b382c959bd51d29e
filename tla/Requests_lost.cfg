\* Two calls of two different kinds on one connection that may be lost.
CONSTANTS
    MaxReq = 2
    MaxItems = 2
    MaxConn = 1
    Kinds = {"ContractDetails", "HistoricalData"}
    Reconnect = FALSE
    UserDisconnect = FALSE
SPECIFICATION FairSpec
INVARIANTS CompleteAnswer AnsweredIsForgotten
PROPERTIES AnsweredReturns LostConnectionReleases
CHECK_DEADLOCK FALSE
