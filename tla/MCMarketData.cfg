\* Three contracts, each subscribed and cancelled by one goroutine at a time,
\* and traffic that pauses.
CONSTANTS
    Contracts <- MCContracts
    Key <- MCKey
    MaxReq = 2
    MaxMsgs = 3
    Exclusive = TRUE
SPECIFICATION FairSpec
INVARIANTS NoOrphanStream CancelOnlyOwn AtMostOneLateBar
PROPERTIES UpdateAnnounced
CHECK_DEADLOCK FALSE
