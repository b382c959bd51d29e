\* One call of each method, streaming two results, and Disconnect at any time.
CONSTANTS
    MaxReq = 1
    MaxItems = 2
    MaxConn = 2
    Kinds = {"ContractDetails", "AccountSummary", "SecDefOptParams", "HistoricalData"}
    Reconnect = TRUE
    UserDisconnect = TRUE
SPECIFICATION Spec
INVARIANTS TypeOK NoPartialAnswer AnsweredOnce
CHECK_DEADLOCK FALSE
PROPERTY ImplementsCalls
