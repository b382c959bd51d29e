\* Both methods at once, calls that overlap and are retried, and a live fill.
CONSTANTS
    Streams = {"positions", "completedOrders"}
    MaxCalls = 3
    MaxItems = 1
    MaxFills = 1
    SendMayFail = TRUE
SPECIFICATION FairSpec
INVARIANTS SoleAnswerWhole
PROPERTIES NewestReturns
CHECK_DEADLOCK FALSE
