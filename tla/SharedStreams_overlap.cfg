\* Two overlapping calls of one method.
CONSTANTS
    Streams = {"positions"}
    MaxCalls = 2
    MaxItems = 1
    MaxFills = 0
    SendMayFail = FALSE
SPECIFICATION FairSpec
PROPERTIES EveryCallReturns
CHECK_DEADLOCK FALSE
