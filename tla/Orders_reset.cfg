\* A reconnect that clears the trades, and every message of an order twice.
CONSTANTS
    Ords = {u1}
    NoOrd = NoOrd
    MaxPlace = 2
    MaxOrders = 1
    MaxExecs = 2
    MaxTrades = 4
    SendMayFail = TRUE
    MayReset = TRUE
SPECIFICATION Spec
INVARIANTS FillRecordedOnce
CHECK_DEADLOCK FALSE
