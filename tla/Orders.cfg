\* One connection: an order placed and modified here beside a foreign one.
CONSTANTS
    Ords = {u1}
    NoOrd = NoOrd
    MaxPlace = 2
    MaxOrders = 2
    MaxExecs = 1
    MaxTrades = 4
    SendMayFail = TRUE
    MayReset = FALSE
SPECIFICATION Spec
INVARIANTS TypeOK FillsBelong OwnFillsAttached CommissionKept SignalledOnce
PROPERTIES DoneIsFinal ConfirmedKept
CHECK_DEADLOCK FALSE
