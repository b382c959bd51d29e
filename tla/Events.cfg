\* The reader and the application emit two values to three subscriptions.
CONSTANTS
    Emitters = {reader, app}
    MaxSubs = 3
    MaxEmit = 2
    BufSize = 1
SPECIFICATION Spec
INVARIANTS TypeOK OnceGetsOne EmitReachesAll UnsubscribedUntouched
CHECK_DEADLOCK FALSE
