\* Two goroutines make three requests, two per two ticks, over several sockets.
CONSTANTS
    Procs = {p1, p2}
    MaxRequests = 2
    Interval = 2
    MaxTime = 4
    MaxSends = 3
    ValidIDs = {2}
    MaxFields = 3
    DialOutlasts = TRUE
SPECIFICATION TransportSpec
INVARIANTS TypeOK WindowBound PruneIsFilter OvertakenOnly IdsFresh FramesIntact CodecRoundTrip
SYMMETRY Symmetry
CHECK_DEADLOCK FALSE
