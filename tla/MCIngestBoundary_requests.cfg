\* Three requests, any of them under way at once, for two robots with a counter
\* and one without, beside sweeps, a clock that may be set back, a console and
\* a stop at any point.
SPECIFICATION BoundarySpec
CONSTANTS
    c1 = c1
    c2 = c2
    b1 = b1
    Null = Null
    Robot = {c1, c2, b1}
    Numbered = {c1, c2}
    Vendor = {"C", "B"}
    VendorOf <- MCVendorOf
    Stranger = Stranger
    Undeclared <- MCUndeclared
    Console = {1}
    LiveThreshold = 1
    StaleThreshold = 2
    SweepInterval = 1
    LateTickTolerance = 0
    HistoryCapacity = 2
    MaxTime = 1
    MaxSequence = 2
    MaxReadings = 3
    MaxStepBack = 1
    MaxPosts = 3
INVARIANTS
    SequenceAccounting
    HistoryTracksState
    RequestsAccounted
    HealthTellsFleet
    EvidenceMatchesState
PROPERTIES
    ImplementsStore
    StopIsOrderly
CHECK_DEADLOCK FALSE
