\* A numbered and an unnumbered robot over three detection windows: readings,
\* sweep ticks and time in every interleaving, under a wall clock that keeps
\* time.
SPECIFICATION Spec
CONSTANTS
    a = a
    b = b
    Null = Null
    Robot = {a, b}
    Numbered = {a}
    LiveThreshold = 2
    StaleThreshold = 4
    SweepInterval = 1
    LateTickTolerance = 1
    HistoryCapacity = 2
    MaxTime = 7
    MaxSequence = 1
    MaxReadings = 3
    MaxStepBack = 0
INVARIANTS
    MarkedIsStored
    DetectionBound
    NoEarlyAlarm
    HistoryChronological
PROPERTIES
    OnlyNewReadingsRevive
