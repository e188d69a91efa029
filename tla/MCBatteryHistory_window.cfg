\* Three levels and missing ones, sampled at the fastest rate or slower, over a
\* window of seven samples and six points, until the ring has wrapped.
SPECIFICATION Spec
CONSTANTS
    Null = Null
    Level <- MCLevel
    WindowMs = 6
    MaxPoints = 6
    SourceInterval = 1
    MaxTime = 7
INVARIANTS
    ResponseConforms
    PointsRepresentWindow
    WindowIsCovered
CHECK_DEADLOCK FALSE
