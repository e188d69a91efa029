\* Two robots, three fleets that replace one another, and five events of the
\* transport between which the operator does anything.
SPECIFICATION FairSpec
CONSTANTS
    r1 = r1
    r2 = r2
    Null = Null
    All = All
    Robot = {r1, r2}
    Fleets <- MCFleets
    Reports <- MCReports
    Searches <- MCSearches
    MaxChanges = 5
INVARIANTS
    NobodyIsLost
    MapIsToScale
PROPERTIES
    FrameOnlyWidens
    ViewsCatchUp
CHECK_DEADLOCK FALSE
