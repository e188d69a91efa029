\* Two robots and a server that restarts: changes, flushes, a frame dropped and
\* the join in every interleaving; SYMMETRY because no robot is special.
SPECIFICATION StreamSpec
CONSTANTS
    r1 = r1
    r2 = r2
    Null = Null
    Robot = {r1, r2}
    Session = {1, 2}
    Frames <- MCMessages
    Snapshots <- MCMessages
    MaxBuffer = 6
    MaxFaults = 3
    MaxConnects = 0
    MaxChanges = 2
    MaxElsewhere = 1
    MaxDrops = 0
    MaxRejected = 1
SYMMETRY Symmetric
INVARIANTS
    NoUpdateLost
PROPERTIES
    MirrorsFleet
CHECK_DEADLOCK FALSE
