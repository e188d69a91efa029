\* A robot that reports a coordinate no site reaches.
SPECIFICATION PathSpec
CONSTANTS
    Null = Null
    r1 = r1
    r2 = r2
    north = north
    south = south
    dock1 = dock1
    Elapsed = {170}
    Directions <- MCDirections
    Built <- MCBuilt
    Identity <- MCIdentity
    Peer <- MCPeer
    Distortions <- FarDistortions
    Disabled = {"lidarHealth"}
    MaxPosition = 1000000000
    MaxReadings = 3
    OpenedBy = 0
INVARIANTS
    AcceptedIsServable
CHECK_DEADLOCK FALSE
