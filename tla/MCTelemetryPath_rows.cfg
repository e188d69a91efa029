\* Every reading of one robot of each vendor, with payloads outside the dialect
\* in between, through charge and discharge, faults and the edge of the site.
SPECIFICATION PathSpec
CONSTANTS
    Null = Null
    r1 = r1
    r2 = r2
    north = north
    south = south
    dock1 = dock1
    Elapsed = {170}
    Directions <- MCDirections
    Built <- MCBuilt
    Identity <- MCIdentity
    Peer <- MCPeer
    Distortions <- MCDistortions
    Disabled = {"lidarHealth"}
    MaxPosition = 1000000000
    MaxReadings = 4
    OpenedBy = 1
INVARIANTS
    ConsoleTellsReading
    TroubleIsVisible
    AcceptedIsServable
PROPERTIES
    ReadingsAreTaken
CHECK_DEADLOCK FALSE
