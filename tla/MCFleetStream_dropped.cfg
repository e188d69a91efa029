\* A frame the console cannot decode, of a robot that then stays silent.
SPECIFICATION FairStreamSpec
CONSTANTS
    r1 = r1
    r2 = r2
    Null = Null
    Robot = {r1}
    Session = {1}
    Frames <- MCMessages
    Snapshots <- MCMessages
    MaxBuffer = 6
    MaxFaults = 3
    MaxConnects = 0
    MaxChanges = 2
    MaxElsewhere = 0
    MaxDrops = 0
    MaxRejected = 1
PROPERTIES
    EventuallyCurrent
CHECK_DEADLOCK FALSE
