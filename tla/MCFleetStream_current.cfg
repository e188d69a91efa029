\* One robot: in the end every robot is current, through a restart, a failed
\* attempt and the overlap of sockets and fetches they leave.
SPECIFICATION FairStreamSpec
CONSTANTS
    r1 = r1
    r2 = r2
    Null = Null
    Robot = {r1}
    Session = {1, 2}
    Frames <- MCMessages
    Snapshots <- MCMessages
    MaxBuffer = 6
    MaxFaults = 3
    MaxConnects = 0
    MaxChanges = 1
    MaxElsewhere = 0
    MaxDrops = 1
    MaxRejected = 0
PROPERTIES
    EventuallyCurrent
CHECK_DEADLOCK FALSE
