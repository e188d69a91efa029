\* One robot, two server runtimes, three faults and one operator retry.
SPECIFICATION FairSpec
CONSTANTS
    r1 = r1
    s1 = s1
    s2 = s2
    Null = Null
    Robot = {r1}
    Session = {s1, s2}
    Frames <- MCFrames
    Snapshots <- MCSnapshots
    MaxBuffer = 1
    MaxFaults = 3
    MaxConnects = 1
INVARIANTS
    OneAttempt
    BannerIsHonest
    ResourceAgrees
PROPERTIES
    Recovers
    StopsAsDocumented
CHECK_DEADLOCK FALSE
