\* One registered robot and one wrong link: three visits (there, away and back),
\* a retry, a failing request, a robot that reports once, in every interleaving.
SPECIFICATION FairSpec
CONSTANTS
    r1 = r1
    r2 = r2
    Null = Null
    Robot = {r1, r2}
    Registered <- MCRegistered
    MaxVersion = 1
    MaxVisits = 3
    MaxRetries = 1
    MaxFaults = 1
INVARIANTS
    ShowsAskedRobot
PROPERTIES
    DetailNeverGoesBack
    LoadingEnds
    PageCatchesUp
CHECK_DEADLOCK FALSE
