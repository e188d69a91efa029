\* Two robots that share one slot under the ceiling, over five periods between
\* them, one retry, one failing attempt, and a simulator started twice.
SPECIFICATION FairDeliverySpec
CONSTANTS
    Null = Null
    Robots = 2
    Period = 2
    MaxInFlight = 1
    MaxRetries = 1
    MaxElapsed = 4
    Numbered <- MCNumbered
    Droppable <- MCDroppable
    MaxFaults = 1
    MaxRuns = 2
INVARIANTS
    ReadingsAccounted
    AcknowledgedIsAccepted
    ContinuityIsTrue
PROPERTIES
    ShutdownIsQuiet
    ShutdownEnds
CHECK_DEADLOCK FALSE
