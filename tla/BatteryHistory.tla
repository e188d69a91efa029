---------------------------- MODULE BatteryHistory ----------------------------
(***************************************************************************)
(* One robot's battery history: the ring that retains accepted samples     *)
(* (server/src/state), the response built from it at a request's instant   *)
(* (server/src/history/selectBatteryHistory), and the contract the console *)
(* decodes it with (contracts/src/history).  FleetState shows when the     *)
(* samples are in receipt order; here they are.                            *)
(***************************************************************************)
EXTENDS HistoryRing, FiniteSetsExt

CONSTANTS
    Level,          \* battery percentages
    Null,           \* a reading without one
    WindowMs,       \* BATTERY_HISTORY_WINDOW_MS
    MaxPoints,      \* BATTERY_HISTORY_MAX_POINTS
    SourceInterval, \* the least time between samples: 1 / MAX_SOURCE_RATE_HZ
    MaxTime         \* bound: how long samples come

(* MaxPoints is 2 + 2 * INTERIOR_BUCKET_COUNT.                             *)
ASSUME HistoryAssumption ==
    /\ Level \subseteq Nat /\ Null \notin Level
    /\ SourceInterval \in Nat \ {0} /\ WindowMs \in Nat
    /\ MaxPoints \in Nat /\ MaxPoints % 2 = 0 /\ MaxPoints > 2
    /\ MaxTime \in Nat

(* HISTORY_CAPACITY: a window at the fastest rate, both its ends included. *)
HistoryCapacity == WindowMs \div SourceInterval + 1

InteriorBucketCount == (MaxPoints - 2) \div 2

VARIABLES
    now,        \* clock.now()
    history,    \* slot.history, the robot's ring of samples
    received    \* when every accepted sample came; the code keeps no such list

vars == <<now, history, received>>

Init == now = 0 /\ history = EmptyRing /\ received = <<>>

(* A reading is accepted, no sooner after the last than the rate allows.   *)
Upsert(battery) ==
    /\ received # <<>> => now >= Last(received) + SourceInterval
    /\ history' = Push(history,
                       [receivedAt |-> now, batteryPercent |-> battery],
                       HistoryCapacity)
    /\ received' = Append(received, now)
    /\ UNCHANGED now

Elapse ==
    /\ now < MaxTime
    /\ now' = now + 1
    /\ UNCHANGED <<history, received>>

Next == Elapse \/ \E battery \in Level \cup {Null} : Upsert(battery)

Spec == Init /\ [][Next]_vars
-----------------------------------------------------------------------------
(* Decimation of numeric, in receipt order; each of the operators below    *)
(* answers with indices of it.                                             *)

(* The bucket of an interior sample.  The code divides first, in floating  *)
(* point.                                                                  *)
Bucket(numeric, i) ==
    LET first == numeric[1].receivedAt
        span  == Last(numeric).receivedAt - first
    IN  IF span = 0 THEN 0
        ELSE Min({((numeric[i].receivedAt - first) * InteriorBucketCount) \div span,
                  InteriorBucketCount - 1})

Members(numeric, b) == {i \in 2..(Len(numeric) - 1) : Bucket(numeric, i) = b}

(* The earliest of the members with the least, the greatest percentage.    *)
Lowest(numeric, b) ==
    LET least == Min({numeric[i].batteryPercent : i \in Members(numeric, b)})
    IN  Min({i \in Members(numeric, b) : numeric[i].batteryPercent = least})

(* Mutant: each bucket keeps its latest sample as its maximum. *)
HighestIsLatest(numeric, b) == Max(Members(numeric, b))

Highest(numeric, b) ==
    LET greatest == Max({numeric[i].batteryPercent : i \in Members(numeric, b)})
    IN  Min({i \in Members(numeric, b) : numeric[i].batteryPercent = greatest})

(* Mutant: minimum before maximum, whichever came first. *)
ExtremesByValue(numeric, b) ==
    LET low == Lowest(numeric, b)  high == Highest(numeric, b)
    IN  IF Members(numeric, b) = {} THEN <<>>
        ELSE IF low = high THEN <<low>> ELSE <<low, high>>

Extremes(numeric, b) ==
    LET low == Lowest(numeric, b)  high == Highest(numeric, b)
    IN  IF Members(numeric, b) = {} THEN <<>>
        ELSE IF low = high THEN <<low>>
        ELSE IF numeric[low].receivedAt <= numeric[high].receivedAt
        THEN <<low, high>> ELSE <<high, low>>

Kept(numeric) ==
    <<1>> \o FlattenSeq([b \in 1..InteriorBucketCount |->
                            Extremes(numeric, b - 1)])
          \o <<Len(numeric)>>

Decimate(numeric) ==
    IF Len(numeric) <= MaxPoints THEN numeric
    ELSE [k \in 1..Len(Kept(numeric)) |-> numeric[Kept(numeric)[k]]]

InWindow(at) == {t \in (at - WindowMs)..at : t >= 0}

PositionsInWindow(samples, at) ==
    {i \in 1..Len(samples) : samples[i].receivedAt \in InWindow(at)}

Numeric(samples, at) ==
    Filtered(samples, {i \in PositionsInWindow(samples, at) :
                       samples[i].batteryPercent # Null})

SelectBatteryHistory(samples, at) ==
    LET inWindow == Filtered(samples, PositionsInWindow(samples, at))
        numeric == Numeric(samples, at)
    IN  [capturedAt |-> at,
         sourceSampleCount |-> Len(inWindow),
         missingBatterySampleCount |-> Len(inWindow) - Len(numeric),
         points |-> Decimate(numeric)]

(* robotBatteryHistorySchema and its cross-field checks. *)
Conforms(response) ==
    LET numericCount == response.sourceSampleCount
                          - response.missingBatterySampleCount
        points == response.points
    IN  /\ Len(points) <= MaxPoints
        /\ response.missingBatterySampleCount \in 0..response.sourceSampleCount
        /\ IF numericCount <= MaxPoints THEN Len(points) = numericCount
                                        ELSE Len(points) >= 2
        /\ \A k \in 1..Len(points) :
              /\ points[k].batteryPercent \in Level
              /\ points[k].receivedAt \in InWindow(response.capturedAt)
              /\ k > 1 => points[k - 1].receivedAt <= points[k].receivedAt
-----------------------------------------------------------------------------
Samples == ToArray(history, HistoryCapacity)

Response == SelectBatteryHistory(Samples, now)

(* The console can decode every response the server builds: whatever came  *)
(* and whenever it is asked, the decimator keeps the contract's rules.     *)
ResponseConforms == Conforms(Response)

(* The points stand for the window: each is a sample, shown once; no spike *)
(* or trough vanishes, for the least and the greatest percentage are among *)
(* them; and the line starts and ends where the window's samples do.       *)
PointsRepresentWindow ==
    LET numeric == Numeric(Samples, now)
        values(s) == {s[k].batteryPercent : k \in 1..Len(s)}
    IN  /\ ToSet(Response.points) \subseteq ToSet(numeric)
        /\ IsInjective(Response.points)
        /\ numeric # <<>> =>
            /\ Min(values(Response.points)) = Min(values(numeric))
            /\ Max(values(Response.points)) = Max(values(numeric))
            /\ Head(Response.points) = Head(numeric)
            /\ Last(Response.points) = Last(numeric)

(* ADR 33: at the supported rate the ring covers the whole window -- every *)
(* sample accepted within it, on its ends too, is in the response's count. *)
WindowIsCovered ==
    Response.sourceSampleCount =
        Cardinality({i \in 1..Len(received) : received[i] \in InWindow(now)})
==============================================================================
