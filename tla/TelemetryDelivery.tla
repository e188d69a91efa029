--------------------------- MODULE TelemetryDelivery ---------------------------
(***************************************************************************)
(* The simulator's sends and the server they reach.  A POST is taken by    *)
(* the server at any time after it was sent, also after the client gave    *)
(* up on it, or never; its answer may come or not.  What the server does   *)
(* with a reading is currentStateStore's ordering rule (FleetState).       *)
(*                                                                         *)
(* The simulator may be started again after it has ended; the server       *)
(* keeps running.                                                          *)
(***************************************************************************)
EXTENDS Simulator

CONSTANTS
    Numbered,     \* the robots whose dialect carries a counter
    MaxFaults,    \* bound: attempts that fail without the shutdown's doing
    MaxRuns       \* bound: how often the simulator is started

INSTANCE SequenceContinuity

ASSUME DeliveryAssumption ==
    /\ Numbered \subseteq Robot
    /\ MaxFaults \in Nat /\ MaxRuns \in Nat \ {0}
    /\ Null \notin Int \cup SequenceHealth

Reading == [run : Nat, robot : Robot, sequence : Nat]
Post == [reading : Reading, attempt : Nat]

VARIABLES
    faults,       \* attempts that failed
    run,          \* which start of the simulator this is
    posts,        \* requests sent and not yet taken by the server
    taken,        \* requests taken whose answer is still awaited
    counter,      \* per robot: the server's slot.sequence
    continuity,   \* per robot: its slot.sequenceHealth
    arrived,      \* history: the requests the server took
    accepted,     \* history: the readings it accepted as new
    acknowledged  \* history: the readings the simulator counted as sent

serverVars == <<counter, continuity, arrived, accepted>>
deliveryVars == <<vars, faults, run, posts, taken, serverVars, acknowledged>>

DeliveryTypeOK ==
    /\ TypeOK
    /\ faults \in Nat
    /\ run \in 1..MaxRuns
    /\ posts \subseteq Post /\ taken \subseteq Post
    /\ counter \in [Robot -> Nat \cup {Null}]
    /\ continuity \in [Robot -> SequenceHealth \cup {Null}]
    /\ arrived \subseteq Post
    /\ accepted \subseteq Reading /\ acknowledged \subseteq Reading

DeliveryInit ==
    /\ Init
    /\ faults = 0
    /\ run = 1
    /\ posts = {} /\ taken = {}
    /\ counter = [r \in Robot |-> Null]
    /\ continuity = [r \in Robot |-> Null]
    /\ arrived = {} /\ accepted = {} /\ acknowledged = {}

(* The request robot r's send is waiting for. *)
ReadingOf(r) == [run |-> run, robot |-> r, sequence |-> sequence[r]]
Awaited(r) == [reading |-> ReadingOf(r), attempt |-> send[r].attempt]
-----------------------------------------------------------------------------
(* The simulator's side: an attempt that begins is a request on its way.   *)
Fault == faults < MaxFaults /\ faults' = faults + 1

Begun == {Awaited(r) : r \in {q \in Robot : send[q].state = "attempting"}}

Emits ==
    /\ Wake
    /\ UNCHANGED <<faults, run, taken, serverVars, acknowledged>>
    /\ posts' = posts \cup (Begun' \ Begun)

Retries(r) ==
    /\ BackoffEnds(r)
    /\ UNCHANGED <<faults, run, taken, serverVars, acknowledged>>
    /\ posts' = posts \cup (Begun' \ Begun)

(* Nobody waits any longer; the request itself may still arrive. *)
GivesUp(r) ==
    /\ \/ TimesOut(r) /\ Fault
       \/ Cancelled(r) /\ UNCHANGED faults
    /\ taken' = taken \ {Awaited(r)}
    /\ UNCHANGED <<run, posts, serverVars, acknowledged>>

(* Time, signals and the drain concern the simulator alone. *)
Passes ==
    /\ Elapse
    /\ UNCHANGED <<faults, run, posts, taken, serverVars, acknowledged>>

Shuts(signal) ==
    /\ Signalled(signal)
    /\ UNCHANGED <<faults, run, posts, taken, serverVars, acknowledged>>

Drains ==
    /\ DrainEnds
    /\ UNCHANGED <<faults, run, posts, taken, serverVars, acknowledged>>

(* A new process builds its fleet afresh.  Of the old one only requests on *)
(* their way are left.                                                     *)
Starts ==
    /\ ~Alive /\ run < MaxRuns
    /\ run' = run + 1
    /\ startedAt' = elapsed
    /\ nextDue' = [r \in Robot |-> elapsed + Offset(r)]
    /\ dropped' \in SUBSET Droppable
    /\ sequence' = [r \in Robot |-> 0]
    /\ send' = [r \in Robot |-> Idle]
    /\ app' = "running" /\ handlers' = Signal
    /\ inFlight' = 0 /\ aborted' = FALSE
    /\ metrics' = InitialMetrics /\ summary' = Null
    /\ shed' = 0 /\ abandoned' = 0
    /\ taken' = {}
    /\ UNCHANGED <<elapsed, faults, posts, serverVars, acknowledged>>
-----------------------------------------------------------------------------
(* The network and the server. *)

CounterOf(reading) ==
    IF reading.robot \in Numbered THEN reading.sequence ELSE Null

IsTaken(reading) == IsNewer(counter[reading.robot], CounterOf(reading))

(* Taken: stored and counted, counted as a repeat, or only logged; in each *)
(* case answered with 204.                                                 *)
Arrives(post) ==
    LET r == post.reading.robot
        next == CounterOf(post.reading)
        new == IsTaken(post.reading)
    IN  /\ counter' = [counter EXCEPT ![r] = IF new THEN next ELSE @]
        /\ continuity' =
             [continuity EXCEPT
                ![r] = CASE new -> AdvanceSequenceHealth(@, counter[r], next)
                         [] ~new /\ next = counter[r] -> CountDuplicate(@)
                         [] OTHER -> @]
        /\ arrived' = arrived \cup {post}
        /\ accepted' = IF new THEN accepted \cup {post.reading} ELSE accepted
        /\ posts' = posts \ {post}
        /\ taken' = IF post \in Begun THEN taken \cup {post} ELSE taken
        /\ UNCHANGED <<vars, faults, run, acknowledged>>

(* The answer to a taken request. *)
Succeeds(r) ==
    /\ Awaited(r) \in taken
    /\ Answered(r, 204)
    /\ acknowledged' = acknowledged \cup {ReadingOf(r)}
    /\ taken' = taken \ {Awaited(r)}
    /\ UNCHANGED <<faults, run, posts, serverVars>>

(* Refused by the server or by something in front of it, before the store  *)
(* saw it.                                                                 *)
Refused(r, status) ==
    /\ Awaited(r) \in posts
    /\ Answered(r, status)
    /\ acknowledged' = IF Classify(status) = "success"
                       THEN acknowledged \cup {ReadingOf(r)} ELSE acknowledged
    /\ posts' = posts \ {Awaited(r)}
    /\ Fault
    /\ UNCHANGED <<run, taken, serverVars>>

(* The connection breaks, before the request was taken or after. *)
Breaks(r) ==
    /\ Unanswered(r)
    /\ taken' = taken \ {Awaited(r)}
    /\ Fault
    /\ UNCHANGED <<run, posts, serverVars, acknowledged>>

DeliveryNext ==
    \/ Emits
    \/ Passes
    \/ \E signal \in Signal : Shuts(signal)
    \/ Drains
    \/ Starts
    \/ \E r \in Robot :
          \/ Retries(r) \/ GivesUp(r) \/ Succeeds(r) \/ Breaks(r)
          \/ \E status \in {404, 500} : Refused(r, status)
    \/ \E post \in posts : Arrives(post)

DeliverySpec == DeliveryInit /\ [][DeliveryNext]_deliveryVars

(* Timers fire: the request timeout, the backoff, the drain's deadline;    *)
(* and an aborted fetch rejects.                                           *)
FairDeliverySpec ==
    /\ DeliverySpec
    /\ WF_deliveryVars(Drains)
    /\ \A r \in Robot : WF_deliveryVars(GivesUp(r)) /\ WF_deliveryVars(Retries(r))
-----------------------------------------------------------------------------
(* Sends that have ended, one way or another. *)
Settled(m) ==
    m.outcomes["success"] + m.outcomes["rejected"] + m.outcomes["server-failure"]
      + m.outcomes["timeout"] + m.outcomes["network-failure"] + m.outcomes["cancelled"]

(* Each reading generated is settled, shed, or still outstanding; and what *)
(* the final summary leaves out is what shutdown abandoned, no more.       *)
EveryReadingSettles ==
    /\ metrics.attempted = Settled(metrics) + shed + inFlight
    /\ metrics.requestsSent = Settled(metrics)
    /\ summary # Null => summary.attempted = Settled(summary) + shed + abandoned

(* The outstanding ones are the sends under way, never more than the       *)
(* ceiling, so capacity comes back on every path.                          *)
CapacityComesBack ==
    /\ inFlight = Cardinality({r \in Robot : Busy(r)})
    /\ inFlight <= MaxInFlight /\ metrics.peakInFlight <= MaxInFlight

(* How far each robot's schedule has moved since the process started.      *)
Passed == [r \in Robot |-> nextDue[r] - startedAt - Offset(r)]

(* Underproduction is visible: every period that has come due was a        *)
(* reading, a skip or a coalesced tick -- a late or blocked process        *)
(* neither drifts nor bursts.                                              *)
NoPeriodIsLost ==
    /\ metrics.attempted = SumFunctionOnSet(sequence, Robot)
    /\ dropped = {} =>
          SumFunctionOnSet(Passed, Robot)
            = Period * (metrics.attempted + (metrics.skippedOverdue - shed)
                          + metrics.coalescedOverdue)

(* The simulator's counters account for every reading and every period.    *)
ReadingsAccounted == EveryReadingSettles /\ CapacityComesBack /\ NoPeriodIsLost

(* The server has only heard this run of the simulator. *)
Sole == \A post \in arrived : post.reading.run = run

(* One send of one robot at a time, so an acknowledgement means what it    *)
(* says: for a dialect with a counter every reading the simulator counted  *)
(* as sent was stored as new -- never refused as overtaken by a later one, *)
(* through timeouts, late arrivals and retries.                            *)
AcknowledgedIsAccepted ==
    Sole => \A reading \in acknowledged :
               reading.robot \in Numbered => reading \in accepted

(* The server's continuity says what happened on the network, also of a    *)
(* simulator that was started again and numbers from zero: a gap is a      *)
(* counter between accepted ones that was not accepted itself, a duplicate *)
(* is a further request with a counter that had arrived before, and the    *)
(* readings a restarted simulator sends below the last accepted counter    *)
(* are neither.                                                            *)
ContinuityIsTrue ==
    \A r \in {q \in Numbered : counter[q] # Null} :
        LET Arrived == {p \in arrived : p.reading.robot = r}
            Counters == {p.reading.sequence : p \in Arrived}
            Mine == {x.sequence : x \in {y \in accepted : y.robot = r}}
        IN  /\ continuity[r].gaps = Cardinality((Min(Mine)..Max(Mine)) \ Mine)
            /\ continuity[r].duplicates <= Cardinality(Arrived) - Cardinality(Counters)

(* After shutdown has aborted, nothing more is sent; once it has begun, no *)
(* reading is generated.                                                   *)
ShutdownIsQuiet ==
    [][run' = run =>
         /\ app # "running" => sequence' = sequence
         /\ aborted => posts' \subseteq posts]_deliveryVars

(* Shutdown ends: with timers that fire, a drain is over by the deadline   *)
(* and every send left is settled, unless a signal kills the process.      *)
ShutdownEnds ==
    app = "draining"
        ~> (app = "stopped" /\ inFlight = 0) \/ app = "killed"
==============================================================================
