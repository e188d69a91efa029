------------------------------- MODULE Simulator -------------------------------
(***************************************************************************)
(* The telemetry simulator's process (packages/simulator): the scheduler   *)
(* that decides which robots are due, the bounded ingest client that sends *)
(* their readings, the counters both report, and shutdown by signal.  The  *)
(* network answers any attempt with any outcome, or lets it time out;      *)
(* TelemetryDelivery puts the server behind it.                            *)
(*                                                                         *)
(* A wake-up of the scheduler runs to completion, every due robot in index *)
(* order; a send suspends at its fetch and at its backoff and is split     *)
(* there.  What a settled send records follows in the same turn of the     *)
(* event loop.                                                             *)
(***************************************************************************)
EXTENDS Integers, FiniteSetsExt, Functions

CONSTANTS
    Robots,        \* config.robots: robots in the fleet
    Period,        \* periodMs: 1000 / hz
    MaxInFlight,   \* config.maxInFlight
    MaxRetries,    \* config.maxRetries
    Droppable,     \* the robots --drop may name
    MaxElapsed,    \* bound: how long simulators run
    Null           \* the code's null: no summary yet

(* Robots divides Period so that phase offsets are whole; the code's are   *)
(* fractions of a millisecond.                                             *)
ASSUME SimulatorAssumption ==
    /\ Robots \in Nat \ {0} /\ Period \in Nat \ {0} /\ Period % Robots = 0
    /\ MaxInFlight \in Nat \ {0} /\ MaxRetries \in Nat
    /\ MaxElapsed \in Nat
    /\ Droppable \subseteq 1..Robots

Robot == 1..Robots

Signal == {"SIGINT", "SIGTERM"}

(* SendOutcome.kind; "shed" never leaves the wake-up that produced it.     *)
Outcome == {"success", "rejected", "server-failure", "timeout",
            "network-failure", "cancelled"}

Retryable == {"server-failure", "timeout", "network-failure"}

(* One send: idle, awaiting its attempt-th answer, or backing off after it *)
Send == [state : {"idle", "attempting", "backoff"}, attempt : Nat]
Idle == [state |-> "idle", attempt |-> 0]

(* The counters of a MetricsSnapshot that are not derived from others.     *)
Metrics == [attempted : Nat, requestsSent : Nat, retriesSent : Nat,
            outcomes : [Outcome -> Nat], skippedOverdue : Nat,
            coalescedOverdue : Nat, peakInFlight : Nat]

InitialMetrics ==
    [attempted |-> 0, requestsSent |-> 0, retriesSent |-> 0,
     outcomes |-> [k \in Outcome |-> 0], skippedOverdue |-> 0,
     coalescedOverdue |-> 0, peakInFlight |-> 0]

VARIABLES
    elapsed,     \* monotonic time
    startedAt,   \* when this process started
    nextDue,     \* per robot: when it is next due
    dropped,     \* the robots --drop silences
    sequence,    \* per robot: state.sequence, the last reading generated
    send,        \* per robot: its outstanding send; busy = not idle
    inFlight,    \* the ingest client's count of sends
    aborted,     \* shutdown.signal.aborted
    app,         \* where the process is in its life
    handlers,    \* the signals it still listens for
    metrics,
    summary,     \* the metrics "simulator.stopped" carried, or Null
    shed,        \* history: readings refused at the ceiling
    abandoned    \* history: sends outstanding when shutdown aborted them

schedule == <<elapsed, startedAt, nextDue, dropped>>
client == <<sequence, send, inFlight>>
lifecycle == <<aborted, app, handlers, summary, abandoned>>
vars == <<schedule, client, lifecycle, metrics, shed>>

AppState == {"running", "draining", "stopped", "killed"}

TypeOK ==
    /\ elapsed \in Nat /\ startedAt \in Nat
    /\ nextDue \in [Robot -> Nat]
    /\ dropped \subseteq Robot
    /\ sequence \in [Robot -> Nat]
    /\ send \in [Robot -> Send]
    /\ inFlight \in Nat
    /\ aborted \in BOOLEAN
    /\ app \in AppState
    /\ handlers \subseteq Signal
    /\ metrics \in Metrics
    /\ summary \in Metrics \cup {Null}
    /\ shed \in Nat /\ abandoned \in Nat

(* Robots are spread over one period by index. *)
Offset(r) == (Period * (r - 1)) \div Robots

(* A process as it starts, whichever robots --drop names. *)
Init ==
    /\ elapsed = 0 /\ startedAt = 0
    /\ nextDue = [r \in Robot |-> Offset(r)]
    /\ dropped \in SUBSET Droppable
    /\ sequence = [r \in Robot |-> 0]
    /\ send = [r \in Robot |-> Idle]
    /\ inFlight = 0
    /\ aborted = FALSE
    /\ app = "running"
    /\ handlers = Signal
    /\ metrics = InitialMetrics
    /\ summary = Null
    /\ shed = 0 /\ abandoned = 0

Busy(r) == send[r] # Idle

(* A stopped process stays until its last timer has fired.                 *)
Alive == app \in {"running", "draining"} \/ (app = "stopped" /\ inFlight > 0)
-----------------------------------------------------------------------------
(* The scheduler.                                                          *)

Elapse ==
    /\ app = "running" /\ elapsed < MaxElapsed
    /\ elapsed' = elapsed + 1
    /\ UNCHANGED <<startedAt, nextDue, dropped, client, lifecycle, metrics, shed>>

Due == {r \in Robot : elapsed >= nextDue[r]}

(* Whole periods that passed besides the one that is due. *)
Coalesced(r) == (elapsed - nextDue[r]) \div Period

Advanced(r) == nextDue[r] + Period * (1 + Coalesced(r))

(* The due robots that generate a reading: neither silenced nor waiting    *)
(* for their previous send.                                                *)
Emitting == {r \in Due \ dropped : ~Busy(r)}

Skipped == {r \in Due \ dropped : Busy(r)}

(* Mutant: the ceiling is looked at once per wake-up, not once per send.   *)
StartedTogether == IF inFlight < MaxInFlight THEN Emitting ELSE {}

(* Of these the ones that find room under the ceiling, in index order; the *)
(* others are shed, their reading generated and lost.                      *)
Started ==
    {r \in Emitting :
        inFlight + Cardinality({q \in Emitting : q < r}) < MaxInFlight}

Wake ==
    /\ app = "running"
    /\ Due # {}
    /\ nextDue' = [r \in Robot |-> IF r \in Due THEN Advanced(r) ELSE nextDue[r]]
    /\ sequence' = [r \in Robot |->
                      IF r \in Emitting THEN sequence[r] + 1 ELSE sequence[r]]
    /\ send' = [r \in Robot |->
                  IF r \in Started THEN [state |-> "attempting", attempt |-> 1]
                                   ELSE send[r]]
    /\ inFlight' = inFlight + Cardinality(Started)
    /\ shed' = shed + Cardinality(Emitting \ Started)
    /\ metrics' =
         [metrics EXCEPT
            !.attempted = @ + Cardinality(Emitting),
            !.skippedOverdue = @ + Cardinality(Skipped)
                                 + Cardinality(Emitting \ Started),
            !.coalescedOverdue = @ + SumFunctionOnSet([r \in Due |-> Coalesced(r)], Due),
            !.peakInFlight = Max({@, inFlight'})]
    /\ UNCHANGED <<elapsed, startedAt, dropped, lifecycle>>
-----------------------------------------------------------------------------
(* The ingest client.                                                      *)

(* A send that has settled is recorded; its retries as one.                *)
Recorded(kind, attempts) ==
    [metrics EXCEPT !.outcomes[kind] = @ + 1,
                    !.retriesSent = IF attempts > 1 THEN @ + 1 ELSE @,
                    !.requestsSent = @ + 1]

(* Mutant: capacity is released only by a success. *)
SettleKeepingSlot(r, kind) ==
    /\ send' = [send EXCEPT ![r] = Idle]
    /\ inFlight' = IF kind = "success" THEN inFlight - 1 ELSE inFlight
    /\ metrics' = Recorded(kind, send[r].attempt)

Settle(r, kind) ==
    /\ send' = [send EXCEPT ![r] = Idle]
    /\ inFlight' = inFlight - 1
    /\ metrics' = Recorded(kind, send[r].attempt)

(* The attempt has ended: again after a delay, or settled. *)
Ends(r, kind) ==
    IF kind \in Retryable /\ send[r].attempt <= MaxRetries
    THEN /\ send' = [send EXCEPT ![r].state = "backoff"]
         /\ UNCHANGED <<inFlight, metrics>>
    ELSE Settle(r, kind)

Attempting(r) == Alive /\ send[r].state = "attempting"

Kept == UNCHANGED <<schedule, sequence, lifecycle, shed>>

(* Mutant: whatever is not a server failure is a success. *)
ClassifyLoosely(status) == IF status >= 500 THEN "server-failure" ELSE "success"

Classify(status) ==
    CASE status \in 200..299 -> "success"
      [] status >= 500       -> "server-failure"
      [] OTHER               -> "rejected"

Answered(r, status) ==
    /\ Attempting(r) /\ ~aborted
    /\ Ends(r, Classify(status))
    /\ Kept

(* The fetch rejects, though nobody aborted it. *)
Unanswered(r) ==
    /\ Attempting(r) /\ ~aborted
    /\ Ends(r, "network-failure")
    /\ Kept

TimesOut(r) ==
    /\ Attempting(r) /\ ~aborted
    /\ Ends(r, "timeout")
    /\ Kept

(* abortAll: every pending fetch rejects, whatever its own timer says. *)
Cancelled(r) ==
    /\ Attempting(r) /\ aborted
    /\ Ends(r, "cancelled")
    /\ Kept

(* Mutant: an aborted client still retries. *)
BackoffEndsHeedless(r) ==
    /\ Alive /\ send[r].state = "backoff"
    /\ send' = [send EXCEPT ![r] = [state |-> "attempting",
                                    attempt |-> @.attempt + 1]]
    /\ UNCHANGED <<inFlight, metrics>>
    /\ Kept

(* The delay is not abortable; only when it is over does the send look.    *)
BackoffEnds(r) ==
    /\ Alive /\ send[r].state = "backoff"
    /\ IF aborted THEN Settle(r, "cancelled")
       ELSE /\ send' = [send EXCEPT ![r] = [state |-> "attempting",
                                            attempt |-> @.attempt + 1]]
            /\ UNCHANGED <<inFlight, metrics>>
    /\ Kept
-----------------------------------------------------------------------------
(* Shutdown.                                                               *)

(* SIGINT and SIGTERM are each listened for once, and both call stop(),    *)
(* which does something only the first time.  A signal with no listener    *)
(* left ends the process, as it would any other.                           *)
Signalled(signal) ==
    /\ Alive
    /\ handlers' = handlers \ {signal}
    /\ app' = CASE signal \notin handlers -> "killed"
                [] signal \in handlers /\ app = "running" -> "draining"
                [] OTHER -> app
    /\ UNCHANGED <<schedule, client, metrics, shed, aborted, summary, abandoned>>

(* Nothing is outstanding, or the deadline has passed and what is gets     *)
(* aborted; then the summary, before any abort has been heard of.          *)
DrainEnds ==
    /\ app = "draining"
    /\ app' = "stopped"
    /\ aborted' = (inFlight > 0)
    /\ abandoned' = inFlight
    /\ summary' = metrics
    /\ UNCHANGED <<schedule, client, handlers, metrics, shed>>

Next ==
    \/ Elapse
    \/ Wake
    \/ \E r \in Robot :
          \/ \E status \in {204, 404, 500} : Answered(r, status)
          \/ Unanswered(r) \/ TimesOut(r) \/ Cancelled(r) \/ BackoffEnds(r)
    \/ \E signal \in Signal : Signalled(signal)
    \/ DrainEnds

Spec == Init /\ [][Next]_vars
==============================================================================
