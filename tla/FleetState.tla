----------------------------- MODULE FleetState -----------------------------
(***************************************************************************)
(* The server's current state: the per-robot slots of CurrentStateStore,   *)
(* the two things that write them -- ingestTelemetry and FreshnessSweep -- *)
(* and the wall clock both read.  Each of the two marks what it changed    *)
(* for fan-out; marked is the last state fan-out was told for a robot.     *)
(*                                                                         *)
(* A node process runs one callback at a time, so an ingest and a sweep    *)
(* tick are single steps; they interleave with each other and with time.   *)
(***************************************************************************)
EXTENDS Freshness, HistoryRing

INSTANCE SequenceContinuity

CONSTANTS
    Robot,             \* the manifest's robots
    Numbered,          \* those whose dialect carries a counter (vendors A, C)
    HistoryCapacity,   \* HISTORY_CAPACITY, samples retained per robot
    MaxTime,           \* bound: units of time that pass
    MaxSequence,       \* bound: the greatest counter a robot sends
    MaxReadings,       \* bound: readings delivered per robot
    MaxStepBack        \* how far Date.now() may step back at once; 0 = never

ASSUME FleetAssumption ==
    /\ Null \notin Robot
    /\ Numbered \subseteq Robot
    /\ HistoryCapacity \in Nat \ {0}
    /\ MaxTime \in Nat /\ MaxSequence \in Nat /\ MaxReadings \in Nat
    /\ MaxStepBack \in Nat

VARIABLES
    now,          \* what clock.now() returns
    receivedAt,   \* per robot: receipt time of the stored reading, or Null
    freshness,    \* per robot: the freshness field of the stored state
    sequence,     \* per robot: slot.sequence, the counter last accepted
    continuity,   \* per robot: slot.sequenceHealth
    history,      \* per robot: the ring of receipt times
    lastTickAt,   \* FreshnessSweep's #lastTickAt
    lateTicks,    \* HealthMetrics' late tick count, capped at one
    marked,       \* per robot: the state last given to deltas.mark, or Null
    silence,      \* per robot: real time since the stored reading came
    sinceTick,    \* real time since the last sweep tick
    elapsed,      \* real time since the process started
    delivered,    \* per robot: readings that reached the store
    accepted,     \* of those, accepted
    repeated,     \* of those, exact repeats
    first         \* per robot: the first counter accepted, or Null

(* History the code does not keep.  Real time is not what now measures     *)
(* once the wall clock has been set back.                                  *)
timeVars == <<silence, sinceTick, elapsed>>
tallyVars == <<delivered, accepted, repeated, first>>

storeVars == <<receivedAt, freshness, sequence, continuity, history, marked>>

vars == <<now, storeVars, lastTickAt, lateTicks, timeVars, tallyVars>>

ASSUME HealthAssumption == Null \notin SequenceHealth

Observed(r) == receivedAt[r] # Null

(* The state a snapshot or a frame carries for r. *)
StateOf(r) == [receivedAt |-> receivedAt[r], freshness |-> freshness[r],
               sequence |-> sequence[r]]

State == [receivedAt : Nat, freshness : FreshnessState,
          sequence : Nat \cup {Null}]

TypeOK ==
    /\ now \in Nat
    /\ receivedAt \in [Robot -> Nat \cup {Null}]
    /\ freshness \in [Robot -> FreshnessState]
    /\ sequence \in [Robot -> Nat \cup {Null}]
    /\ continuity \in [Robot -> SequenceHealth \cup {Null}]
    /\ history \in [Robot -> Ring(Nat, HistoryCapacity)]
    /\ lastTickAt \in Nat \cup {Null}
    /\ lateTicks \in {0, 1}
    /\ marked \in [Robot -> State \cup {Null}]
    /\ silence \in [Robot -> Nat]
    /\ sinceTick \in Nat
    /\ elapsed \in Nat
    /\ delivered \in [Robot -> Nat]
    /\ accepted \in [Robot -> Nat]
    /\ repeated \in [Robot -> Nat]
    /\ first \in [Robot -> Nat \cup {Null}]

Init ==
    /\ now = 0
    /\ receivedAt = [r \in Robot |-> Null]
    /\ freshness = [r \in Robot |-> "unknown"]
    /\ sequence = [r \in Robot |-> Null]
    /\ continuity = [r \in Robot |-> Null]
    /\ history = [r \in Robot |-> EmptyRing]
    /\ lastTickAt = Null
    /\ lateTicks = 0
    /\ marked = [r \in Robot |-> Null]
    /\ silence = [r \in Robot |-> 0]
    /\ sinceTick = 0
    /\ elapsed = 0
    /\ delivered = [r \in Robot |-> 0]
    /\ accepted = [r \in Robot |-> 0]
    /\ repeated = [r \in Robot |-> 0]
    /\ first = [r \in Robot |-> Null]
-----------------------------------------------------------------------------
(***************************************************************************)
(* Ingest.  A reading that decodes and names a manifest robot reaches      *)
(* store.upsert with its counter, or Null for a dialect without one.  A    *)
(* refused reading changes no variable of this module.                     *)
(***************************************************************************)
Counters(r) == IF r \in Numbered THEN 0..MaxSequence ELSE {Null}

(* Mutant: only an exact repeat is refused. *)
NewerUnlessRepeat(r, s) == s # Null /\ sequence[r] # Null => s # sequence[r]

Newer(r, s) == IsNewer(sequence[r], s)

(* The reading is new: it replaces the state, and only it enters history. *)
Accept(r, s) ==
    /\ Newer(r, s)
    /\ continuity' = [continuity EXCEPT
                        ![r] = AdvanceSequenceHealth(@, sequence[r], s)]
    /\ receivedAt' = [receivedAt EXCEPT ![r] = now]
    /\ freshness' = [freshness EXCEPT ![r] = DeriveFreshness(now, now)]
    /\ sequence' = [sequence EXCEPT ![r] = s]
    /\ history' = [history EXCEPT ![r] = Push(@, now, HistoryCapacity)]
    /\ marked' = [marked EXCEPT ![r] = StateOf(r)']
    /\ silence' = [silence EXCEPT ![r] = 0]
    /\ accepted' = [accepted EXCEPT ![r] = @ + 1]
    /\ first' = [first EXCEPT ![r] = IF @ = Null THEN s ELSE @]
    /\ UNCHANGED repeated

(* A repeat of the accepted counter is counted and otherwise ignored. *)
Duplicate(r, s) ==
    /\ ~Newer(r, s) /\ s = sequence[r]
    /\ continuity' = [continuity EXCEPT ![r] = CountDuplicate(@)]
    /\ repeated' = [repeated EXCEPT ![r] = @ + 1]
    /\ UNCHANGED <<receivedAt, freshness, sequence, history, marked, silence,
                   accepted, first>>

(* A regressive counter is only logged. *)
OutOfOrder(r, s) ==
    /\ ~Newer(r, s) /\ s # sequence[r]
    /\ UNCHANGED <<storeVars, silence, accepted, repeated, first>>

Ingest(r, s) ==
    /\ delivered[r] < MaxReadings
    /\ delivered' = [delivered EXCEPT ![r] = @ + 1]
    /\ Accept(r, s) \/ Duplicate(r, s) \/ OutOfOrder(r, s)
    /\ UNCHANGED <<now, lastTickAt, lateTicks, sinceTick, elapsed>>
-----------------------------------------------------------------------------
(***************************************************************************)
(* The sweep.  One tick rederives every observed robot against one clock   *)
(* reading and marks those whose freshness changed.  The first tick after  *)
(* a start has nothing to measure its lateness from.                       *)
(***************************************************************************)
Late == lastTickAt # Null /\ now - lastTickAt > TickBudget

Swept(r) == IF Observed(r) THEN DeriveFreshness(receivedAt[r], now)
                           ELSE freshness[r]

(* Mutant: only a robot lost for good is marked. *)
SweptMarkLost(r) == IF Swept(r) # freshness[r] /\ Swept(r) = "unreachable"
                    THEN StateOf(r)' ELSE marked[r]

SweptMark(r) == IF Swept(r) # freshness[r] THEN StateOf(r)' ELSE marked[r]

Tick ==
    /\ UNCHANGED <<now, receivedAt, sequence, continuity, history, silence,
                   elapsed, tallyVars>>
    /\ lateTicks' = IF Late THEN 1 ELSE lateTicks
    /\ lastTickAt' = now
    /\ freshness' = [r \in Robot |-> Swept(r)]
    /\ marked' = [r \in Robot |-> SweptMark(r)]
    /\ sinceTick' = 0

(* stop() forgets when it last ticked; a later start() counts from nothing. *)
StopSweep ==
    /\ lastTickAt' = Null
    /\ UNCHANGED <<now, storeVars, lateTicks, timeVars, tallyVars>>
-----------------------------------------------------------------------------
(* Time.  Elapse is one unit of real time; the wall clock may also be set  *)
(* back under the process, which takes no real time.                       *)
Elapse ==
    /\ elapsed < MaxTime
    /\ now' = now + 1
    /\ silence' = [r \in Robot |-> IF Observed(r) THEN silence[r] + 1 ELSE 0]
    /\ sinceTick' = sinceTick + 1
    /\ elapsed' = elapsed + 1
    /\ UNCHANGED <<storeVars, lastTickAt, lateTicks, tallyVars>>

StepBack(d) ==
    /\ d <= now
    /\ now' = now - d
    /\ UNCHANGED <<storeVars, lastTickAt, lateTicks, timeVars, tallyVars>>

Next ==
    \/ \E r \in Robot : \E s \in Counters(r) : Ingest(r, s)
    \/ Tick
    \/ StopSweep
    \/ Elapse
    \/ \E d \in 1..MaxStepBack : StepBack(d)

Spec == Init /\ [][Next]_vars
-----------------------------------------------------------------------------
(* What fan-out was last told about a heard robot is what the store holds: *)
(* neither an accepted reading nor a freshness-only change by the sweep    *)
(* escapes deltas.mark, and nothing is marked that was not stored.         *)
MarkedIsStored ==
    \A r \in Robot : Observed(r) => marked[r] = StateOf(r)

(* The continuity the diagnostic endpoint serves adds up: the counters     *)
(* from the first accepted to the last are the accepted readings plus the  *)
(* gaps, and duplicates counts exactly the exact repeats.                  *)
SequenceAccounting ==
    \A r \in Numbered :
        Observed(r) =>
            /\ continuity[r].evaluated
            /\ sequence[r] - first[r] + 1
                  = accepted[r] + continuity[r].gaps
            /\ continuity[r].duplicates = repeated[r]

(* A dialect without a counter never has its continuity evaluated.         *)
UnnumberedNotEvaluated ==
    \A r \in Robot \ Numbered :
        Observed(r) => continuity[r] = NotEvaluated /\ sequence[r] = Null

(* ADR 3's detection latency: while ticks are not overdue, a robot shown   *)
(* live (not yet unreachable) has been silent for no longer than the       *)
(* threshold plus the time a tick may take to come.                        *)
DetectionBound ==
    sinceTick <= TickBudget =>
        \A r \in Robot :
            /\ freshness[r] = "live"
                  => silence[r] <= LiveThreshold + TickBudget
            /\ freshness[r] = "stale"
                  => silence[r] <= StaleThreshold + TickBudget

(* The converse: no robot is shown stale or unreachable before its silence *)
(* has outlasted the threshold, however late or early the ticks come.      *)
NoEarlyAlarm ==
    \A r \in Robot :
        /\ freshness[r] = "stale" => silence[r] > LiveThreshold
        /\ freshness[r] = "unreachable" => silence[r] > StaleThreshold

(* What the history response is built from.                                *)
Samples(r) == ToArray(history[r], HistoryCapacity)

(* History holds the newest accepted readings and nothing else, its last   *)
(* sample being the stored reading: duplicates, regressions and sweeps     *)
(* never enter it, and the ring's cursor loses none as it wraps.           *)
HistoryTracksState ==
    \A r \in Robot :
        /\ Len(Samples(r)) = IF accepted[r] < HistoryCapacity
                             THEN accepted[r] ELSE HistoryCapacity
        /\ Observed(r) => Last(Samples(r)) = receivedAt[r]

(* Retained samples are read in receipt order, wherever the ring's cursor  *)
(* stands, which the history contract requires of the response.            *)
HistoryChronological ==
    \A r \in Robot : \A i, j \in 1..Len(Samples(r)) :
        i < j => Samples(r)[i] <= Samples(r)[j]

(* Ordering: a counter never goes back, and a robot that went quiet is     *)
(* shown live again only by a reading that was accepted -- no repeat, late *)
(* arrival or sweep revives it.                                            *)
OnlyNewReadingsRevive ==
    [][\A r \in Robot :
         /\ sequence[r] # Null => sequence'[r] # Null /\ sequence'[r] >= sequence[r]
         /\ freshness'[r] = "live" /\ freshness[r] # "live"
               => accepted'[r] = accepted[r] + 1]_vars

(* A tick that really came later than the policy tolerates is recorded,    *)
(* whatever arrived in between; only a sweep's first tick is exempt.       *)
LateTicksAreRecorded ==
    [][(lastTickAt # Null /\ sinceTick > TickBudget
          /\ sinceTick' = 0) => lateTicks' = 1]_vars
==============================================================================
