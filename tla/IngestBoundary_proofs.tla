----------------------- MODULE IngestBoundary_proofs -----------------------
(***************************************************************************)
(* The server, for any manifest, any policy it accepts, any bounds, any    *)
(* number of requests and every order of their bodies.                     *)
(*                                                                         *)
(* First what FleetState promises: its types, that fan-out is told of      *)
(* every stored state, that continuity counts add up and, while the wall   *)
(* clock never steps back, ADR 3's detection latency in both directions.   *)
(* Then the whole process implements FleetState, so that those theorems    *)
(* are theorems about it too, and keeps promises of its own about          *)
(* evidence, sockets, request counters and the health document.            *)
(***************************************************************************)
EXTENDS IngestBoundary, FoldTheorems

-----------------------------------------------------------------------------
(* The store, the sweep and the clock. *)

(* Freshness is always one of the policy's four states. *)
LEMMA DeriveFreshnessType ==
    ASSUME NEW at, NEW t
    PROVE  DeriveFreshness(at, t) \in FreshnessState
BY DEF DeriveFreshness, FreshnessState

(* Counting, evaluated or not, keeps a continuity record's type.           *)
LEMMA ContinuityType ==
    ASSUME NEW current \in SequenceHealth \cup {Null},
           NEW previous \in Nat \cup {Null}, NEW next \in Nat \cup {Null}
    PROVE  /\ AdvanceSequenceHealth(current, previous, next) \in SequenceHealth
           /\ CountDuplicate(current) \in SequenceHealth
BY NullAssumption
   DEF AdvanceSequenceHealth, CountDuplicate, Missing, Evaluated, NotEvaluated,
       SequenceHealth

(* A reading's counter is a natural number or Null.                        *)
LEMMA CounterType == \A r \in Robot : Counters(r) \subseteq Nat \cup {Null}
BY FleetAssumption DEF Counters
-----------------------------------------------------------------------------
(* An accepted reading keeps every variable's type.                        *)
LEMMA AcceptType ==
    ASSUME TypeOK, NEW r \in Robot, NEW s \in Nat \cup {Null}, Accept(r, s),
           Ingest(r, s)
    PROVE  TypeOK'
<1>1. /\ receivedAt' \in [Robot -> Nat \cup {Null}]
      /\ sequence' \in [Robot -> Nat \cup {Null}]
      /\ receivedAt'[r] \in Nat
  BY DEF TypeOK, Accept
<1>2. freshness' \in [Robot -> FreshnessState]
  BY DeriveFreshnessType DEF TypeOK, Accept
<1>3. history' \in [Robot -> Ring(Nat, HistoryCapacity)]
  <2>1. Push(history[r], now, HistoryCapacity) \in Ring(Nat, HistoryCapacity)
    BY FleetAssumption, PushType DEF TypeOK
  <2> QED BY <2>1 DEF TypeOK, Accept
<1>4. continuity' \in [Robot -> SequenceHealth \cup {Null}]
  BY ContinuityType DEF TypeOK, Accept
<1>5. marked' \in [Robot -> State \cup {Null}]
  <2>1. StateOf(r)' \in State
    BY <1>1, <1>2 DEF StateOf, State
  <2> QED
    BY <2>1 DEF TypeOK, Accept
<1>6. /\ now' \in Nat /\ lastTickAt' \in Nat \cup {Null}
      /\ lateTicks' \in {0, 1} /\ sinceTick' \in Nat /\ elapsed' \in Nat
  BY DEF TypeOK, Ingest
<1>7. /\ silence' \in [Robot -> Nat]
      /\ delivered' \in [Robot -> Nat]
      /\ accepted' \in [Robot -> Nat]
      /\ repeated' \in [Robot -> Nat]
      /\ first' \in [Robot -> Nat \cup {Null}]
  BY DEF TypeOK, Accept, Ingest
<1> QED
  BY <1>1, <1>2, <1>3, <1>4, <1>5, <1>6, <1>7 DEF TypeOK

(* So does a sweep tick.                                                   *)
LEMMA TickType == TypeOK /\ Tick => TypeOK'
<1> SUFFICES ASSUME TypeOK, Tick PROVE TypeOK'
  OBVIOUS
<1>1. freshness' \in [Robot -> FreshnessState]
  BY DeriveFreshnessType DEF TypeOK, Tick, Swept
<1>2. marked' \in [Robot -> State \cup {Null}]
  <2>1. ASSUME NEW r \in Robot, Swept(r) # freshness[r]
        PROVE  StateOf(r)' \in State
    BY <1>1, <2>1 DEF TypeOK, Tick, Swept, StateOf, State, Observed
  <2> QED
    BY <2>1 DEF TypeOK, Tick, SweptMark
<1> QED
  BY <1>1, <1>2 DEF TypeOK, Tick, tallyVars
-----------------------------------------------------------------------------
(* TypeOK is inductive. *)
LEMMA TypeInductive == TypeOK /\ [Next]_vars => TypeOK'
<1> SUFFICES ASSUME TypeOK, [Next]_vars PROVE TypeOK'
  OBVIOUS
<1>1. ASSUME NEW r \in Robot, NEW s \in Counters(r), Ingest(r, s)
      PROVE  TypeOK'
  <2>1. s \in Nat \cup {Null}
    BY CounterType
  <2>2. CASE Accept(r, s)
    BY <1>1, <2>1, <2>2, AcceptType
  <2>3. CASE Duplicate(r, s)
    <3>1. continuity' \in [Robot -> SequenceHealth \cup {Null}]
      BY <2>3, ContinuityType DEF TypeOK, Duplicate
    <3> QED
      BY <1>1, <2>3, <3>1 DEF TypeOK, Duplicate, Ingest
  <2>4. CASE OutOfOrder(r, s)
    BY <1>1, <2>4 DEF TypeOK, OutOfOrder, Ingest, storeVars
  <2> QED
    BY <1>1, <2>2, <2>3, <2>4 DEF Ingest
<1>2. CASE Tick
  BY <1>2, TickType
<1>3. CASE Elapse
  BY <1>3 DEF TypeOK, Elapse, storeVars, tallyVars
<1>4. ASSUME NEW d \in 1..MaxStepBack, StepBack(d)
      PROVE  TypeOK'
  BY <1>4, FleetAssumption DEF TypeOK, StepBack, storeVars, timeVars, tallyVars
<1>5. CASE StopSweep
  BY <1>5 DEF TypeOK, StopSweep, storeVars, timeVars, tallyVars
<1>6. CASE UNCHANGED vars
  BY <1>6 DEF TypeOK, vars, storeVars, timeVars, tallyVars
<1> QED
  BY <1>1, <1>2, <1>3, <1>4, <1>5, <1>6 DEF Next

(* Every variable of the store, the sweep and the clock keeps its type. *)
THEOREM TypeCorrect == Spec => []TypeOK
<1>1. Init => TypeOK
  <2>1. EmptyRing \in Ring(Nat, HistoryCapacity)
    BY FleetAssumption, EmptyRingType
  <2> QED BY <2>1 DEF Init, TypeOK, FreshnessState
<1> QED
  BY <1>1, TypeInductive, PTL DEF Spec
-----------------------------------------------------------------------------
(* Each step that changes what the store holds for a heard robot marks it. *)
LEMMA MarkedInductive ==
    TypeOK /\ MarkedIsStored /\ [Next]_vars => MarkedIsStored'
<1> SUFFICES ASSUME TypeOK, MarkedIsStored, [Next]_vars,
                    NEW q \in Robot, Observed(q)'
             PROVE  marked'[q] = StateOf(q)'
  BY DEF MarkedIsStored
<1>1. ASSUME NEW r \in Robot, NEW s \in Counters(r), Ingest(r, s)
      PROVE  marked'[q] = StateOf(q)'
  <2>1. CASE Accept(r, s)
    <3>1. CASE q = r
      BY <2>1, <3>1 DEF Accept, TypeOK
    <3>2. CASE q # r
      BY <2>1, <3>2 DEF Accept, TypeOK, MarkedIsStored, Observed, StateOf
    <3> QED
      BY <3>1, <3>2
  <2>2. CASE Duplicate(r, s) \/ OutOfOrder(r, s)
    BY <2>2 DEF Duplicate, OutOfOrder, MarkedIsStored, Observed, StateOf,
                storeVars
  <2> QED
    BY <1>1, <2>1, <2>2 DEF Ingest
<1>2. CASE Tick
  <2>1. CASE Swept(q) # freshness[q]
    BY <1>2, <2>1 DEF Tick, SweptMark
  <2>2. CASE Swept(q) = freshness[q]
    BY <1>2, <2>2 DEF Tick, SweptMark, MarkedIsStored, Observed, StateOf
  <2> QED
    BY <2>1, <2>2
<1>3. CASE StopSweep \/ Elapse \/ (\E d \in 1..MaxStepBack : StepBack(d))
           \/ UNCHANGED vars
  BY <1>3 DEF StopSweep, Elapse, StepBack, vars, storeVars,
              MarkedIsStored, Observed,
              StateOf
<1> QED
  BY <1>1, <1>2, <1>3 DEF Next

(* Fan-out is told of every state the store holds, whatever the clock does. *)
THEOREM FanOutIsTold == Spec => []MarkedIsStored
<1>1. Init => MarkedIsStored
  BY DEF Init, MarkedIsStored, Observed
<1> QED
  BY <1>1, TypeCorrect, MarkedInductive, PTL DEF Spec
-----------------------------------------------------------------------------
(* SequenceAccounting with what it leaves open for a robot not yet heard.  *)
CountsOf(r) ==
    IF Observed(r)
    THEN /\ sequence[r] # Null /\ first[r] # Null /\ continuity[r] # Null
         /\ continuity[r].evaluated
         /\ sequence[r] - first[r] + 1 = accepted[r] + continuity[r].gaps
         /\ continuity[r].duplicates = repeated[r]
    ELSE /\ sequence[r] = Null /\ first[r] = Null /\ continuity[r] = Null
         /\ accepted[r] = 0 /\ repeated[r] = 0

SequenceInv == \A r \in Numbered : CountsOf(r)

(* A step that changes none of the counts keeps the accounting.            *)
LEMMA CountsUnchanged ==
    ASSUME NEW q \in Robot, CountsOf(q),
           receivedAt'[q] = receivedAt[q], sequence'[q] = sequence[q],
           continuity'[q] = continuity[q], first'[q] = first[q],
           accepted'[q] = accepted[q], repeated'[q] = repeated[q]
    PROVE  CountsOf(q)'
BY DEF CountsOf, Observed

(* The first counter accepted starts the accounting at one reading.        *)
LEMMA FirstCounter ==
    ASSUME TypeOK, NEW r \in Robot, NEW s \in Nat, CountsOf(r), ~Observed(r),
           Accept(r, s)
    PROVE  CountsOf(r)'
<1>0. /\ continuity[r] = Null /\ first[r] = Null
      /\ accepted[r] = 0 /\ repeated[r] = 0
  BY DEF CountsOf
<1>1. /\ continuity'[r] = Evaluated(0, 0)
      /\ sequence'[r] = s /\ first'[r] = s
      /\ accepted'[r] = 1 /\ repeated'[r] = 0
      /\ receivedAt'[r] # Null /\ s # Null
  <2>1. continuity'[r] = AdvanceSequenceHealth(Null, sequence[r], s)
    BY <1>0 DEF Accept, TypeOK
  <2>2. s # Null
    BY NullAssumption
  <2> QED
    BY <1>0, <2>1, <2>2, NullAssumption
       DEF Accept, TypeOK, AdvanceSequenceHealth
<1>2. continuity'[r] # Null
  <2>1. Evaluated(0, 0) \in SequenceHealth
    BY DEF Evaluated, SequenceHealth
  <2> QED
    BY <1>1, <2>1, HealthAssumption
<1> QED
  BY <1>1, <1>2 DEF CountsOf, Observed, Evaluated

(* A later counter adds one reading and the gap before it.                 *)
LEMMA NextCounter ==
    ASSUME TypeOK, NEW r \in Robot, NEW s \in Nat, CountsOf(r), Observed(r),
           Accept(r, s)
    PROVE  CountsOf(r)'
<1>1. /\ s > sequence[r] /\ s # Null
      /\ sequence[r] \in Nat /\ first[r] \in Nat /\ accepted[r] \in Nat
      /\ continuity[r] \in SequenceHealth
  <2>1. /\ sequence[r] # Null /\ first[r] # Null /\ continuity[r] # Null
    BY DEF CountsOf
  <2>2. s # Null
    BY NullAssumption
  <2>3. s > sequence[r]
    BY <2>1, <2>2 DEF Accept, Newer, IsNewer
  <2> QED
    BY <2>1, <2>2, <2>3 DEF TypeOK
<1>2. continuity'[r] = [continuity[r] EXCEPT
                          !.gaps = @ + (s - sequence[r] - 1)]
  <2>1. continuity'[r] = AdvanceSequenceHealth(continuity[r], sequence[r], s)
    BY DEF Accept, TypeOK
  <2>2. Missing(sequence[r], s) = s - sequence[r] - 1
    BY <1>1, NullAssumption DEF Missing
  <2>3. s # Null /\ continuity[r] # Null /\ continuity[r].evaluated
    BY <1>1 DEF CountsOf
  <2> QED
    BY <2>1, <2>2, <2>3 DEF AdvanceSequenceHealth
<1>3. /\ continuity'[r].evaluated = continuity[r].evaluated
      /\ continuity'[r].gaps = continuity[r].gaps + (s - sequence[r] - 1)
      /\ continuity'[r].duplicates = continuity[r].duplicates
      /\ continuity[r].gaps \in Nat
  BY <1>1, <1>2 DEF SequenceHealth
<1>4. continuity'[r] # Null
  <2>1. continuity'[r] \in SequenceHealth
    BY <1>1, <1>2 DEF SequenceHealth
  <2> QED
    BY <2>1, HealthAssumption
<1>5. /\ sequence'[r] = s /\ first'[r] = first[r]
      /\ accepted'[r] = accepted[r] + 1 /\ repeated'[r] = repeated[r]
      /\ receivedAt'[r] # Null
  BY NullAssumption DEF Accept, CountsOf, TypeOK
<1>6. s - first[r] + 1 = (accepted[r] + 1)
                         + (continuity[r].gaps + (s - sequence[r] - 1))
  <2>1. sequence[r] - first[r] + 1 = accepted[r] + continuity[r].gaps
    BY DEF CountsOf
  <2> QED
    BY <1>1, <1>3, <2>1
<1> QED
  BY <1>1, <1>3, <1>4, <1>5, <1>6 DEF CountsOf, Observed

(* An exact repeat adds one duplicate and nothing else.                    *)
LEMMA RepeatedCounter ==
    ASSUME TypeOK, NEW r \in Robot, NEW s \in Nat, CountsOf(r),
           Duplicate(r, s)
    PROVE  CountsOf(r)'
<1>1. Observed(r)
  BY DEF Duplicate, Newer, IsNewer, CountsOf
<1>2. continuity[r] \in SequenceHealth
  BY <1>1 DEF CountsOf, TypeOK
<1>3. continuity'[r] = [continuity[r] EXCEPT !.duplicates = @ + 1]
  BY <1>1 DEF Duplicate, CountDuplicate, CountsOf, TypeOK
<1>4. /\ continuity'[r].evaluated = continuity[r].evaluated
      /\ continuity'[r].gaps = continuity[r].gaps
      /\ continuity'[r].duplicates = continuity[r].duplicates + 1
  BY <1>2, <1>3 DEF SequenceHealth
<1>5. continuity'[r] # Null
  <2>1. continuity'[r] \in SequenceHealth
    BY <1>2, <1>3 DEF SequenceHealth
  <2> QED
    BY <2>1, HealthAssumption
<1>6. repeated'[r] = repeated[r] + 1
  BY DEF Duplicate, TypeOK
<1> QED
  BY <1>1, <1>4, <1>5, <1>6 DEF Duplicate, CountsOf, Observed

(* The accounting is inductive.                                            *)
LEMMA SequenceInductive ==
    TypeOK /\ SequenceInv /\ [Next]_vars => SequenceInv'
<1> SUFFICES ASSUME TypeOK, SequenceInv, [Next]_vars, NEW q \in Numbered
             PROVE  CountsOf(q)'
  BY DEF SequenceInv
<1>0. q \in Robot /\ CountsOf(q)
  BY FleetAssumption DEF SequenceInv
<1>1. ASSUME NEW r \in Robot, NEW s \in Counters(r), Ingest(r, s)
      PROVE  CountsOf(q)'
  <2>1. CASE r # q
    <3>1. /\ receivedAt'[q] = receivedAt[q] /\ sequence'[q] = sequence[q]
          /\ continuity'[q] = continuity[q] /\ first'[q] = first[q]
          /\ accepted'[q] = accepted[q] /\ repeated'[q] = repeated[q]
      BY <1>0, <1>1, <2>1
         DEF Ingest, Accept, Duplicate, OutOfOrder, TypeOK, storeVars
    <3> QED
      BY <1>0, <3>1, CountsUnchanged
  <2>2. CASE r = q
    <3>1. s \in Nat
      BY <2>2, FleetAssumption DEF Counters
    <3>2. CASE Accept(r, s)
      BY <1>0, <2>2, <3>1, <3>2, FirstCounter, NextCounter
    <3>3. CASE Duplicate(r, s)
      BY <1>0, <2>2, <3>1, <3>3, RepeatedCounter
    <3>4. CASE OutOfOrder(r, s)
      BY <1>0, <3>4, CountsUnchanged DEF OutOfOrder, storeVars
    <3> QED
      BY <1>1, <3>2, <3>3, <3>4 DEF Ingest
  <2> QED
    BY <2>1, <2>2
<1>2. CASE Tick
  BY <1>0, <1>2, CountsUnchanged DEF Tick, tallyVars
<1>3. CASE StopSweep \/ Elapse \/ (\E d \in 1..MaxStepBack : StepBack(d))
           \/ UNCHANGED vars
  BY <1>0, <1>3, CountsUnchanged
     DEF StopSweep, Elapse, StepBack, vars, storeVars, timeVars, tallyVars
<1> QED
  BY <1>1, <1>2, <1>3 DEF Next

LEMMA CountsAlways == Spec => []SequenceInv
<1>1. Init => SequenceInv
  BY FleetAssumption DEF Init, SequenceInv, CountsOf, Observed
<1> QED
  BY <1>1, TypeCorrect, SequenceInductive, PTL DEF Spec

(* Continuity counts add up for every order, repeat and loss of readings.  *)
THEOREM CountsAddUp == Spec => []SequenceAccounting
<1>1. SequenceInv => SequenceAccounting
  BY DEF SequenceInv, CountsOf, SequenceAccounting
<1> QED
  BY <1>1, CountsAlways, PTL
-----------------------------------------------------------------------------
(***************************************************************************)
(* Detection latency, for a wall clock that is never set back.  Then now   *)
(* is elapsed time and the age a tick computes is the robot's silence; a   *)
(* shown freshness was right at the later of the last tick and the last    *)
(* accepted reading, so it is out of date by at most sinceTick.            *)
(***************************************************************************)
FreshnessOf(r) ==
    /\ Observed(r) <=> freshness[r] # "unknown"
    /\ Observed(r) => receivedAt[r] + silence[r] = now
    /\ freshness[r] = "live" => silence[r] <= LiveThreshold + sinceTick
    /\ freshness[r] = "stale" =>
          LiveThreshold < silence[r] /\ silence[r] <= StaleThreshold + sinceTick
    /\ freshness[r] = "unreachable" => StaleThreshold < silence[r]

FreshnessInv == \A r \in Robot : FreshnessOf(r)

(* The derivation, in terms of silence. *)
LEMMA DerivedFromSilence ==
    ASSUME NEW at \in Nat, NEW quiet \in Nat
    PROVE  /\ DeriveFreshness(at, at + quiet) = "live"
                 <=> quiet <= LiveThreshold
           /\ DeriveFreshness(at, at + quiet) = "stale"
                 <=> LiveThreshold < quiet /\ quiet <= StaleThreshold
           /\ DeriveFreshness(at, at + quiet) = "unreachable"
                 <=> StaleThreshold < quiet
           /\ DeriveFreshness(at, at + quiet) # "unknown"
BY PolicyAssumption, NullAssumption DEF DeriveFreshness, Age

(* The link between silence, the sweep and the state shown is inductive.   *)
LEMMA FreshnessInductive ==
    ASSUME MaxStepBack = 0
    PROVE  TypeOK /\ FreshnessInv /\ [Next]_vars => FreshnessInv'
<1> SUFFICES ASSUME TypeOK, FreshnessInv, [Next]_vars, NEW q \in Robot
             PROVE  FreshnessOf(q)'
  BY DEF FreshnessInv
<1>0. FreshnessOf(q) /\ silence[q] \in Nat /\ sinceTick \in Nat /\ now \in Nat
  BY DEF FreshnessInv, TypeOK
<1>1. ASSUME NEW r \in Robot, NEW s \in Counters(r), Ingest(r, s)
      PROVE  FreshnessOf(q)'
  <2>1. CASE Accept(r, s) /\ r = q
    <3>1. /\ receivedAt'[q] = now /\ silence'[q] = 0
          /\ freshness'[q] = DeriveFreshness(now, now)
          /\ now' = now /\ sinceTick' = sinceTick
      BY <1>1, <2>1 DEF Ingest, Accept, TypeOK
    <3>2. freshness'[q] = "live" /\ now # Null
      BY <1>0, <3>1, DerivedFromSilence, PolicyAssumption, NullAssumption
    <3> QED
      BY <1>0, <3>1, <3>2, PolicyAssumption DEF FreshnessOf, Observed
  <2>2. CASE ~(Accept(r, s) /\ r = q)
    <3>1. /\ receivedAt'[q] = receivedAt[q] /\ silence'[q] = silence[q]
          /\ freshness'[q] = freshness[q]
          /\ now' = now /\ sinceTick' = sinceTick
      BY <1>1, <2>2
         DEF Ingest, Accept, Duplicate, OutOfOrder, storeVars, TypeOK
    <3> QED
      BY <1>0, <3>1 DEF FreshnessOf, Observed
  <2> QED
    BY <2>1, <2>2
<1>2. CASE Tick
  <2>1. /\ receivedAt' = receivedAt /\ silence' = silence /\ now' = now
        /\ sinceTick' = 0 /\ freshness'[q] = Swept(q)
    BY <1>2 DEF Tick
  <2>2. CASE Observed(q)
    <3>1. receivedAt[q] \in Nat /\ receivedAt[q] + silence[q] = now
      BY <1>0, <2>2 DEF FreshnessOf, Observed, TypeOK
    <3>2. freshness'[q] = DeriveFreshness(receivedAt[q],
                                          receivedAt[q] + silence[q])
      BY <2>1, <2>2, <3>1 DEF Swept
    <3>3. /\ freshness'[q] # "unknown"
          /\ freshness'[q] = "live" => silence[q] <= LiveThreshold
          /\ freshness'[q] = "stale" =>
                LiveThreshold < silence[q] /\ silence[q] <= StaleThreshold
          /\ freshness'[q] = "unreachable" => StaleThreshold < silence[q]
      BY <1>0, <3>1, <3>2, DerivedFromSilence
    <3> QED
      BY <1>0, <2>1, <2>2, <3>1, <3>3, PolicyAssumption
         DEF FreshnessOf, Observed
  <2>3. CASE ~Observed(q)
    BY <1>0, <2>1, <2>3 DEF FreshnessOf, Observed, Swept
  <2> QED
    BY <2>2, <2>3
<1>3. CASE Elapse
  <2>1. /\ receivedAt' = receivedAt /\ freshness' = freshness
        /\ now' = now + 1 /\ sinceTick' = sinceTick + 1
        /\ silence'[q] = IF Observed(q) THEN silence[q] + 1 ELSE 0
    BY <1>3 DEF Elapse, storeVars
  <2>2. Observed(q) => receivedAt[q] \in Nat
    BY DEF Observed, TypeOK
  <2> QED
    BY <1>0, <2>1, <2>2, PolicyAssumption DEF FreshnessOf, Observed
<1>4. CASE \E d \in 1..MaxStepBack : StepBack(d)
  BY <1>4
<1>5. CASE StopSweep \/ UNCHANGED vars
  BY <1>0, <1>5 DEF StopSweep, vars, storeVars, timeVars, FreshnessOf, Observed
<1> QED
  BY <1>1, <1>2, <1>3, <1>4, <1>5 DEF Next

(* It holds throughout, as long as the clock never steps back.             *)
LEMMA FreshnessInvariant ==
    ASSUME MaxStepBack = 0
    PROVE  Spec => [](TypeOK /\ FreshnessInv)
<1>1. Init => FreshnessInv
  BY DEF Init, FreshnessInv, FreshnessOf, Observed
<1> QED
  BY <1>1, TypeCorrect, FreshnessInductive, PTL DEF Spec

(* ADR 3: a robot shown live, or not yet unreachable, has been silent for   *)
(* no longer than the threshold plus the time a tick may take to come.     *)
THEOREM DetectionIsTimely ==
    ASSUME MaxStepBack = 0
    PROVE  Spec => []DetectionBound
<1>1. TypeOK /\ FreshnessInv => DetectionBound
  BY PolicyAssumption
     DEF TypeOK, FreshnessInv, FreshnessOf, DetectionBound, TickBudget
<1> QED
  BY <1>1, FreshnessInvariant, PTL

(* No robot is shown stale or unreachable before its threshold has passed. *)
THEOREM NoAlarmIsEarly ==
    ASSUME MaxStepBack = 0
    PROVE  Spec => []NoEarlyAlarm
<1>1. FreshnessInv => NoEarlyAlarm
  BY DEF FreshnessInv, FreshnessOf, NoEarlyAlarm, TypeOK
<1> QED
  BY <1>1, FreshnessInvariant, PTL
-----------------------------------------------------------------------------
(* A dialect without a counter never acquires one. *)
UncountedInv ==
    \A r \in Robot \ Numbered :
        /\ sequence[r] = Null
        /\ Observed(r) => continuity[r] = NotEvaluated

(* Continuity of a dialect without counters is inductively unevaluated.    *)
LEMMA UncountedInductive ==
    TypeOK /\ UncountedInv /\ [Next]_vars => UncountedInv'
<1> SUFFICES ASSUME TypeOK, UncountedInv, [Next]_vars,
                    NEW q \in Robot \ Numbered
             PROVE  /\ sequence'[q] = Null
                    /\ Observed(q)' => continuity'[q] = NotEvaluated
  BY DEF UncountedInv
<1>1. ASSUME NEW r \in Robot, NEW s \in Counters(r), Ingest(r, s)
      PROVE  /\ sequence'[q] = Null
             /\ Observed(q)' => continuity'[q] = NotEvaluated
  <2>1. CASE r # q
    BY <1>1, <2>1 DEF Ingest, Accept, Duplicate, OutOfOrder, storeVars, TypeOK,
                      UncountedInv, Observed
  <2>2. CASE r = q
    <3>1. s = Null /\ Newer(r, s)
      BY <2>2 DEF Counters, Newer, IsNewer
    <3>2. Accept(r, s)
      BY <1>1, <3>1 DEF Ingest, Duplicate, OutOfOrder
    <3>3. continuity'[q] = AdvanceSequenceHealth(continuity[q], sequence[q], s)
      BY <2>2, <3>2 DEF Accept, TypeOK
    <3> QED
      BY <2>2, <3>1, <3>2, <3>3 DEF Accept, TypeOK, AdvanceSequenceHealth
  <2> QED
    BY <2>1, <2>2
<1>2. CASE Tick \/ StopSweep \/ Elapse
           \/ (\E d \in 1..MaxStepBack : StepBack(d))
           \/ UNCHANGED vars
  BY <1>2 DEF Tick, StopSweep, Elapse, StepBack, vars, storeVars,
              UncountedInv, Observed
<1> QED
  BY <1>1, <1>2 DEF Next

(* A dialect without a counter is never reported as evaluated.             *)
THEOREM UncountedIsNotEvaluated == Spec => []UnnumberedNotEvaluated
<1>1. Init => UncountedInv
  BY DEF Init, UncountedInv, Observed
<1>2. UncountedInv => UnnumberedNotEvaluated
  BY DEF UncountedInv, UnnumberedNotEvaluated
<1> QED
  BY <1>1, <1>2, TypeCorrect, UncountedInductive, PTL DEF Spec

(* What a step may do to one robot, for OnlyNewReadingsRevive. *)
Ordered(q) ==
    /\ sequence[q] # Null => sequence'[q] # Null /\ sequence'[q] >= sequence[q]
    /\ freshness'[q] = "live" /\ freshness[q] # "live"
          => accepted'[q] = accepted[q] + 1

(* No step moves a counter back or revives a robot without a reading.      *)
LEMMA StepIsOrdered ==
    ASSUME MaxStepBack = 0, TypeOK, FreshnessInv, UncountedInv, [Next]_vars,
           NEW q \in Robot
    PROVE  Ordered(q)
<1>1. ASSUME NEW r \in Robot, NEW s \in Counters(r), Ingest(r, s)
      PROVE  Ordered(q)
  <2>1. CASE Accept(r, s) /\ r = q
    <3>1. sequence[q] # Null => s # Null
      BY <2>1, FleetAssumption, NullAssumption DEF UncountedInv, Counters
    <3>2. sequence[q] # Null => s \in Nat /\ s > sequence[q]
      BY <2>1, <3>1, CounterType DEF Accept, Newer, IsNewer
    <3> QED
      BY <2>1, <3>1, <3>2 DEF Accept, TypeOK, Ordered
  <2>2. CASE ~(Accept(r, s) /\ r = q)
    BY <1>1, <2>2
       DEF Ingest, Accept, Duplicate, OutOfOrder, storeVars, TypeOK, Ordered
  <2> QED
    BY <2>1, <2>2
<1>2. CASE Tick
  <2>1. sequence' = sequence /\ freshness'[q] = Swept(q)
    BY <1>2 DEF Tick
  <2>2. Swept(q) = "live" => freshness[q] = "live"
    <3>1. CASE Observed(q)
      <4>1. /\ receivedAt[q] \in Nat /\ silence[q] \in Nat
            /\ receivedAt[q] + silence[q] = now
        BY <3>1 DEF FreshnessInv, FreshnessOf, Observed, TypeOK
      <4>2. Swept(q) = DeriveFreshness(receivedAt[q],
                                       receivedAt[q] + silence[q])
        BY <3>1, <4>1 DEF Swept
      <4>3. Swept(q) = "live" => silence[q] <= LiveThreshold
        BY <4>1, <4>2, DerivedFromSilence
      <4>4. freshness[q] \in FreshnessState
        BY DEF TypeOK
      <4> QED
        BY <3>1, <4>1, <4>3, <4>4, PolicyAssumption
           DEF FreshnessInv, FreshnessOf, FreshnessState
    <3>2. CASE ~Observed(q)
      BY <3>2 DEF Swept
    <3> QED
      BY <3>1, <3>2
  <2> QED
    BY <2>1, <2>2 DEF TypeOK, Ordered
<1>3. CASE StopSweep \/ Elapse \/ (\E d \in 1..MaxStepBack : StepBack(d))
           \/ UNCHANGED vars
  BY <1>3 DEF StopSweep, Elapse, StepBack, vars, storeVars, TypeOK, Ordered
<1> QED
  BY <1>1, <1>2, <1>3 DEF Next

(* Counters never go back, and only an accepted reading turns a robot live *)
(* again: no sweep, repeat or late arrival does.                           *)
THEOREM RevivalNeedsAReading ==
    ASSUME MaxStepBack = 0
    PROVE  Spec => OnlyNewReadingsRevive
<1>1. Spec => [](TypeOK /\ FreshnessInv)
  BY FreshnessInvariant
<1>2. Spec => []UncountedInv
  <2>1. Init => UncountedInv
    BY DEF Init, UncountedInv, Observed
  <2> QED
    BY <2>1, TypeCorrect, UncountedInductive, PTL DEF Spec
<1>3. TypeOK /\ FreshnessInv /\ UncountedInv /\ [Next]_vars
         => \A r \in Robot :
              /\ sequence[r] # Null
                    => sequence'[r] # Null /\ sequence'[r] >= sequence[r]
              /\ freshness'[r] = "live" /\ freshness[r] # "live"
                    => accepted'[r] = accepted[r] + 1
  BY StepIsOrdered DEF Ordered
<1> QED
  BY <1>1, <1>2, <1>3, PTL DEF Spec, OnlyNewReadingsRevive
-----------------------------------------------------------------------------
(* What is read back of the ring is one sample more, up to its capacity,   *)
(* and the newest last; what it already held keeps its order.              *)
RetainedIs(new, old, t) ==
    /\ Len(new) = IF Len(old) < HistoryCapacity THEN Len(old) + 1
                                                ELSE HistoryCapacity
    /\ new[Len(new)] = t
    /\ \A i \in 1..Len(new) :
          i # Len(new) => new[i] = IF Len(old) < HistoryCapacity THEN old[i]
                                                                 ELSE old[i + 1]

LEMMA RetainedFacts ==
    ASSUME NEW old \in Seq(Nat), NEW t \in Nat, Len(old) <= HistoryCapacity
    PROVE  /\ Retained(old, t, HistoryCapacity) \in Seq(Nat)
           /\ RetainedIs(Retained(old, t, HistoryCapacity), old, t)
<1> DEFINE grown == Append(old, t)
           new == Retained(old, t, HistoryCapacity)
<1>1. /\ grown \in Seq(Nat) /\ Len(grown) = Len(old) + 1
      /\ grown[Len(old) + 1] = t
      /\ \A i \in 1..Len(old) : grown[i] = old[i]
  OBVIOUS
<1>2. HistoryCapacity \in Nat \ {0} /\ Len(old) \in Nat
  BY FleetAssumption
<1>3. CASE Len(old) < HistoryCapacity
  <2>1. new = grown
    BY <1>1, <1>2, <1>3 DEF Retained
  <2> QED
    BY <1>1, <1>2, <1>3, <2>1 DEF RetainedIs
<1>4. CASE Len(old) = HistoryCapacity
  <2>1. new = Tail(grown)
    BY <1>1, <1>2, <1>4 DEF Retained
  <2>2. /\ Tail(grown) \in Seq(Nat) /\ Len(Tail(grown)) = Len(old)
        /\ \A i \in 1..Len(old) : Tail(grown)[i] = grown[i + 1]
    BY <1>1, <1>2, <1>4
  <2> QED
    BY <1>1, <1>2, <1>4, <2>1, <2>2 DEF RetainedIs
<1> QED
  BY <1>2, <1>3, <1>4

(* The ring and what is read back of it.                                   *)
ReadsBack(r) ==
    /\ Samples(r) \in Seq(Nat)
    /\ RingHolds(history[r], HistoryCapacity, Samples(r))

HistoryOf(r) ==
    /\ ReadsBack(r)
    /\ Len(Samples(r)) = IF accepted[r] < HistoryCapacity
                         THEN accepted[r] ELSE HistoryCapacity
    /\ Observed(r) => /\ accepted[r] > 0
                      /\ Samples(r)[Len(Samples(r))] = receivedAt[r]

HistoryInv == \A r \in Robot : HistoryOf(r)

(* A pushed sample is retained, wherever the ring's cursor stands. *)
LEMMA PushedIsRetained ==
    ASSUME TypeOK, NEW q \in Robot, ReadsBack(q),
           Len(Samples(q)) <= HistoryCapacity,
           history'[q] = Push(history[q], now, HistoryCapacity)
    PROVE  ReadsBack(q)' /\ RetainedIs(Samples(q)', Samples(q), now)
<1>1. PICK c \in Nat : c = HistoryCapacity /\ c > 0
  BY FleetAssumption
<1>2. PICK old \in Seq(Nat) : old = Samples(q) /\ Len(old) <= c
  BY <1>1 DEF ReadsBack
<1>3. PICK held : held = history[q] /\ RingHolds(held, c, old)
  BY <1>1, <1>2 DEF ReadsBack
<1>4. PICK t \in Nat : t = now
  BY DEF TypeOK
<1>5. PICK new : new = Retained(old, t, c)
  OBVIOUS
<1>6. RingHolds(Push(held, t, c), c, new)
  BY <1>1, <1>3, <1>5, PushRetains
<1>7. ToArray(Push(held, t, c), c) = new
  BY <1>1, <1>6, RingReads
<1>8. new \in Seq(Nat) /\ RetainedIs(new, old, t)
  BY <1>1, <1>2, <1>5, RetainedFacts
<1>9. Samples(q)' = new /\ history'[q] = Push(held, t, c)
  BY <1>1, <1>3, <1>4, <1>7 DEF Samples
<1> QED BY <1>1, <1>2, <1>4, <1>6, <1>8, <1>9 DEF ReadsBack

(* What is read back has as many samples as readings were accepted, up to  *)
(* the capacity, and ends with the last of them.                           *)
LEMMA HistoryInductive == TypeOK /\ HistoryInv /\ [Next]_vars => HistoryInv'
<1> SUFFICES ASSUME TypeOK, HistoryInv, [Next]_vars, NEW q \in Robot
             PROVE  HistoryOf(q)'
  BY DEF HistoryInv
<1>0. HistoryOf(q) /\ Samples(q) \in Seq(Nat) /\ accepted[q] \in Nat
  BY DEF HistoryInv, TypeOK, HistoryOf, ReadsBack
<1>1. ASSUME NEW r \in Robot, NEW s \in Counters(r), Ingest(r, s)
      PROVE  HistoryOf(q)'
  <2>1. CASE Accept(r, s) /\ r = q
    <3>1. /\ history'[q] = Push(history[q], now, HistoryCapacity)
          /\ receivedAt'[q] = now
          /\ accepted'[q] = accepted[q] + 1 /\ now \in Nat
      BY <2>1 DEF Accept, TypeOK
    <3>2. Len(Samples(q)) <= HistoryCapacity
      BY <1>0, FleetAssumption DEF HistoryOf
    <3>3. ReadsBack(q)' /\ RetainedIs(Samples(q)', Samples(q), now)
      BY <1>0, <3>1, <3>2, PushedIsRetained DEF HistoryOf
    <3>4. PICK old : old = Samples(q)
      OBVIOUS
    <3>5. PICK new : new = Samples(q)'
      OBVIOUS
    <3>6. /\ Len(new) = IF Len(old) < HistoryCapacity THEN Len(old) + 1
                                                      ELSE HistoryCapacity
          /\ new[Len(new)] = now
      BY <3>3, <3>4, <3>5 DEF RetainedIs
    <3>7. Len(old) = IF accepted[q] < HistoryCapacity
                     THEN accepted[q] ELSE HistoryCapacity
      BY <1>0, <3>4 DEF HistoryOf
    <3>8. Len(new) = IF accepted'[q] < HistoryCapacity
                     THEN accepted'[q] ELSE HistoryCapacity
      BY <1>0, <3>1, <3>6, <3>7, FleetAssumption
    <3>9. accepted'[q] > 0
      BY <1>0, <3>1
    <3> QED
      BY <3>1, <3>3, <3>5, <3>6, <3>8, <3>9 DEF HistoryOf
  <2>2. CASE ~(Accept(r, s) /\ r = q)
    <3>1. /\ history'[q] = history[q] /\ receivedAt'[q] = receivedAt[q]
          /\ accepted'[q] = accepted[q]
      BY <1>1, <2>2
         DEF Ingest, Accept, Duplicate, OutOfOrder, storeVars, TypeOK
    <3> QED
      BY <1>0, <3>1 DEF HistoryOf, Observed, Samples, ReadsBack
  <2> QED
    BY <2>1, <2>2
<1>2. CASE Tick \/ StopSweep \/ Elapse
           \/ (\E d \in 1..MaxStepBack : StepBack(d))
           \/ UNCHANGED vars
  BY <1>0, <1>2 DEF Tick, StopSweep, Elapse, StepBack, vars, storeVars,
                    tallyVars,
                    HistoryOf, Observed, Samples, ReadsBack
<1> QED
  BY <1>1, <1>2 DEF Next

(* Nothing is read back of a new ring. *)
LEMMA HistoryInit == Init => HistoryInv /\ \A r \in Robot : Samples(r) = <<>>
<1> SUFFICES ASSUME Init, NEW r \in Robot
             PROVE  HistoryOf(r) /\ Samples(r) = <<>>
  BY DEF HistoryInv
<1>1. HistoryCapacity \in Nat /\ HistoryCapacity > 0
  BY FleetAssumption
<1>2. history[r] = EmptyRing /\ accepted[r] = 0 /\ ~Observed(r)
  BY DEF Init, Observed
<1>3. RingHolds(EmptyRing, HistoryCapacity, <<>>)
  BY <1>1, EmptyRingHolds
<1>4. Samples(r) = <<>>
  BY <1>1, <1>2, <1>3, RingReads DEF Samples
<1> QED BY <1>1, <1>2, <1>3, <1>4 DEF HistoryOf, ReadsBack

(* History holds the newest accepted readings, however they were ordered,  *)
(* repeated or swept in between, and whatever the clock did.               *)
THEOREM HistoryIsAccepted == Spec => []HistoryTracksState
<1>1. Init => HistoryInv
  BY HistoryInit
<1>2. HistoryInv => HistoryTracksState
  BY DEF HistoryInv, HistoryOf, HistoryTracksState, Last
<1> QED
  BY <1>1, <1>2, TypeCorrect, HistoryInductive, PTL DEF Spec
-----------------------------------------------------------------------------
AscendingOf(r) ==
    /\ \A i, j \in 1..Len(Samples(r)) : i < j => Samples(r)[i] <= Samples(r)[j]
    /\ \A i \in 1..Len(Samples(r)) : Samples(r)[i] <= now

AscendingInv == \A r \in Robot : AscendingOf(r)

(* Samples stay in order as each new one is stamped with the latest time.  *)
LEMMA AscendingInductive ==
    ASSUME MaxStepBack = 0
    PROVE  TypeOK /\ HistoryInv /\ AscendingInv /\ [Next]_vars => AscendingInv'
<1> SUFFICES ASSUME TypeOK, HistoryInv, AscendingInv, [Next]_vars,
                    NEW q \in Robot
             PROVE  AscendingOf(q)'
  BY DEF AscendingInv
<1>0. /\ AscendingOf(q) /\ Samples(q) \in Seq(Nat) /\ now \in Nat
      /\ Len(Samples(q)) <= HistoryCapacity /\ ReadsBack(q)
      /\ accepted[q] \in Nat
  BY FleetAssumption DEF AscendingInv, HistoryInv, HistoryOf, ReadsBack, TypeOK
<1>1. ASSUME NEW r \in Robot, NEW s \in Counters(r), Ingest(r, s)
      PROVE  AscendingOf(q)'
  <2>0. now' = now
    BY <1>1 DEF Ingest
  <2>1. CASE Accept(r, s) /\ r = q
    <3>1. history'[q] = Push(history[q], now, HistoryCapacity)
      BY <2>1 DEF Accept, TypeOK
    <3> DEFINE old == Samples(q)
               new == Samples(q)'
    <3>2. /\ Len(new) = IF Len(old) < HistoryCapacity
                        THEN Len(old) + 1 ELSE HistoryCapacity
          /\ new[Len(new)] = now
          /\ \A i \in 1..Len(new) :
                i # Len(new) =>
                   new[i] = IF Len(old) < HistoryCapacity THEN old[i]
                                                          ELSE old[i + 1]
      <4>1. RetainedIs(new, old, now)
        BY <1>0, <3>1, PushedIsRetained
      <4> HIDE DEF old, new
      <4> QED BY <4>1 DEF RetainedIs
    <3>3. Len(old) \in Nat /\ HistoryCapacity \in Nat \ {0}
      BY <1>0, FleetAssumption
    <3>4. \A i \in 1..Len(old) : old[i] \in Nat /\ old[i] <= now
      BY <1>0 DEF AscendingOf
    <3>5. \A i, j \in 1..Len(old) : i < j => old[i] <= old[j]
      BY <1>0 DEF AscendingOf
    <3> HIDE DEF old, new
    <3>6. \A i \in 1..Len(new) : new[i] \in Nat /\ new[i] <= now
      BY <1>0, <3>2, <3>3, <3>4
    <3>7. \A i, j \in 1..Len(new) : i < j => new[i] <= new[j]
      <4> SUFFICES ASSUME NEW i \in 1..Len(new), NEW j \in 1..Len(new), i < j
                   PROVE  new[i] <= new[j]
        OBVIOUS
      <4>1. CASE j = Len(new)
        BY <3>2, <3>6, <4>1
      <4>2. CASE j # Len(new) /\ Len(old) < HistoryCapacity
        <5>1. /\ i \in 1..Len(old) /\ j \in 1..Len(old)
              /\ i # Len(new) /\ j # Len(new)
          BY <3>2, <3>3, <4>2
        <5>2. new[i] = old[i] /\ new[j] = old[j]
          BY <3>2, <4>2, <5>1
        <5> QED
          BY <3>5, <5>1, <5>2
      <4>3. CASE j # Len(new) /\ ~(Len(old) < HistoryCapacity)
        <5>1. i + 1 \in 1..Len(old) /\ j + 1 \in 1..Len(old)
          BY <1>0, <3>2, <3>3, <4>3 DEF old
        <5>2. new[i] = old[i + 1] /\ new[j] = old[j + 1]
          BY <3>2, <3>3, <4>3
        <5> QED
          BY <3>5, <5>1, <5>2
      <4> QED
        BY <4>1, <4>2, <4>3
    <3> QED
      BY <2>0, <3>6, <3>7 DEF AscendingOf, new
  <2>2. CASE ~(Accept(r, s) /\ r = q)
    <3>1. history'[q] = history[q]
      BY <1>1, <2>2
         DEF Ingest, Accept, Duplicate, OutOfOrder, storeVars, TypeOK
    <3> QED
      BY <1>0, <2>0, <3>1 DEF AscendingOf, Samples
  <2> QED
    BY <2>1, <2>2
<1>2. CASE Tick \/ StopSweep \/ UNCHANGED vars
  BY <1>0, <1>2 DEF Tick, StopSweep, vars, storeVars, AscendingOf, Samples
<1>3. CASE Elapse
  <2>1. history' = history /\ now' = now + 1
    BY <1>3 DEF Elapse, storeVars
  <2>2. \A i \in 1..Len(Samples(q)) : Samples(q)[i] \in Nat
    BY <1>0
  <2> QED
    BY <1>0, <2>1, <2>2 DEF AscendingOf, Samples
<1>4. CASE \E d \in 1..MaxStepBack : StepBack(d)
  BY <1>4
<1> QED
  BY <1>1, <1>2, <1>3, <1>4 DEF Next

(* The history response is chronological while the clock never steps back. *)
THEOREM HistoryIsChronological ==
    ASSUME MaxStepBack = 0
    PROVE  Spec => []HistoryChronological
<1>1. Init => HistoryInv /\ AscendingInv
  BY HistoryInit DEF AscendingInv, AscendingOf
<1>2. AscendingInv => HistoryChronological
  BY DEF AscendingInv, AscendingOf, HistoryChronological
<1> QED
  BY <1>1, <1>2, TypeCorrect, HistoryInductive, AscendingInductive, PTL DEF Spec
-----------------------------------------------------------------------------
LastTickInv == lastTickAt # Null => lastTickAt \in Nat /\ lastTickAt + sinceTick = now

(* The time since the last tick is what the wall clock measures.           *)
LEMMA LastTickInductive ==
    ASSUME MaxStepBack = 0
    PROVE  TypeOK /\ LastTickInv /\ [Next]_vars => LastTickInv'
<1> SUFFICES ASSUME TypeOK, LastTickInv, [Next]_vars PROVE LastTickInv'
  OBVIOUS
<1>1. CASE \E r \in Robot : \E s \in Counters(r) : Ingest(r, s)
  BY <1>1 DEF Ingest, LastTickInv
<1>2. CASE Tick
  BY <1>2 DEF Tick, LastTickInv, TypeOK
<1>3. CASE Elapse
  BY <1>3 DEF Elapse, LastTickInv, TypeOK
<1>4. CASE \E d \in 1..MaxStepBack : StepBack(d)
  BY <1>4
<1>5. CASE StopSweep \/ UNCHANGED vars
  BY <1>5 DEF StopSweep, vars, timeVars, LastTickInv
<1> QED
  BY <1>1, <1>2, <1>3, <1>4, <1>5 DEF Next

(* The tick that ends an overdue interval counts it.                       *)
LEMMA LateStepRecorded ==
    ASSUME MaxStepBack = 0, TypeOK, LastTickInv, [Next]_vars,
           lastTickAt # Null, sinceTick > TickBudget, sinceTick' = 0
    PROVE  lateTicks' = 1
<1>1. sinceTick \in Nat /\ TickBudget \in Nat /\ sinceTick # 0
  BY PolicyAssumption DEF TypeOK, TickBudget
<1>2. Tick
  BY <1>1 DEF Next, Ingest, StopSweep, Elapse, StepBack, timeVars, vars
<1>3. Late
  BY <1>1 DEF Late, LastTickInv, TypeOK
<1> QED
  BY <1>2, <1>3 DEF Tick

(* A sweep that came later than tolerated is always recorded, except first. *)
THEOREM LatenessIsRecorded ==
    ASSUME MaxStepBack = 0
    PROVE  Spec => LateTicksAreRecorded
<1>1. Spec => []LastTickInv
  <2>1. Init => LastTickInv
    BY DEF Init, LastTickInv
  <2> QED
    BY <2>1, TypeCorrect, LastTickInductive, PTL DEF Spec
<1>2. TypeOK /\ LastTickInv /\ [Next]_vars
         => (lastTickAt # Null /\ sinceTick > TickBudget /\ sinceTick' = 0
               => lateTicks' = 1)
  BY LateStepRecorded
<1> QED
  BY <1>1, <1>2, TypeCorrect, PTL DEF Spec, LateTicksAreRecorded
-----------------------------------------------------------------------------
(* The whole process. *)

(* A registered robot's payload carries a counter its dialect allows.      *)
LEMMA CountersFit ==
    ASSUME NEW v \in Vendor, NEW r \in Robot, VendorOf[r] = v,
           NEW s \in CountersOf(v)
    PROVE  s \in Counters(r)
<1>1. PICK q \in Robot : VendorOf[q] = v /\ s \in Counters(q)
  BY DEF CountersOf
<1>2. q \in Numbered <=> r \in Numbered
  BY <1>1, BoundaryAssumption
<1> QED
  BY <1>1, <1>2 DEF Counters

(* A body's end is a reading the store takes, or leaves the store alone.   *)
LEMMA BodyEndsIsNext ==
    ASSUME NEW v \in Vendor, BodyEnds(v)
    PROVE  [Next]_vars
<1>1. CASE \E o \in Outcome : RefuseBody(v, o)
  BY <1>1 DEF RefuseBody
<1>2. CASE NotJson(v)
  BY <1>2 DEF NotJson
<1>3. CASE \E o \in Outcome, extra \in Undeclared[v] : DecodeFails(v, o, extra)
  BY <1>3 DEF DecodeFails
<1>4. ASSUME NEW r \in Robot, NEW extra \in Undeclared[v],
             NEW s \in CountersOf(v), Reading(v, r, s, extra)
      PROVE  [Next]_vars
  <2>1. VendorOf[r] = v /\ Ingest(r, s)
    BY <1>4 DEF Reading, Registered
  <2>2. s \in Counters(r)
    BY <2>1, CountersFit
  <2> QED
    BY <2>1, <2>2 DEF Next
<1>5. CASE \E r \in Robot \cup {Stranger}, home \in BOOLEAN,
              extra \in Undeclared[v] : NotRegistered(v, r, home, extra)
  BY <1>5 DEF NotRegistered
<1> QED
  BY <1>1, <1>2, <1>3, <1>4, <1>5 DEF BodyEnds

LEMMA BoundaryStep == [BoundaryNext]_allVars => [Next]_vars
<1> SUFFICES ASSUME [BoundaryNext]_allVars PROVE [Next]_vars
  OBVIOUS
<1>1. CASE RefuseVendor \/ (\E v \in Vendor : RefuseDeclared(v))
           \/ (\E v \in Vendor : AwaitBody(v))
  BY <1>1 DEF RefuseVendor, RefuseDeclared, AwaitBody
<1>2. CASE \E v \in Vendor : BodyEnds(v)
  BY <1>2, BodyEndsIsNext
<1>3. CASE \E c \in Console : Open(c) \/ Gone(c)
  BY <1>3 DEF Open, Gone
<1>4. CASE SweepTicks \/ TimePasses \/ Stop
  BY <1>4 DEF SweepTicks, TimePasses, Stop, Next
<1>5. CASE CloseServer \/ Stopped
  BY <1>5 DEF CloseServer, Stopped
<1>6. CASE UNCHANGED allVars
  BY <1>6 DEF allVars
<1> QED
  BY <1>1, <1>2, <1>3, <1>4, <1>5, <1>6 DEF BoundaryNext

(* The server process implements the store's specification: no refusal,    *)
(* overlap of requests or stop shows in the store, the sweep or the marks. *)
THEOREM StoreIsImplemented == BoundarySpec => ImplementsStore
<1>1. BoundaryInit => Init
  BY DEF BoundaryInit
<1> QED
  BY <1>1, BoundaryStep, PTL DEF BoundarySpec, ImplementsStore, Spec

(* So fan-out has been told what the store holds at every moment of the    *)
(* process, and continuity adds up whatever was refused in between.        *)
THEOREM ServerKeepsItsWord ==
    BoundarySpec => [](TypeOK /\ MarkedIsStored /\ SequenceAccounting)
BY StoreIsImplemented, TypeCorrect, FanOutIsTold, CountsAddUp, PTL
   DEF ImplementsStore
-----------------------------------------------------------------------------
EvidenceInv ==
    /\ rawPayload \in [Robot -> Payload \cup {Null}]
    /\ EvidenceMatchesState

(* Evidence and state change together, by an accepted reading, or neither. *)
LEMMA EvidenceStep ==
    ASSUME TypeOK, EvidenceInv, [BoundaryNext]_allVars
    PROVE  EvidenceInv'
<1> USE DEF EvidenceInv, EvidenceMatchesState, Observed
<1>1. ASSUME NEW v \in Vendor, NEW r \in Robot, NEW s \in CountersOf(v),
             NEW extra \in Undeclared[v], Reading(v, r, s, extra)
      PROVE  EvidenceInv'
  <2>1. /\ Ingest(r, s)
        /\ rawPayload' = RetainPayload(r, s)
        /\ s \in Counters(r)
    BY <1>1, CountersFit DEF Reading, Registered
  <2>2. s \in Nat \cup {Null}
    BY <2>1, CounterType
  <2>3. CASE Accept(r, s)
    <3>1. /\ receivedAt' = [receivedAt EXCEPT ![r] = now]
          /\ sequence' = [sequence EXCEPT ![r] = s]
          /\ rawPayload' = [rawPayload EXCEPT ![r] = [sequence |-> s]]
      BY <2>1, <2>3 DEF Accept, RetainPayload
    <3>2. now \in Nat /\ now # Null
      BY NullAssumption DEF TypeOK
    <3>3. [sequence |-> s] \in Payload /\ [sequence |-> s] # Null
      BY <2>2, BoundaryAssumption DEF Payload
    <3> QED
      BY <3>1, <3>2, <3>3 DEF TypeOK
  <2>4. CASE ~Accept(r, s)
    <3>1. ~Newer(r, s) /\ UNCHANGED <<receivedAt, sequence>>
      BY <2>1, <2>4 DEF Ingest, Duplicate, OutOfOrder, storeVars
    <3> QED
      BY <2>1, <3>1 DEF RetainPayload
  <2> QED
    BY <2>3, <2>4
<1>2. CASE ~\E v \in Vendor, r \in Robot :
             \E extra \in Undeclared[v], s \in CountersOf(v) :
                Reading(v, r, s, extra)
  <2>1. UNCHANGED <<receivedAt, sequence, rawPayload>>
    <3>1. CASE \E v \in Vendor : BodyEnds(v)
      BY <1>2, <3>1 DEF BodyEnds, RefuseBody, NotJson, DecodeFails,
                        NotRegistered, vars, storeVars
    <3>2. CASE SweepTicks \/ TimePasses \/ Stop
      BY <3>2 DEF SweepTicks, TimePasses, Stop, Tick, Elapse, StepBack,
                  StopSweep, boundaryVars, storeVars
    <3>3. CASE CloseServer \/ Stopped \/ RefuseVendor
               \/ (\E v \in Vendor : RefuseDeclared(v) \/ AwaitBody(v))
               \/ (\E c \in Console : Open(c) \/ Gone(c))
               \/ UNCHANGED allVars
      BY <3>3 DEF CloseServer, Stopped, RefuseVendor, RefuseDeclared,
                  AwaitBody, Open, Gone, allVars, boundaryVars, vars,
                  storeVars
    <3> QED
      BY <3>1, <3>2, <3>3 DEF BoundaryNext
  <2> QED
    BY <2>1
<1> QED
  BY <1>1, <1>2

(* The technician's payload is always that of the reading the shown state  *)
(* came from, for every order and repetition of readings.                  *)
THEOREM EvidenceIsOfState == BoundarySpec => []EvidenceMatchesState
<1>1. BoundaryInit => EvidenceInv
  BY DEF BoundaryInit, Init, EvidenceInv, EvidenceMatchesState, Observed
<1>2. TypeOK /\ EvidenceInv /\ [BoundaryNext]_allVars => EvidenceInv'
  BY EvidenceStep
<1>3. EvidenceInv => EvidenceMatchesState
  BY DEF EvidenceInv
<1> QED
  BY <1>1, <1>2, <1>3, ServerKeepsItsWord, PTL DEF BoundarySpec
-----------------------------------------------------------------------------
(* However many consoles come and go, and whenever the signal comes, no    *)
(* socket is open unserved, and none is left when the HTTP server closes.  *)
THEOREM SocketsAreServed == BoundarySpec => []ConsolesAreServed
<1>1. BoundaryInit => ConsolesAreServed
  BY DEF BoundaryInit, ConsolesAreServed
<1>2. ConsolesAreServed /\ [BoundaryNext]_allVars => ConsolesAreServed'
  <2> SUFFICES ASSUME ConsolesAreServed, [BoundaryNext]_allVars
               PROVE  ConsolesAreServed'
    OBVIOUS
  <2> USE DEF ConsolesAreServed
  <2>1. CASE \E v \in Vendor : BodyEnds(v)
    BY <2>1 DEF BodyEnds, RefuseBody, NotJson, DecodeFails, Reading,
                NotRegistered, Answer, processVars
  <2>2. CASE RefuseVendor \/ SweepTicks \/ TimePasses
             \/ (\E v \in Vendor : RefuseDeclared(v) \/ AwaitBody(v))
             \/ UNCHANGED allVars
    BY <2>2 DEF RefuseVendor, SweepTicks, TimePasses, RefuseDeclared,
                AwaitBody, allVars, boundaryVars, processVars
  <2>3. CASE \E c \in Console : Open(c) \/ Gone(c)
    BY <2>3 DEF Open, Gone, RegisteredWithout
  <2>4. CASE Stop \/ CloseServer \/ Stopped
    BY <2>4 DEF Stop, CloseServer, Stopped, Drained
  <2> QED
    BY <2>1, <2>2, <2>3, <2>4 DEF BoundaryNext
<1> QED
  BY <1>1, <1>2, PTL DEF BoundarySpec
-----------------------------------------------------------------------------
(* The counters the health response is made of.                            *)
CountersTyped ==
    /\ malformedIngest \in Nat
    /\ adapterFailures \in [Vendor -> Nat]
    /\ unknownFields \in [Vendor -> Nat]
    /\ answers \in [Vendor -> [Outcome -> Nat]]

RequestsInv == CountersTyped /\ RequestsAccounted

(* One answer more of one kind, whichever vendor it was for. *)
LEMMA AnsweredOnce ==
    ASSUME CountersTyped, NEW v \in Vendor, NEW o \in Outcome, Answered(v, o)
    PROVE  /\ answers' \in [Vendor -> [Outcome -> Nat]]
           /\ \A w \in Vendor, q \in Outcome :
                 answers'[w][q] = answers[w][q] + (IF w = v /\ q = o THEN 1 ELSE 0)
           /\ \A q \in Outcome :
                 /\ Answers(q) \in Int
                 /\ Answers(q)' = Answers(q) + (IF q = o THEN 1 ELSE 0)
<1>1. \A w \in Vendor : answers[w] \in [Outcome -> Nat]
  BY DEF CountersTyped
<1>2. answers' = [answers EXCEPT ![v] = [answers[v] EXCEPT ![o] = answers[v][o] + 1]]
  BY DEF Answered
<1>3. [answers[v] EXCEPT ![o] = answers[v][o] + 1] \in [Outcome -> Nat]
  BY <1>1
<1>4. answers' \in [Vendor -> [Outcome -> Nat]]
  BY <1>2, <1>3 DEF CountersTyped
<1>5. ASSUME NEW w \in Vendor, NEW q \in Outcome
      PROVE  answers'[w][q] = answers[w][q] + (IF w = v /\ q = o THEN 1 ELSE 0)
  BY <1>1, <1>2 DEF CountersTyped
<1>6. ASSUME NEW q \in Outcome
      PROVE  /\ Answers(q) \in Int
             /\ Answers(q)' = Answers(q) + (IF q = o THEN 1 ELSE 0)
  <2>1. PICK f : f = [w \in Vendor |-> answers[w][q]]
    OBVIOUS
  <2>2. PICK g : g = [w \in Vendor |-> answers'[w][q]]
    OBVIOUS
  <2>3. /\ \A w \in Vendor : f[w] \in Int
        /\ g[v] \in Int /\ g[v] - f[v] = IF q = o THEN 1 ELSE 0
        /\ \A w \in Vendor : w # v => g[w] = f[w]
    BY <1>1, <1>5, <2>1, <2>2
  <2>4. /\ SumFunctionOnSet(f, Vendor) \in Int
        /\ SumFunctionOnSet(g, Vendor) = SumFunctionOnSet(f, Vendor) + (g[v] - f[v])
    BY <2>3, SumChange, BoundaryAssumption
  <2> QED BY <2>1, <2>2, <2>3, <2>4 DEF Answers
<1> QED BY <1>4, <1>5, <1>6

(* One count more of kind b, for vendor v. *)
Once(b) == IF b THEN 1 ELSE 0

(* A request's answer keeps the accounts if what is counted with it is     *)
(* what its kind calls for.                                                *)
LEMMA AnswerBalances ==
    ASSUME RequestsInv, NEW v \in Vendor, NEW o \in Outcome, Answered(v, o),
           malformedIngest' = malformedIngest
              + Once(o \in {"not_json", "malformed_payload", "unmappable_value"}),
           adapterFailures' \in [Vendor -> Nat],
           \A w \in Vendor : adapterFailures'[w] = adapterFailures[w]
              + Once(w = v /\ o \in {"malformed_payload", "unmappable_value"}),
           unknownFields' \in [Vendor -> Nat],
           \A w \in Vendor : unknownFields'[w] <= unknownFields[w]
              + Once(w = v /\ o \in {"ok", "unmappable_value", "not_found"}),
           \A w \in Vendor :
              DeliveredTo(w)' = DeliveredTo(w) + Once(w = v /\ o = "ok")
    PROVE  RequestsInv'
<1>1. /\ answers' \in [Vendor -> [Outcome -> Nat]]
      /\ \A w \in Vendor, q \in Outcome :
            answers'[w][q] = answers[w][q] + Once(w = v /\ q = o)
      /\ \A q \in Outcome :
            Answers(q) \in Int /\ Answers(q)' = Answers(q) + Once(q = o)
  BY AnsweredOnce DEF RequestsInv, Once
<1>2. CountersTyped'
  BY <1>1 DEF RequestsInv, CountersTyped, Once
<1>3. malformedIngest' = Answers("not_json")' + Answers("malformed_payload")'
                           + Answers("unmappable_value")'
  <2>1. /\ malformedIngest = Answers("not_json") + Answers("malformed_payload")
                               + Answers("unmappable_value")
        /\ malformedIngest \in Nat
    BY DEF RequestsInv, RequestsAccounted, CountersTyped
  <2>2. \A q \in {"not_json", "malformed_payload", "unmappable_value"} : q \in Outcome
    BY DEF Outcome
  <2> QED BY <1>1, <2>1, <2>2 DEF Once
<1>4. ASSUME NEW w \in Vendor
      PROVE  LET a == answers'[w] IN
             /\ adapterFailures'[w] = a["malformed_payload"] + a["unmappable_value"]
             /\ unknownFields'[w] <= a["ok"] + a["unmappable_value"] + a["not_found"]
             /\ DeliveredTo(w)' = a["ok"]
  <2>1. /\ adapterFailures[w] = answers[w]["malformed_payload"]
                                  + answers[w]["unmappable_value"]
        /\ unknownFields[w] <= answers[w]["ok"] + answers[w]["unmappable_value"]
                                 + answers[w]["not_found"]
        /\ DeliveredTo(w) = answers[w]["ok"]
    BY DEF RequestsInv, RequestsAccounted
  <2>2. /\ \A q \in Outcome : answers[w][q] \in Nat
        /\ unknownFields[w] \in Nat /\ unknownFields'[w] \in Nat
    BY DEF RequestsInv, CountersTyped
  <2>3. \A q \in {"malformed_payload", "unmappable_value", "ok", "not_found"} :
           /\ answers[w][q] \in Nat
           /\ answers'[w][q] = answers[w][q] + Once(w = v /\ q = o)
    BY <1>1, <2>2 DEF Outcome
  <2>4. adapterFailures'[w] = answers'[w]["malformed_payload"]
                                + answers'[w]["unmappable_value"]
    BY <2>1, <2>3 DEF Once
  <2>5. unknownFields'[w] <= answers'[w]["ok"] + answers'[w]["unmappable_value"]
                               + answers'[w]["not_found"]
    BY <2>1, <2>2, <2>3 DEF Once
  <2>6. DeliveredTo(w)' = answers'[w]["ok"]
    BY <2>1, <2>3 DEF Once
  <2> QED BY <2>4, <2>5, <2>6
<1> QED BY <1>2, <1>3, <1>4 DEF RequestsInv, RequestsAccounted

(* A step that answers nothing and brings the store nothing.               *)
LEMMA AccountsUntouched ==
    ASSUME RequestsInv,
           UNCHANGED <<malformedIngest, adapterFailures, unknownFields, answers,
                       delivered>>
    PROVE  RequestsInv'
BY DEF RequestsInv, CountersTyped, RequestsAccounted, Answers, DeliveredTo

(* A reading more for one robot is one more for its vendor. *)
LEMMA DeliveredOnce ==
    ASSUME TypeOK, NEW v \in Vendor, NEW r \in Robot, VendorOf[r] = v,
           delivered' = [delivered EXCEPT ![r] = @ + 1]
    PROVE  \A w \in Vendor : DeliveredTo(w)' = DeliveredTo(w) + Once(w = v)
<1> TAKE w \in Vendor
<1>1. PICK S : S = {q \in Robot : VendorOf[q] = w}
  OBVIOUS
<1>2. IsFiniteSet(S) /\ S \in SUBSET Robot
  BY <1>1, FS_Subset, BoundaryAssumption
<1>3. PICK f : f = delivered
  OBVIOUS
<1>4. PICK g : g = delivered'
  OBVIOUS
<1>5. /\ \A q \in S : f[q] \in Int
      /\ g[r] = f[r] + 1 /\ g[r] \in Int /\ f[r] \in Int
      /\ \A q \in S : q # r => g[q] = f[q]
  BY <1>2, <1>3, <1>4 DEF TypeOK
<1>6. DeliveredTo(w) = SumFunctionOnSet(f, S) /\ DeliveredTo(w)' = SumFunctionOnSet(g, S)
  BY <1>1, <1>3, <1>4 DEF DeliveredTo
<1>7. SumFunctionOnSet(f, S) \in Int
  <2>1. S \in SUBSET S
    OBVIOUS
  <2> QED BY <1>2, <1>5, <2>1, SumInt
<1>8. CASE w = v
  <2>1. r \in S
    BY <1>1, <1>8
  <2>2. SumFunctionOnSet(g, S) = SumFunctionOnSet(f, S) + (g[r] - f[r])
    BY <1>2, <1>5, <2>1, SumChange
  <2> QED BY <1>5, <1>6, <1>7, <1>8, <2>2 DEF Once
<1>9. CASE w # v
  <2>1. r \notin S
    BY <1>1, <1>9
  <2>2. SumFunctionOnSet(g, S) = SumFunctionOnSet(f, S)
    BY <1>2, <1>5, <2>1, SumSame
  <2> QED BY <1>6, <1>7, <1>9, <2>2 DEF Once
<1> QED BY <1>8, <1>9

(* What the ledger may have counted, of a payload its schema accepted.     *)
LEMMA LedgerCounts ==
    ASSUME CountersTyped, NEW v \in Vendor, NEW extra \in Undeclared[v],
           NEW parsed \in BOOLEAN, NoteAcceptedPayload(v, extra, parsed)
    PROVE  /\ unknownFields' \in [Vendor -> Nat]
           /\ \A w \in Vendor :
                 unknownFields'[w] <= unknownFields[w] + Once(w = v /\ parsed)
<1>1. extra \in {0, 1}
  BY BoundaryAssumption
<1> QED BY <1>1 DEF NoteAcceptedPayload, CountersTyped, Once

LEMMA BodyEndsBalances ==
    ASSUME TypeOK, RequestsInv, NEW v \in Vendor, BodyEnds(v)
    PROVE  RequestsInv'
<1>1. /\ CountersTyped
      /\ \A w \in Vendor : DeliveredTo(w) \in Nat
  BY DEF RequestsInv, RequestsAccounted, CountersTyped, Outcome
<1>2. ASSUME UNCHANGED delivered
      PROVE  \A w \in Vendor : DeliveredTo(w)' = DeliveredTo(w) + Once(FALSE)
  BY <1>1, <1>2 DEF DeliveredTo, Once
<1>3. ASSUME NEW o \in Outcome, RefuseBody(v, o)
      PROVE  RequestsInv'
  <2>1. /\ Answered(v, o) /\ o \in {"payload_too_large", "internal"}
        /\ UNCHANGED <<malformedIngest, adapterFailures, unknownFields, delivered>>
    BY <1>3 DEF RefuseBody, Answer, healthVars, vars, tallyVars
  <2> QED BY <1>1, <1>2, <2>1, AnswerBalances DEF CountersTyped, Once
<1>4. CASE NotJson(v)
  <2>1. /\ Answered(v, "not_json") /\ malformedIngest' = malformedIngest + 1
        /\ UNCHANGED <<adapterFailures, unknownFields, delivered>>
    BY <1>4 DEF NotJson, Answer, NoteMalformed, vars, tallyVars
  <2>2. "not_json" \in Outcome
    BY DEF Outcome
  <2> QED BY <1>1, <1>2, <2>1, <2>2, AnswerBalances DEF CountersTyped, Once
<1>5. ASSUME NEW o \in Outcome, NEW extra \in Undeclared[v], DecodeFails(v, o, extra)
      PROVE  RequestsInv'
  <2>1. /\ Answered(v, o) /\ malformedIngest' = malformedIngest + 1
        /\ o \in {"malformed_payload", "unmappable_value"}
        /\ adapterFailures' = [adapterFailures EXCEPT ![v] = @ + 1]
        /\ NoteAcceptedPayload(v, extra, o = "unmappable_value")
        /\ UNCHANGED delivered
    BY <1>5 DEF DecodeFails, Answer, NoteMalformed, NoteFailure, vars, tallyVars
  <2>2. /\ unknownFields' \in [Vendor -> Nat]
        /\ \A w \in Vendor : unknownFields'[w]
              <= unknownFields[w] + Once(w = v /\ o = "unmappable_value")
    <3>1. (o = "unmappable_value") \in BOOLEAN
      OBVIOUS
    <3> QED BY <1>1, <2>1, <3>1, LedgerCounts
  <2>3. /\ adapterFailures' \in [Vendor -> Nat]
        /\ \A w \in Vendor : adapterFailures'[w] = adapterFailures[w]
              + Once(w = v /\ o \in {"malformed_payload", "unmappable_value"})
    BY <1>1, <2>1 DEF CountersTyped, Once
  <2>4. \A w \in Vendor : unknownFields'[w] <= unknownFields[w]
              + Once(w = v /\ o \in {"ok", "unmappable_value", "not_found"})
    BY <2>1, <2>2 DEF Once
  <2>5. malformedIngest' = malformedIngest
              + Once(o \in {"not_json", "malformed_payload", "unmappable_value"})
    BY <2>1 DEF Once
  <2>6. \A w \in Vendor : DeliveredTo(w)' = DeliveredTo(w) + Once(w = v /\ o = "ok")
    BY <1>2, <2>1 DEF Once
  <2> QED BY <2>1, <2>2, <2>3, <2>4, <2>5, <2>6, AnswerBalances
<1>6. ASSUME NEW r \in Robot, NEW extra \in Undeclared[v],
             NEW s \in CountersOf(v), Reading(v, r, s, extra)
      PROVE  RequestsInv'
  <2>1. /\ Answered(v, "ok") /\ VendorOf[r] = v /\ Ingest(r, s)
        /\ NoteAcceptedPayload(v, extra, TRUE)
        /\ UNCHANGED <<malformedIngest, adapterFailures>>
    BY <1>6 DEF Reading, Registered, Answer
  <2>2. /\ unknownFields' \in [Vendor -> Nat]
        /\ \A w \in Vendor : unknownFields'[w] <= unknownFields[w] + Once(w = v /\ TRUE)
    BY <1>1, <2>1, LedgerCounts
  <2>3. delivered' = [delivered EXCEPT ![r] = @ + 1]
    BY <2>1 DEF Ingest
  <2>4. \A w \in Vendor : DeliveredTo(w)' = DeliveredTo(w) + Once(w = v)
    BY <2>1, <2>3, DeliveredOnce
  <2>5. "ok" \in Outcome
    BY DEF Outcome
  <2>6. malformedIngest' = malformedIngest
              + Once("ok" \in {"not_json", "malformed_payload", "unmappable_value"})
    BY <1>1, <2>1 DEF CountersTyped, Once
  <2>7. /\ adapterFailures' \in [Vendor -> Nat]
        /\ \A w \in Vendor : adapterFailures'[w] = adapterFailures[w]
              + Once(w = v /\ "ok" \in {"malformed_payload", "unmappable_value"})
    BY <1>1, <2>1 DEF CountersTyped, Once
  <2>8. \A w \in Vendor : unknownFields'[w] <= unknownFields[w]
              + Once(w = v /\ "ok" \in {"ok", "unmappable_value", "not_found"})
    BY <2>2 DEF Once
  <2>9. \A w \in Vendor : DeliveredTo(w)' = DeliveredTo(w) + Once(w = v /\ "ok" = "ok")
    BY <2>4 DEF Once
  <2> QED BY <2>1, <2>2, <2>5, <2>6, <2>7, <2>8, <2>9, AnswerBalances
<1>7. ASSUME NEW r, NEW home, NEW extra \in Undeclared[v],
             NotRegistered(v, r, home, extra)
      PROVE  RequestsInv'
  <2>1. /\ Answered(v, "not_found")
        /\ NoteAcceptedPayload(v, extra, TRUE)
        /\ UNCHANGED <<malformedIngest, adapterFailures, delivered>>
    BY <1>7 DEF NotRegistered, Answer, vars, tallyVars
  <2>2. /\ unknownFields' \in [Vendor -> Nat]
        /\ \A w \in Vendor : unknownFields'[w] <= unknownFields[w] + Once(w = v /\ TRUE)
    BY <1>1, <2>1, LedgerCounts
  <2>3. "not_found" \in Outcome
    BY DEF Outcome
  <2>4. malformedIngest' = malformedIngest
              + Once("not_found" \in {"not_json", "malformed_payload", "unmappable_value"})
    BY <1>1, <2>1 DEF CountersTyped, Once
  <2>5. /\ adapterFailures' \in [Vendor -> Nat]
        /\ \A w \in Vendor : adapterFailures'[w] = adapterFailures[w]
              + Once(w = v /\ "not_found" \in {"malformed_payload", "unmappable_value"})
    BY <1>1, <2>1 DEF CountersTyped, Once
  <2>6. \A w \in Vendor : unknownFields'[w] <= unknownFields[w]
              + Once(w = v /\ "not_found" \in {"ok", "unmappable_value", "not_found"})
    BY <2>2 DEF Once
  <2>7. \A w \in Vendor :
           DeliveredTo(w)' = DeliveredTo(w) + Once(w = v /\ "not_found" = "ok")
    BY <1>2, <2>1 DEF Once
  <2> QED BY <2>1, <2>2, <2>3, <2>4, <2>5, <2>6, <2>7, AnswerBalances
<1> QED BY <1>3, <1>4, <1>5, <1>6, <1>7 DEF BodyEnds

LEMMA RequestsStep ==
    ASSUME TypeOK, RequestsInv, [BoundaryNext]_allVars
    PROVE  RequestsInv'
<1>1. CASE \E v \in Vendor : BodyEnds(v)
  BY <1>1, BodyEndsBalances
<1>2. ASSUME NEW v \in Vendor, RefuseDeclared(v)
      PROVE  RequestsInv'
  <2>1. /\ Answered(v, "payload_too_large")
        /\ UNCHANGED <<malformedIngest, adapterFailures, unknownFields, delivered>>
    BY <1>2 DEF RefuseDeclared, healthVars, vars, tallyVars
  <2>2. "payload_too_large" \in Outcome
    BY DEF Outcome
  <2>3. \A w \in Vendor : DeliveredTo(w) \in Nat /\ DeliveredTo(w)' = DeliveredTo(w)
    BY <2>1 DEF RequestsInv, RequestsAccounted, CountersTyped, Outcome, DeliveredTo
  <2> QED BY <2>1, <2>2, <2>3, AnswerBalances DEF RequestsInv, CountersTyped, Once
<1>3. CASE RefuseVendor \/ (\E v \in Vendor : AwaitBody(v))
           \/ (\E c \in Console : Open(c) \/ Gone(c))
  BY <1>3, AccountsUntouched
     DEF RefuseVendor, AwaitBody, Open, Gone, healthVars, vars, tallyVars
<1>4. CASE SweepTicks \/ TimePasses \/ Stop
  BY <1>4, AccountsUntouched
     DEF SweepTicks, TimePasses, Stop, Tick, Elapse, StepBack, StopSweep,
         boundaryVars, healthVars, tallyVars
<1>5. CASE CloseServer \/ Stopped \/ UNCHANGED allVars
  BY <1>5, AccountsUntouched
     DEF CloseServer, Stopped, allVars, boundaryVars, healthVars, vars, tallyVars
<1> QED BY <1>1, <1>2, <1>3, <1>4, <1>5 DEF BoundaryNext

(* Every answer moves the counters its kind calls for and no other, for    *)
(* any vendors and any number of requests under way at once (createApp,    *)
(* healthMetrics).                                                         *)
THEOREM RequestsAreAccounted == BoundarySpec => []RequestsAccounted
<1>1. BoundaryInit => RequestsInv
  <2> SUFFICES ASSUME BoundaryInit PROVE RequestsInv
    OBVIOUS
  <2>1. CountersTyped
    BY DEF BoundaryInit, CountersTyped
  <2>2. ASSUME NEW S, IsFiniteSet(S), NEW f, \A x \in S : f[x] = 0
        PROVE  SumFunctionOnSet(f, S) = 0
    BY <2>2, SumZero
  <2>3. \A o \in Outcome : Answers(o) = 0
    BY <2>2, BoundaryAssumption DEF BoundaryInit, Answers
  <2>4. \A v \in Vendor : DeliveredTo(v) = 0
    <3> TAKE v \in Vendor
    <3>1. PICK S : S = {r \in Robot : VendorOf[r] = v}
      OBVIOUS
    <3>2. IsFiniteSet(S) /\ \A r \in S : delivered[r] = 0
      BY <3>1, FS_Subset, BoundaryAssumption DEF BoundaryInit, Init
    <3> QED BY <2>2, <3>1, <3>2 DEF DeliveredTo
  <2>5. /\ Answers("not_json") = 0 /\ Answers("malformed_payload") = 0
        /\ Answers("unmappable_value") = 0
    BY <2>3 DEF Outcome
  <2> QED BY <2>1, <2>4, <2>5 DEF BoundaryInit, RequestsInv, RequestsAccounted, Outcome
<1>2. TypeOK /\ RequestsInv /\ [BoundaryNext]_allVars => RequestsInv'
  BY RequestsStep
<1>3. RequestsInv => RequestsAccounted
  BY DEF RequestsInv
<1> QED
  BY <1>1, <1>2, <1>3, ServerKeepsItsWord, PTL DEF BoundarySpec
-----------------------------------------------------------------------------
(* The recursion of a vendor's rollup. *)
Rolling(h, S) ==
    h = [T \in SUBSET S |->
            IF T = {} THEN Null
            ELSE MergeSequenceHealth(h[T \ {Chosen(T)}], continuity[Chosen(T)])]

(* Both kinds of continuity record are records, and not the code's null.   *)
LEMMA CountsTyped ==
    /\ \A g, d \in Nat : Evaluated(g, d) \in SequenceHealth /\ Evaluated(g, d) # Null
    /\ NotEvaluated \in SequenceHealth /\ NotEvaluated # Null
<1>1. NotEvaluated \in SequenceHealth
  BY DEF NotEvaluated, SequenceHealth
<1>2. \A g, d \in Nat : Evaluated(g, d) \in SequenceHealth
  BY DEF Evaluated, SequenceHealth
<1> QED BY <1>1, <1>2, HealthAssumption

(* A rollup of continuity records is one, whatever order they come in. *)
LEMMA MergeType ==
    ASSUME NEW rollup \in SequenceHealth \cup {Null}, NEW robot \in SequenceHealth
    PROVE  MergeSequenceHealth(rollup, robot) \in SequenceHealth
BY HealthAssumption
   DEF MergeSequenceHealth, Evaluated, NotEvaluated, SequenceHealth

(* The vendor's rollup is the last step of that recursion.                 *)
LEMMA RollupFolds ==
    ASSUME NEW v \in Vendor, NEW S, S = Heard(v),
           \A r \in S : continuity[r] \in SequenceHealth
    PROVE  \E h : Rolling(h, S) /\ SequenceByVendor(v) = h[S]
<1>0. IsFiniteSet(S)
  BY FS_Subset, BoundaryAssumption DEF Heard
<1> DEFINE V == SequenceHealth \cup {Null}
           G == [p \in S \X V |-> MergeSequenceHealth(p[2], continuity[p[1]])]
<1>1. PICK k : Folding(k, Null, G, SUBSET S)
  <2> HIDE DEF G
  <2> QED BY <1>0, FoldingExists
<1> DEFINE Good == {T \in SUBSET S : k[T] \in V}
<1>2. ASSUME NEW T \in SUBSET S, T # {}
      PROVE  Chosen(T) \in T /\ T \ {Chosen(T)} \in SUBSET S
  BY <1>2 DEF Chosen
<1>3. ASSUME NEW T \in SUBSET S
      PROVE  k[T] = IF T = {} THEN Null ELSE G[<<Chosen(T), k[T \ {Chosen(T)}]>>]
  <2> HIDE DEF G
  <2> QED BY <1>1 DEF Folding
<1>4. ASSUME NEW x \in S, NEW n \in V
      PROVE  G[<<x, n>>] = MergeSequenceHealth(n, continuity[x]) /\ G[<<x, n>>] \in V
  <2>1. MergeSequenceHealth(n, continuity[x]) \in V
    BY MergeType
  <2>2. G[<<x, n>>] = MergeSequenceHealth(n, continuity[x])
    OBVIOUS
  <2> QED BY <2>1, <2>2
<1> HIDE DEF G
<1>5. \A T \in SUBSET S : T \in Good
  <2>1. ASSUME NEW T \in SUBSET S, \A x \in T : T \ {x} \in Good PROVE T \in Good
    <3>1. CASE T = {}
      BY <1>3, <3>1
    <3>2. CASE T # {}
      <4>1. Chosen(T) \in S /\ k[T \ {Chosen(T)}] \in V
        BY <1>2, <2>1, <3>2
      <4> HIDE DEF V
      <4>2. k[T] \in V
        BY <1>3, <1>4, <3>2, <4>1
      <4> QED BY <4>2
    <3> QED BY <3>1, <3>2
  <2>2. Good \in SUBSET (SUBSET S)
    OBVIOUS
  <2> HIDE DEF Good
  <2> QED BY <1>0, <2>1, <2>2, SubsetInduction
<1>6. Rolling(k, S)
  <2>1. k = [T \in SUBSET S |-> IF T = {} THEN Null
                                ELSE G[<<Chosen(T), k[T \ {Chosen(T)}]>>]]
    BY <1>1 DEF Folding
  <2>2. ASSUME NEW T \in SUBSET S, T # {}
        PROVE  G[<<Chosen(T), k[T \ {Chosen(T)}]>>]
                 = MergeSequenceHealth(k[T \ {Chosen(T)}], continuity[Chosen(T)])
    <3>1. Chosen(T) \in S /\ k[T \ {Chosen(T)}] \in V
      BY <1>2, <1>5, <2>2
    <3> HIDE DEF V
    <3> QED BY <1>4, <3>1
  <2> QED BY <2>1, <2>2 DEF Rolling
<1> DEFINE iter == CHOOSE h : Rolling(h, S)
<1>7. Rolling(iter, S)
  BY <1>6
<1>8. SequenceByVendor(v) = iter[S]
  BY DEF SequenceByVendor, FoldSet, MapThenFoldSet, Rolling, Chosen
<1> HIDE DEF iter
<1> QED BY <1>7, <1>8

(* A vendor whose dialect counts: the rollup is the sum of its robots'.    *)
LEMMA RollupAdds ==
    ASSUME NEW S, IsFiniteSet(S), NEW h, Rolling(h, S), NEW gaps, NEW repeats,
           \A r \in S : /\ gaps[r] \in Nat /\ repeats[r] \in Nat
                        /\ continuity[r] = Evaluated(gaps[r], repeats[r])
    PROVE  S # {} => h[S] = Evaluated(SumFunctionOnSet(gaps, S),
                                      SumFunctionOnSet(repeats, S))
<1> DEFINE Told(T) == IF T = {} THEN Null
                      ELSE Evaluated(SumFunctionOnSet(gaps, T),
                                     SumFunctionOnSet(repeats, T))
           Good == {T \in SUBSET S : h[T] = Told(T)}
<1>1. ASSUME NEW T \in SUBSET S
      PROVE  h[T] = IF T = {} THEN Null
                    ELSE MergeSequenceHealth(h[T \ {Chosen(T)}], continuity[Chosen(T)])
  BY DEF Rolling
<1>2. ASSUME NEW T \in SUBSET S, \A x \in T : T \ {x} \in Good, T # {}
      PROVE  h[T] = Told(T)
  <2>1. PICK c : c = Chosen(T)
    OBVIOUS
  <2>2. IsFiniteSet(T) /\ \A r \in T : gaps[r] \in Int /\ repeats[r] \in Int
    BY FS_Subset
  <2>3. /\ c \in T
        /\ SumFunctionOnSet(gaps, T) = gaps[c] + SumFunctionOnSet(gaps, T \ {c})
        /\ SumFunctionOnSet(repeats, T) = repeats[c] + SumFunctionOnSet(repeats, T \ {c})
    BY <1>2, <2>1, <2>2, SumChosen
  <2>4. PICK R : R = T \ {c}
    OBVIOUS
  <2>5. /\ h[T] = MergeSequenceHealth(h[R], continuity[c])
        /\ h[R] = Told(R)
        /\ continuity[c] = Evaluated(gaps[c], repeats[c])
        /\ gaps[c] \in Nat /\ repeats[c] \in Nat
    BY <1>1, <1>2, <2>1, <2>3, <2>4
  <2>6. SumFunctionOnSet(gaps, R) \in Nat /\ SumFunctionOnSet(repeats, R) \in Nat
    BY <2>4, SumNat
  <2>7. CASE R = {}
    <3>1. SumFunctionOnSet(gaps, R) = 0 /\ SumFunctionOnSet(repeats, R) = 0
      BY <2>7, SumEmpty
    <3>2. h[T] = Evaluated(gaps[c], repeats[c])
      BY <2>5, <2>7 DEF MergeSequenceHealth
    <3> QED BY <1>2, <2>3, <2>4, <2>5, <3>1, <3>2
  <2>8. CASE R # {}
    <3>1. PICK a \in Nat : a = SumFunctionOnSet(gaps, R)
      BY <2>6
    <3>2. PICK b \in Nat : b = SumFunctionOnSet(repeats, R)
      BY <2>6
    <3>3. h[R] = Evaluated(a, b)
      BY <2>5, <2>8, <3>1, <3>2
    <3>4. h[R] # Null
      BY <3>1, <3>2, <3>3, CountsTyped
    <3>5. h[T] = Evaluated(a + gaps[c], b + repeats[c])
      <4>1. MergeSequenceHealth(Evaluated(a, b), Evaluated(gaps[c], repeats[c]))
               = Evaluated(a + gaps[c], b + repeats[c])
        BY <3>3, <3>4 DEF MergeSequenceHealth, Evaluated
      <4> QED BY <2>5, <3>3, <4>1
    <3> QED BY <1>2, <2>3, <2>4, <2>5, <3>1, <3>2, <3>5
  <2> QED BY <2>7, <2>8
<1>3. \A T \in SUBSET S : T \in Good
  <2>1. Good \in SUBSET (SUBSET S)
    OBVIOUS
  <2>2. \A T \in SUBSET S : (\A x \in T : T \ {x} \in Good) => T \in Good
    <3> TAKE T \in SUBSET S
    <3> HAVE \A x \in T : T \ {x} \in Good
    <3>1. CASE T = {}
      BY <1>1, <3>1
    <3>2. CASE T # {}
      BY <1>2, <3>2
    <3> QED BY <3>1, <3>2
  <2> HIDE DEF Good
  <2> QED BY <2>1, <2>2, SubsetInduction
<1> QED BY <1>3

(* A vendor whose dialect does not count says nothing of continuity.       *)
LEMMA RollupSilent ==
    ASSUME NEW S, IsFiniteSet(S), NEW h, Rolling(h, S),
           \A r \in S : continuity[r] = NotEvaluated
    PROVE  S # {} => h[S] = NotEvaluated
<1> DEFINE Good == {T \in SUBSET S : h[T] = IF T = {} THEN Null ELSE NotEvaluated}
<1>1. ASSUME NEW T \in SUBSET S, \A x \in T : T \ {x} \in Good
      PROVE  T \in Good
  <2>1. h[T] = IF T = {} THEN Null
               ELSE MergeSequenceHealth(h[T \ {Chosen(T)}], continuity[Chosen(T)])
    BY DEF Rolling
  <2>2. CASE T = {}
    BY <2>1, <2>2
  <2>3. CASE T # {}
    <3>1. Chosen(T) \in T
      BY <2>3 DEF Chosen
    <3>2. continuity[Chosen(T)] = NotEvaluated
      BY <3>1
    <3>3. PICK R : R = T \ {Chosen(T)}
      OBVIOUS
    <3>4. h[R] \in {Null, NotEvaluated}
      BY <1>1, <3>1, <3>3
    <3>5. h[T] = NotEvaluated
      BY <2>1, <2>3, <3>2, <3>3, <3>4 DEF MergeSequenceHealth, NotEvaluated
    <3> QED BY <2>3, <3>5
  <2> QED BY <2>2, <2>3
<1>2. \A T \in SUBSET S : T \in Good
  <2>1. Good \in SUBSET (SUBSET S)
    OBVIOUS
  <2> HIDE DEF Good
  <2> QED BY <1>1, <2>1, SubsetInduction
<1> QED BY <1>2

(* The rollup of a state the store can be in. *)
LEMMA HealthIsTold ==
    ASSUME TypeOK, SequenceInv, UnnumberedNotEvaluated
    PROVE  HealthTellsFleet
<1> SUFFICES ASSUME NEW v \in Vendor
             PROVE  LET told == ByAdapter(v).sequence
                        spans == [r \in Heard(v) |-> sequence[r] - first[r] + 1]
                    IN  /\ told.evaluated <=> Heard(v) # {} /\ Heard(v) \subseteq Numbered
                        /\ told.evaluated =>
                              /\ SumFunctionOnSet(spans, Heard(v))
                                    = SumFunctionOnSet(accepted, Heard(v)) + told.gaps
                              /\ told.duplicates = SumFunctionOnSet(repeated, Heard(v))
  BY DEF HealthTellsFleet
<1>1. PICK S : S = Heard(v)
  OBVIOUS
<1>2. IsFiniteSet(S) /\ S \in SUBSET Robot /\ \A r \in S : Observed(r)
  BY <1>1, FS_Subset, BoundaryAssumption DEF Heard
<1>3. S \subseteq Numbered \/ S \cap Numbered = {}
  BY <1>1, BoundaryAssumption DEF Heard
<1>4. CASE S = {}
  <2>1. PICK h : Rolling(h, S) /\ SequenceByVendor(v) = h[S]
    BY <1>1, <1>4, RollupFolds
  <2>2. SequenceByVendor(v) = Null
    BY <1>4, <2>1 DEF Rolling
  <2> QED BY <1>1, <1>4, <2>2 DEF ByAdapter, NotEvaluated
<1>5. CASE S # {} /\ S \subseteq Numbered
  <2>1. ASSUME NEW r \in S
        PROVE  /\ CountsOf(r) /\ r \in Robot
               /\ continuity[r] \in SequenceHealth
    BY <1>2, <1>5 DEF SequenceInv, CountsOf, TypeOK
  <2>2. PICK gaps : gaps = [r \in S |-> continuity[r].gaps]
    OBVIOUS
  <2>3. PICK acc : acc = accepted
    OBVIOUS
  <2>4. PICK rep : rep = repeated
    OBVIOUS
  <2>5. ASSUME NEW r \in S
        PROVE  /\ gaps[r] \in Nat /\ rep[r] \in Nat /\ acc[r] \in Nat
               /\ continuity[r] = Evaluated(gaps[r], rep[r])
               /\ sequence[r] - first[r] + 1 = acc[r] + gaps[r]
    <3>1. continuity[r] \in SequenceHealth /\ continuity[r].evaluated
      BY <1>2, <2>1 DEF CountsOf
    <3>2. continuity[r].evaluated = TRUE
      BY <3>1 DEF SequenceHealth
    <3>3. continuity[r] = Evaluated(continuity[r].gaps, continuity[r].duplicates)
      BY <3>1, <3>2 DEF SequenceHealth, Evaluated
    <3>4. /\ continuity[r].duplicates = repeated[r] /\ r \in Robot
          /\ sequence[r] - first[r] + 1 = accepted[r] + continuity[r].gaps
          /\ accepted[r] \in Nat /\ repeated[r] \in Nat
      BY <1>2, <2>1 DEF CountsOf, TypeOK
    <3>5. continuity[r].gaps \in Nat
      BY <3>1 DEF SequenceHealth
    <3> QED BY <2>2, <2>3, <2>4, <3>3, <3>4, <3>5
  <2>6. PICK h : Rolling(h, S) /\ SequenceByVendor(v) = h[S]
    BY <1>1, <2>1, RollupFolds
  <2>7. PICK a : a = SumFunctionOnSet(gaps, S)
    OBVIOUS
  <2>8. PICK b : b = SumFunctionOnSet(rep, S)
    OBVIOUS
  <2>9. SequenceByVendor(v) = Evaluated(a, b)
    BY <1>2, <1>5, <2>5, <2>6, <2>7, <2>8, RollupAdds
  <2>10. a \in Nat /\ b \in Nat
    <3>1. S \in SUBSET S
      OBVIOUS
    <3> QED BY <1>2, <2>5, <2>7, <2>8, <3>1, SumNat
  <2>11. ByAdapter(v).sequence = Evaluated(a, b)
    <3>1. Evaluated(a, b) # Null
      BY <2>10, CountsTyped
    <3> QED BY <2>9, <3>1 DEF ByAdapter
  <2>12. PICK spans : spans = [r \in Heard(v) |-> sequence[r] - first[r] + 1]
    OBVIOUS
  <2>13. SumFunctionOnSet(spans, S) = SumFunctionOnSet(acc, S) + a
    <3>1. \A r \in S : /\ acc[r] \in Int /\ gaps[r] \in Int
                       /\ spans[r] = acc[r] + gaps[r]
      BY <1>1, <2>5, <2>12
    <3> QED BY <1>2, <2>7, <3>1, SumPlus
  <2> QED BY <1>1, <1>5, <2>3, <2>4, <2>8, <2>11, <2>12, <2>13 DEF Evaluated
<1>6. CASE S # {} /\ S \cap Numbered = {}
  <2>1. \A r \in S : continuity[r] = NotEvaluated
    BY <1>2, <1>6 DEF UnnumberedNotEvaluated
  <2>2. \A r \in S : continuity[r] \in SequenceHealth
    BY <2>1, CountsTyped
  <2>3. PICK h : Rolling(h, S) /\ SequenceByVendor(v) = h[S]
    BY <1>1, <2>2, RollupFolds
  <2>4. SequenceByVendor(v) = NotEvaluated
    BY <1>2, <1>6, <2>1, <2>3, RollupSilent
  <2>5. ByAdapter(v).sequence = NotEvaluated
    BY <2>4 DEF ByAdapter
  <2> QED BY <1>1, <1>6, <2>5 DEF NotEvaluated
<1> QED BY <1>3, <1>4, <1>5, <1>6

(* Whatever is refused, repeated or lost between the robots and the store, *)
(* a vendor's line in the health response adds up to what its robots sent  *)
(* (sequenceByVendor over the store's own counts).                         *)
THEOREM HealthIsOfFleet == BoundarySpec => []HealthTellsFleet
BY StoreIsImplemented, TypeCorrect, CountsAlways, UncountedIsNotEvaluated,
   HealthIsTold, PTL DEF ImplementsStore
=============================================================================
