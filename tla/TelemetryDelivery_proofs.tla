------------------------ MODULE TelemetryDelivery_proofs ------------------------
(***************************************************************************)
(* For any fleet, ceiling, number of retries, failures and restarts: what  *)
(* the simulator counts as sent the server stored, the continuity counts   *)
(* are right about the network, capacity comes back, and a shutdown is     *)
(* quiet.                                                                  *)
(***************************************************************************)
EXTENDS TelemetryDelivery, FoldTheorems

-----------------------------------------------------------------------------
(* Types, as far as the properties below need them. *)
SendsTyped ==
    /\ sequence \in [Robot -> Nat]
    /\ send \in [Robot -> Send]
    /\ inFlight \in Int
    /\ aborted \in BOOLEAN
    /\ app \in AppState
    /\ run \in Nat
    /\ posts \subseteq Post /\ taken \subseteq Post

ServerTyped ==
    /\ counter \in [Robot -> Nat \cup {Null}]
    /\ continuity \in [Robot -> SequenceHealth \cup {Null}]
    /\ arrived \subseteq Post
    /\ accepted \subseteq Reading /\ acknowledged \subseteq Reading

(* A reading's post is of this run or an earlier one, and not ahead of     *)
(* what its robot is at: of an earlier reading, or of an earlier attempt.  *)
Past(p) ==
    LET r == p.reading.robot
    IN  /\ p.reading.run <= run
        /\ p.reading.run = run =>
              \/ p.reading.sequence < sequence[r]
              \/ /\ p.reading.sequence = sequence[r]
                 /\ Busy(r) => p.attempt <= send[r].attempt

(* No post is sent twice: what is on its way has not arrived.              *)
WireInv ==
    /\ SendsTyped /\ ServerTyped
    /\ \A p \in posts \cup arrived : Past(p)
    /\ posts \cap arrived = {}
    /\ taken \subseteq arrived
    /\ aborted => app # "running"

-----------------------------------------------------------------------------
(* What the simulator's turns do to its sends.                             *)

LEMMA OutcomesKnown ==
    ASSUME NEW status \in {204, 404, 500}
    PROVE  /\ Classify(status) \in {"success", "rejected", "server-failure"}
           /\ Classify(status) = "success" <=> status = 204
BY DEF Classify

(* An attempt that ends is settled, or waits to be repeated. *)
Over(r) ==
    /\ send' = [send EXCEPT ![r] = Idle]
    /\ inFlight' = inFlight - 1
    /\ \E kind \in Outcome : metrics' = Recorded(kind, send[r].attempt)

Waits(r) ==
    /\ send' = [send EXCEPT ![r] = [state |-> "backoff", attempt |-> send[r].attempt]]
    /\ UNCHANGED <<inFlight, metrics>>

Again(r) ==
    /\ ~aborted
    /\ send' = [send EXCEPT ![r] = [state |-> "attempting",
                                    attempt |-> send[r].attempt + 1]]
    /\ UNCHANGED <<inFlight, metrics>>

LEMMA AttemptEnds ==
    ASSUME SendsTyped, NEW r \in Robot, NEW kind \in Outcome, Ends(r, kind)
    PROVE  Over(r) \/ Waits(r)
<1>1. send[r] \in Send
  BY DEF SendsTyped
<1>2. [send[r] EXCEPT !.state = "backoff"]
        = [state |-> "backoff", attempt |-> send[r].attempt]
  BY <1>1 DEF Send
<1>3. [send EXCEPT ![r].state = "backoff"]
        = [send EXCEPT ![r] = [send[r] EXCEPT !.state = "backoff"]]
  OBVIOUS
<1> QED BY <1>2, <1>3 DEF Ends, Settle, Over, Waits

(* One send moves, and nothing else in the process. *)
Turn(r) ==
    /\ Alive
    /\ send[r].state \in {"attempting", "backoff"}
    /\ Over(r) \/ Waits(r) \/ Again(r)
    /\ UNCHANGED <<run, sequence, app, aborted, summary, shed, abandoned>>
    /\ UNCHANGED serverVars

LEMMA AttemptTurns ==
    ASSUME SendsTyped, NEW r \in Robot,
           GivesUp(r) \/ Succeeds(r) \/ Breaks(r)
             \/ \E status \in {404, 500} : Refused(r, status)
    PROVE  /\ Turn(r) /\ ~Again(r)
           /\ posts' \subseteq posts /\ taken' \subseteq taken
           /\ \/ acknowledged' = acknowledged
              \/ /\ Awaited(r) \in taken
                 /\ acknowledged' = acknowledged \cup {ReadingOf(r)}
<1>1. ASSUME NEW kind \in Outcome, Attempting(r), Ends(r, kind), Kept
      PROVE  /\ Alive /\ send[r].state \in {"attempting", "backoff"}
             /\ Over(r) \/ Waits(r)
             /\ ~Again(r)
             /\ UNCHANGED <<sequence, app, aborted, summary, shed, abandoned>>
  <2>1. Over(r) \/ Waits(r)
    BY <1>1, AttemptEnds
  <2>2. send \in [Robot -> Send]
    BY DEF SendsTyped
  <2>3. ~Again(r)
    BY <2>1, <2>2 DEF Over, Waits, Again, Idle
  <2> QED BY <1>1, <2>1, <2>3 DEF Attempting, Kept, lifecycle
<1>2. ASSUME NEW status \in {204, 404, 500}, Answered(r, status)
      PROVE  Classify(status) \in Outcome
  BY OutcomesKnown DEF Outcome
<1>3. CASE GivesUp(r)
  BY <1>1, <1>3 DEF GivesUp, TimesOut, Cancelled, Outcome, Turn
<1>4. CASE Succeeds(r)
  BY <1>1, <1>2, <1>4 DEF Succeeds, Answered, Turn
<1>5. CASE Breaks(r)
  BY <1>1, <1>5 DEF Breaks, Unanswered, Outcome, Turn
<1>6. ASSUME NEW status \in {404, 500}, Refused(r, status)
      PROVE  Turn(r) /\ ~Again(r) /\ posts' \subseteq posts /\ taken' \subseteq taken
               /\ acknowledged' = acknowledged
  BY <1>1, <1>2, <1>6, OutcomesKnown DEF Refused, Answered, Turn
<1> QED BY <1>3, <1>4, <1>5, <1>6

(* A backoff that ends sends one new request, unless shutdown has aborted. *)
LEMMA RetryTurns ==
    ASSUME SendsTyped, NEW r \in Robot, Retries(r)
    PROVE  /\ Turn(r) /\ send[r].state = "backoff"
           /\ Over(r) \/ Again(r)
           /\ UNCHANGED <<taken, acknowledged>>
           /\ aborted => posts' = posts
           /\ posts' \subseteq posts \cup {Awaited(r)'}
           /\ posts' # posts => send'[r] = [state |-> "attempting",
                                            attempt |-> send[r].attempt + 1]
<1>1. send \in [Robot -> Send]
  BY DEF SendsTyped
<1>2. UNCHANGED <<sequence, run, taken, acknowledged>> /\ UNCHANGED serverVars
  BY DEF Retries, BackoffEnds, Kept
<1>3. \A q \in Robot : q # r => (Awaited(q)' = Awaited(q) /\ send'[q] = send[q])
  BY <1>1, <1>2 DEF Retries, BackoffEnds, Settle, Awaited, ReadingOf
<1>4. CASE aborted
  <2>1. Over(r)
    BY <1>4 DEF Retries, BackoffEnds, Settle, Over, Outcome
  <2>2. send'[r] = Idle
    BY <1>1, <2>1 DEF Over
  <2>3. Begun' \subseteq Begun
    BY <1>3, <2>2 DEF Begun, Idle
  <2>4. posts' = posts
    BY <2>3 DEF Retries
  <2> QED BY <1>2, <1>4, <2>1, <2>4 DEF Retries, BackoffEnds, Kept, Turn, lifecycle
<1>5. CASE ~aborted
  <2>1. /\ send' = [send EXCEPT ![r] = [state |-> "attempting",
                                        attempt |-> send[r].attempt + 1]]
        /\ UNCHANGED <<inFlight, metrics>>
    BY <1>1, <1>5 DEF Retries, BackoffEnds
  <2>2. Again(r) /\ send'[r] = [state |-> "attempting", attempt |-> send[r].attempt + 1]
    BY <1>1, <1>5, <2>1 DEF Again
  <2>3. Begun' \subseteq Begun \cup {Awaited(r)'}
    BY <1>3 DEF Begun
  <2>4. posts' \subseteq posts \cup {Awaited(r)'}
    BY <2>3 DEF Retries
  <2> QED BY <1>2, <1>5, <2>2, <2>4 DEF Retries, BackoffEnds, Kept, Turn, lifecycle
<1> QED BY <1>4, <1>5

(* A wake-up gives idle robots their next reading, and sends some of them. *)
LEMMA EmitsTurns ==
    ASSUME SendsTyped, Emits
    PROVE  /\ app = "running"
           /\ UNCHANGED <<run, app, aborted, taken, acknowledged, summary, abandoned>>
           /\ UNCHANGED serverVars
           /\ sequence' \in [Robot -> Nat] /\ send' \in [Robot -> Send]
           /\ \A r \in Robot :
                 \/ sequence'[r] = sequence[r] /\ send'[r] = send[r]
                 \/ /\ sequence'[r] = sequence[r] + 1 /\ ~Busy(r)
                    /\ \/ send'[r] = send[r]
                       \/ send'[r] = [state |-> "attempting", attempt |-> 1]
           /\ \A p \in posts' : p \in posts \/ \E r \in Robot :
                 p = Awaited(r)' /\ sequence'[r] = sequence[r] + 1 /\ ~Busy(r)
<1>1. /\ app = "running"
      /\ UNCHANGED <<run, app, aborted, taken, acknowledged, summary, abandoned>>
      /\ UNCHANGED serverVars
  BY DEF Emits, Wake, lifecycle
<1>2. Started \subseteq Emitting /\ \A r \in Emitting : ~Busy(r)
  BY DEF Started, Emitting
<1>3. send \in [Robot -> Send] /\ sequence \in [Robot -> Nat]
  BY DEF SendsTyped
<1>4. \A r \in Robot :
         /\ sequence'[r] = IF r \in Emitting THEN sequence[r] + 1 ELSE sequence[r]
         /\ send'[r] = IF r \in Started THEN [state |-> "attempting", attempt |-> 1]
                                        ELSE send[r]
  BY DEF Emits, Wake
<1>5. sequence' \in [Robot -> Nat]
  BY <1>3 DEF Emits, Wake
<1>6. send' \in [Robot -> Send]
  <2>1. [state |-> "attempting", attempt |-> 1] \in Send
    BY DEF Send
  <2> QED BY <1>3, <2>1 DEF Emits, Wake
<1>7. \A r \in Robot :
         \/ sequence'[r] = sequence[r] /\ send'[r] = send[r]
         \/ /\ sequence'[r] = sequence[r] + 1 /\ ~Busy(r)
            /\ \/ send'[r] = send[r]
               \/ send'[r] = [state |-> "attempting", attempt |-> 1]
  BY <1>2, <1>4
<1>8. ASSUME NEW p \in posts', p \notin posts
      PROVE  \E r \in Robot :
                p = Awaited(r)' /\ sequence'[r] = sequence[r] + 1 /\ ~Busy(r)
  <2>1. PICK r \in Robot : p = Awaited(r)' /\ send'[r].state = "attempting"
    BY <1>8 DEF Emits, Begun
  <2>2. p \notin Begun
    BY <1>8 DEF Emits
  <2>3. ~(sequence'[r] = sequence[r] /\ send'[r] = send[r])
    <3>1. SUFFICES ASSUME sequence'[r] = sequence[r], send'[r] = send[r] PROVE FALSE
      OBVIOUS
    <3>2. Awaited(r)' = Awaited(r)
      BY <1>1, <3>1 DEF Awaited, ReadingOf
    <3> QED BY <2>1, <2>2, <3>1, <3>2 DEF Begun
  <2> QED BY <1>7, <2>1, <2>3
<1> QED BY <1>1, <1>5, <1>6, <1>7, <1>8

(* What waits for an answer is a post. *)
LEMMA AwaitedIsPost ==
    ASSUME SendsTyped, NEW r \in Robot
    PROVE  /\ Awaited(r) \in Post /\ ReadingOf(r) \in Reading
           /\ Awaited(r).reading = ReadingOf(r)
           /\ Awaited(r).attempt = send[r].attempt
           /\ ReadingOf(r).run = run /\ ReadingOf(r).robot = r
           /\ ReadingOf(r).sequence = sequence[r]
BY DEF SendsTyped, Awaited, ReadingOf, Post, Reading, Send
-----------------------------------------------------------------------------
(* The invariant of the wire, action by action. *)

LEMMA WireInit == DeliveryInit => WireInv
<1> SUFFICES ASSUME DeliveryInit PROVE WireInv
  OBVIOUS
<1>1. Idle \in Send
  BY DEF Idle, Send
<1>2. SendsTyped
  <2>1. send \in [Robot -> Send] /\ sequence \in [Robot -> Nat]
    BY <1>1 DEF DeliveryInit, Init
  <2>2. aborted \in BOOLEAN /\ app \in AppState
    BY DEF DeliveryInit, Init, AppState
  <2> QED BY <2>1, <2>2 DEF DeliveryInit, Init, SendsTyped
<1>3. ServerTyped
  BY DEF DeliveryInit, ServerTyped
<1> QED BY <1>2, <1>3 DEF DeliveryInit, Init, WireInv

(* A send that moves on leaves earlier posts behind it. *)
LEMMA TurnKeeps ==
    ASSUME WireInv, NEW r \in Robot, Turn(r),
           posts' \subseteq Post, posts' \cap arrived = {},
           \A p \in posts' : p \in posts \/ Past(p)',
           taken' \subseteq taken, acknowledged' \subseteq Reading
    PROVE  WireInv'
<1>1. send \in [Robot -> Send] /\ send[r] \in Send /\ inFlight \in Int
  BY DEF WireInv, SendsTyped
<1>2. /\ Idle \in Send
      /\ [state |-> "backoff", attempt |-> send[r].attempt] \in Send
      /\ [state |-> "attempting", attempt |-> send[r].attempt + 1] \in Send
  BY <1>1 DEF Send, Idle
<1>3. send' \in [Robot -> Send] /\ inFlight' \in Int
  BY <1>1, <1>2 DEF Turn, Over, Waits, Again
<1>4. SendsTyped'
  BY <1>3 DEF WireInv, SendsTyped, Turn
<1>5. ServerTyped'
  BY DEF WireInv, ServerTyped, Turn, serverVars
<1>6. /\ \A q \in Robot : q # r => send'[q] = send[q]
      /\ \/ send'[r] = Idle
         \/ send'[r].attempt = send[r].attempt
         \/ send'[r].attempt = send[r].attempt + 1
  BY <1>1 DEF Turn, Over, Waits, Again
<1>7. Busy(r)
  BY DEF Turn, Busy, Idle
<1>8. ASSUME NEW p \in Post, Past(p) PROVE Past(p)'
  <2>1. /\ p.reading \in Reading /\ p.attempt \in Nat /\ send[r].attempt \in Nat
        /\ p.reading.robot \in Robot
    BY <1>1 DEF Post, Reading, Send
  <2>2. sequence' = sequence /\ run' = run
    BY DEF Turn
  <2>3. CASE p.reading.robot # r
    BY <1>6, <1>8, <2>1, <2>2, <2>3 DEF Past, Busy
  <2>4. CASE p.reading.robot = r
    BY <1>6, <1>7, <1>8, <2>1, <2>2, <2>4 DEF Past, Busy
  <2> QED BY <2>3, <2>4
<1>9. \A p \in posts' \cup arrived' : Past(p)'
  BY <1>8 DEF WireInv, SendsTyped, ServerTyped, Turn, serverVars
<1>10. /\ posts' \cap arrived' = {} /\ taken' \subseteq arrived'
       /\ aborted' => app' # "running"
  BY DEF WireInv, Turn, serverVars
<1> QED BY <1>4, <1>5, <1>9, <1>10 DEF WireInv

LEMMA AttemptKeepsWire ==
    ASSUME WireInv, NEW r \in Robot,
           GivesUp(r) \/ Succeeds(r) \/ Breaks(r)
             \/ \E status \in {404, 500} : Refused(r, status)
    PROVE  WireInv'
<1>1. /\ Turn(r) /\ posts' \subseteq posts /\ taken' \subseteq taken
      /\ acknowledged' \subseteq acknowledged \cup {ReadingOf(r)}
  BY AttemptTurns DEF WireInv
<1>2. ReadingOf(r) \in Reading
  BY AwaitedIsPost DEF WireInv
<1>3. posts' \subseteq Post /\ posts' \cap arrived = {} /\ acknowledged' \subseteq Reading
  BY <1>1, <1>2 DEF WireInv, SendsTyped, ServerTyped
<1> QED BY <1>1, <1>3, TurnKeeps

LEMMA RetryKeepsWire ==
    ASSUME WireInv, NEW r \in Robot, Retries(r)
    PROVE  WireInv'
<1>1. /\ Turn(r) /\ send[r].state = "backoff"
      /\ UNCHANGED <<taken, acknowledged>>
      /\ posts' \subseteq posts \cup {Awaited(r)'}
      /\ posts' # posts => send'[r] = [state |-> "attempting",
                                       attempt |-> send[r].attempt + 1]
  BY RetryTurns DEF WireInv
<1>2. posts \subseteq Post /\ acknowledged \subseteq Reading /\ posts \cap arrived = {}
  BY DEF WireInv, SendsTyped, ServerTyped
<1>3. CASE posts' = posts
  BY <1>1, <1>2, <1>3, TurnKeeps
<1>4. CASE posts' # posts
  <2>0. PICK new : new = Awaited(r)'
    OBVIOUS
  <2>1. /\ new = [reading |-> [run |-> run, robot |-> r, sequence |-> sequence[r]],
                  attempt |-> send[r].attempt + 1]
    BY <1>1, <1>4, <2>0 DEF Awaited, ReadingOf, Turn
  <2>2. /\ run \in Nat /\ sequence[r] \in Nat /\ send[r].attempt \in Nat
        /\ Busy(r)
    BY <1>1 DEF WireInv, SendsTyped, Send, Busy, Idle
  <2>3. new \in Post
    BY <2>1, <2>2 DEF Post, Reading
  <2>4. ~Past(new)
    BY <2>1, <2>2 DEF Past
  <2>5. Past(new)'
    BY <1>1, <1>4, <2>1, <2>2 DEF Past, Turn
  <2>6. new \notin arrived
    BY <2>4 DEF WireInv
  <2>7. /\ posts' \subseteq Post /\ posts' \cap arrived = {}
        /\ \A p \in posts' : p \in posts \/ Past(p)'
    BY <1>1, <1>2, <2>0, <2>3, <2>5, <2>6
  <2> QED BY <1>1, <1>2, <2>7, TurnKeeps
<1> QED BY <1>3, <1>4

LEMMA EmitsKeepsWire ==
    ASSUME WireInv, Emits
    PROVE  WireInv'
<1>1. /\ app = "running"
      /\ UNCHANGED <<run, app, aborted, taken, acknowledged>>
      /\ UNCHANGED serverVars
      /\ sequence' \in [Robot -> Nat] /\ send' \in [Robot -> Send]
  BY EmitsTurns DEF WireInv
<1>2. \A r \in Robot :
         \/ sequence'[r] = sequence[r] /\ send'[r] = send[r]
         \/ sequence'[r] = sequence[r] + 1
  BY EmitsTurns DEF WireInv
<1>3. \A p \in posts' : p \in posts \/ \E r \in Robot :
         p = Awaited(r)' /\ sequence'[r] = sequence[r] + 1
  BY EmitsTurns DEF WireInv
<1>4. run \in Nat /\ sequence \in [Robot -> Nat] /\ posts \subseteq Post
      /\ arrived \subseteq Post /\ inFlight \in Int
  BY DEF WireInv, SendsTyped, ServerTyped
<1>5. ASSUME NEW r \in Robot, sequence'[r] = sequence[r] + 1,
             NEW new, new = Awaited(r)'
      PROVE  new \in Post /\ Past(new)' /\ new \notin arrived
  <2>1. new = [reading |-> [run |-> run, robot |-> r, sequence |-> sequence[r] + 1],
               attempt |-> send'[r].attempt]
    BY <1>1, <1>5 DEF Awaited, ReadingOf
  <2>2. send'[r].attempt \in Nat /\ sequence[r] \in Nat
    BY <1>1, <1>4 DEF Send
  <2>3. new \in Post
    BY <1>4, <2>1, <2>2 DEF Post, Reading
  <2>4. ~Past(new)
    BY <1>4, <2>1, <2>2 DEF Past
  <2>5. Past(new)'
    BY <1>1, <1>4, <1>5, <2>1, <2>2 DEF Past
  <2>6. new \notin arrived
    BY <2>4 DEF WireInv
  <2> QED BY <2>3, <2>5, <2>6
<1>6. posts' \subseteq Post /\ posts' \cap arrived = {}
  BY <1>3, <1>4, <1>5 DEF WireInv
<1>7. ASSUME NEW p \in Post, Past(p) PROVE Past(p)'
  <2>1. /\ p.reading.robot \in Robot /\ p.reading.sequence \in Nat
        /\ p.reading.run \in Nat
    BY DEF Post, Reading
  <2>2. sequence[p.reading.robot] \in Nat
    BY <1>4, <2>1
  <2> QED BY <1>1, <1>2, <1>7, <2>1, <2>2 DEF Past, Busy
<1>8. \A p \in posts' \cup arrived' : Past(p)'
  BY <1>1, <1>3, <1>4, <1>5, <1>7 DEF WireInv, serverVars
<1>9. inFlight' \in Int
  <2>1. Started \subseteq 1..Robots
    BY DEF Started, Emitting, Due, Robot
  <2>2. IsFiniteSet(1..Robots)
    BY FS_Interval, SimulatorAssumption
  <2>3. Cardinality(Started) \in Nat
    BY <2>1, <2>2, FS_Subset, FS_CardinalityType
  <2> QED BY <1>4, <2>3 DEF Emits, Wake
<1>10. SendsTyped'
  BY <1>1, <1>6, <1>9 DEF WireInv, SendsTyped
<1>11. ServerTyped'
  BY <1>1 DEF WireInv, ServerTyped, serverVars
<1> QED BY <1>1, <1>6, <1>8, <1>10, <1>11 DEF WireInv, serverVars
(* Time, signals and the drain leave the sends as they are. *)
Aside ==
    /\ UNCHANGED <<client, run, posts, taken, acknowledged>>
    /\ UNCHANGED serverVars

LEMMA AsideStep ==
    ASSUME SendsTyped, aborted => app # "running",
           Passes \/ Drains \/ \E signal \in Signal : Shuts(signal)
    PROVE  /\ Aside
           /\ app' \in AppState /\ aborted' \in BOOLEAN
           /\ app' = "running" => app = "running" /\ aborted' = aborted
           /\ aborted' => app' # "running"
<1>1. CASE Passes
  BY <1>1 DEF Passes, Elapse, Aside, lifecycle, SendsTyped
<1>2. CASE Drains
  <2>1. (inFlight > 0) \in BOOLEAN
    OBVIOUS
  <2> QED BY <1>2, <2>1 DEF Drains, DrainEnds, Aside, AppState
<1>3. ASSUME NEW signal \in Signal, Shuts(signal)
      PROVE  /\ Aside
             /\ app' \in AppState /\ aborted' = aborted
             /\ app' = "running" => app = "running"
  BY <1>3 DEF Shuts, Signalled, Aside, SendsTyped, AppState
<1>4. aborted \in BOOLEAN
  BY DEF SendsTyped
<1> QED BY <1>1, <1>2, <1>3, <1>4

LEMMA AsideKeepsWire ==
    ASSUME WireInv, Passes \/ Drains \/ \E signal \in Signal : Shuts(signal)
    PROVE  WireInv'
<1>1. /\ Aside /\ app' \in AppState /\ aborted' \in BOOLEAN
      /\ aborted' => app' # "running"
  BY AsideStep DEF WireInv
<1> QED BY <1>1 DEF WireInv, SendsTyped, ServerTyped, Aside, client, serverVars,
            Past, Busy

LEMMA StartsKeepsWire ==
    ASSUME WireInv, Starts
    PROVE  WireInv'
<1>1. /\ run' = run + 1 /\ run \in Nat /\ taken' = {} /\ app' = "running"
      /\ aborted' = FALSE /\ inFlight' = 0
      /\ UNCHANGED <<posts, acknowledged>> /\ UNCHANGED serverVars
  BY DEF WireInv, SendsTyped, Starts
<1>2. sequence' \in [Robot -> Nat] /\ send' \in [Robot -> Send]
  BY DEF Starts, Idle, Send
<1>3. SendsTyped'
  <2>1. aborted' \in BOOLEAN /\ app' \in AppState
    BY <1>1 DEF AppState
  <2> QED BY <1>1, <1>2, <2>1 DEF WireInv, SendsTyped
<1>4. ASSUME NEW p \in Post, Past(p) PROVE Past(p)'
  <2>1. p.reading.run \in Nat
    BY DEF Post, Reading
  <2> QED BY <1>1, <1>4, <2>1 DEF Past
<1>5. \A p \in posts' \cup arrived' : Past(p)'
  BY <1>1, <1>4 DEF WireInv, SendsTyped, ServerTyped, serverVars
<1> QED BY <1>1, <1>3, <1>5 DEF WireInv, ServerTyped, serverVars

(* The server's slot after a reading is a slot. *)
LEMMA ContinuityTyped ==
    ASSUME NEW current \in SequenceHealth \cup {Null},
           NEW previous \in Nat \cup {Null}, NEW next \in Nat \cup {Null}
    PROVE  /\ CountDuplicate(current) \in SequenceHealth
           /\ AdvanceSequenceHealth(current, previous, next) \in SequenceHealth
<1>1. Null \notin Nat
  BY DeliveryAssumption
<1>2. Evaluated(0, 0) \in SequenceHealth /\ Evaluated(0, 1) \in SequenceHealth
      /\ NotEvaluated \in SequenceHealth
  BY DEF Evaluated, NotEvaluated, SequenceHealth
<1>3. CountDuplicate(current) \in SequenceHealth
  BY <1>2 DEF CountDuplicate, SequenceHealth
<1>4. next # Null => Missing(previous, next) \in Nat
  BY <1>1 DEF Missing
<1>5. AdvanceSequenceHealth(current, previous, next) \in SequenceHealth
  BY <1>2, <1>4 DEF AdvanceSequenceHealth, SequenceHealth
<1> QED BY <1>3, <1>5

LEMMA ArrivesKeepsWire ==
    ASSUME WireInv, NEW post \in posts, Arrives(post)
    PROVE  WireInv'
<1> DEFINE r == post.reading.robot
           next == CounterOf(post.reading)
           new == IsTaken(post.reading)
<1>1. post \in Post /\ post.reading \in Reading /\ r \in Robot
      /\ post.reading.sequence \in Nat
  BY DEF WireInv, SendsTyped, Post, Reading
<1>2. next \in Nat \cup {Null} /\ counter \in [Robot -> Nat \cup {Null}]
      /\ continuity \in [Robot -> SequenceHealth \cup {Null}]
  BY <1>1 DEF CounterOf, WireInv, ServerTyped
<1>3. /\ counter' = [counter EXCEPT ![r] = IF new THEN next ELSE @]
      /\ continuity' = [continuity EXCEPT ![r] =
            CASE new -> AdvanceSequenceHealth(@, counter[r], next)
              [] ~new /\ next = counter[r] -> CountDuplicate(@)
              [] OTHER -> @]
  BY DEF Arrives
<1> HIDE DEF next, new, r
<1>4. counter' \in [Robot -> Nat \cup {Null}]
  BY <1>1, <1>2, <1>3
<1>5. continuity' \in [Robot -> SequenceHealth \cup {Null}]
  <2>1. /\ CountDuplicate(continuity[r]) \in SequenceHealth
        /\ AdvanceSequenceHealth(continuity[r], counter[r], next) \in SequenceHealth
    BY <1>1, <1>2, ContinuityTyped
  <2> QED BY <1>1, <1>2, <1>3, <2>1
<1>6. /\ arrived' = arrived \cup {post} /\ posts' = posts \ {post}
      /\ taken' \subseteq taken \cup {post}
      /\ accepted' \subseteq accepted \cup {post.reading}
      /\ UNCHANGED <<sequence, send, inFlight, aborted, app, run, acknowledged>>
  BY DEF Arrives, vars, client, lifecycle
<1>7. SendsTyped' /\ ServerTyped'
  BY <1>1, <1>4, <1>5, <1>6 DEF WireInv, SendsTyped, ServerTyped
<1> QED BY <1>6, <1>7 DEF WireInv, Past, Busy

LEMMA WireStep == WireInv /\ [DeliveryNext]_deliveryVars => WireInv'
<1> SUFFICES ASSUME WireInv, [DeliveryNext]_deliveryVars PROVE WireInv'
  OBVIOUS
<1>1. CASE UNCHANGED deliveryVars
  BY <1>1 DEF WireInv, SendsTyped, ServerTyped, Past, Busy, deliveryVars, vars,
     client, lifecycle, serverVars
<1>2. CASE DeliveryNext
  BY <1>2, EmitsKeepsWire, AsideKeepsWire, StartsKeepsWire, RetryKeepsWire,
     AttemptKeepsWire, ArrivesKeepsWire DEF DeliveryNext
<1> QED BY <1>1, <1>2

LEMMA WireAlways == DeliverySpec => []WireInv
BY WireInit, WireStep, PTL DEF DeliverySpec

-----------------------------------------------------------------------------
(* Once shutdown has begun no reading is generated, and once it has        *)
(* aborted nothing more is sent, whatever backoff ends then (ingestClient  *)
(* looks at the signal after every delay).                                 *)
THEOREM DeliveryShutdownIsQuiet == DeliverySpec => ShutdownIsQuiet
<1> DEFINE Quiet == run' = run =>
              /\ app # "running" => sequence' = sequence
              /\ aborted => posts' \subseteq posts
<1>1. WireInv /\ [DeliveryNext]_deliveryVars => [Quiet]_deliveryVars
  <2> SUFFICES ASSUME WireInv, DeliveryNext PROVE Quiet
    OBVIOUS
  <2>1. CASE Emits
    BY <2>1, EmitsTurns DEF WireInv
  <2>2. CASE Passes \/ Drains \/ \E signal \in Signal : Shuts(signal)
    <3>1. Aside
      BY <2>2, AsideStep DEF WireInv
    <3> QED BY <3>1 DEF Aside, client
  <2>3. CASE Starts
    BY <2>3 DEF Starts, WireInv, SendsTyped
  <2>4. ASSUME NEW r \in Robot, Retries(r) PROVE Quiet
    BY <2>4, RetryTurns DEF WireInv, Turn
  <2>5. ASSUME NEW r \in Robot,
               GivesUp(r) \/ Succeeds(r) \/ Breaks(r)
                 \/ \E status \in {404, 500} : Refused(r, status)
        PROVE  Quiet
    BY <2>5, AttemptTurns DEF WireInv, Turn
  <2>6. ASSUME NEW post \in posts, Arrives(post) PROVE Quiet
    BY <2>6 DEF Arrives, vars, client
  <2> HIDE DEF Quiet
  <2> QED BY <2>1, <2>2, <2>3, <2>4, <2>5, <2>6 DEF DeliveryNext
<1>2. DeliverySpec => [][Quiet]_deliveryVars
  BY <1>1, WireAlways, PTL DEF DeliverySpec
<1> QED BY <1>2 DEF ShutdownIsQuiet
-----------------------------------------------------------------------------
(* The server's slot of a robot with a counter stands at the newest of the *)
(* readings it accepted, and whatever was taken of the only run it has     *)
(* heard of is among them.                                                 *)
Heard == {p.reading : p \in arrived}

CounterIsNewest ==
    /\ \A r \in Numbered : counter[r] # Null =>
          \E y \in accepted : y.robot = r /\ y.sequence = counter[r]
    /\ \A y \in accepted : y.robot \in Numbered =>
          counter[y.robot] # Null /\ y.sequence <= counter[y.robot]

TakenIsAccepted ==
    Sole => \A p \in taken : p.reading.robot \in Numbered => p.reading \in accepted

StoreInv ==
    /\ WireInv
    /\ accepted \subseteq Heard /\ acknowledged \subseteq Heard
    /\ CounterIsNewest
    /\ TakenIsAccepted
    /\ AcknowledgedIsAccepted

(* What the counts are about: a robot's requests, the counters they        *)
(* carried, and the counters of its accepted readings.                     *)
Requests(r) == {p \in arrived : p.reading.robot = r}
Counters(r) == {p.reading.sequence : p \in Requests(r)}
Numbers(r) == {x.sequence : x \in {y \in accepted : y.robot = r}}

TrueCounts(r) ==
    /\ continuity[r].evaluated
    /\ continuity[r].gaps
         = Cardinality((Min(Numbers(r))..Max(Numbers(r))) \ Numbers(r))
    /\ continuity[r].duplicates
         <= Cardinality(Requests(r)) - Cardinality(Counters(r))

ContinuityInv ==
    /\ StoreInv
    /\ IsFiniteSet(arrived)
    /\ \A r \in Robot : IsFiniteSet(Counters(r))
    /\ \A r \in Numbered :
          /\ counter[r] = Null => continuity[r] = Null /\ Requests(r) = {}
          /\ counter[r] # Null => continuity[r] # Null /\ TrueCounts(r)

LEMMA StoreInit == DeliveryInit => StoreInv
BY WireInit, DeliveryAssumption DEF DeliveryInit, StoreInv, Heard, CounterIsNewest, TakenIsAccepted,
   AcknowledgedIsAccepted

(* A step that leaves the store alone, and takes or acknowledges nothing   *)
(* that had not been taken.                                                *)
LEMMA StoreUntouched ==
    ASSUME StoreInv, WireInv', UNCHANGED run, UNCHANGED serverVars,
           taken' \subseteq taken,
           acknowledged' \subseteq acknowledged \cup {p.reading : p \in taken}
    PROVE  StoreInv'
<1>1. Sole' <=> Sole
  BY DEF Sole, serverVars
<1>2. UNCHANGED <<accepted, arrived, counter>>
  BY DEF serverVars
<1>3. taken \subseteq arrived
  BY DEF StoreInv, WireInv
<1>4. acknowledged' \subseteq Heard' /\ accepted' \subseteq Heard'
  BY <1>2, <1>3 DEF StoreInv, Heard
<1>5. CounterIsNewest' /\ TakenIsAccepted'
  BY <1>1, <1>2 DEF StoreInv, CounterIsNewest, TakenIsAccepted
<1>6. AcknowledgedIsAccepted'
  BY <1>1, <1>2 DEF StoreInv, TakenIsAccepted, AcknowledgedIsAccepted
<1> QED BY <1>4, <1>5, <1>6 DEF StoreInv

(* A new process has taken nothing; if the server heard of the old one, it *)
(* has heard of more than this one.                                        *)
LEMMA StartsKeepsStore ==
    ASSUME StoreInv, WireInv', Starts
    PROVE  StoreInv'
<1>1. /\ run' = run + 1 /\ run \in Nat /\ taken' = {}
      /\ UNCHANGED acknowledged /\ UNCHANGED serverVars
  BY DEF StoreInv, WireInv, SendsTyped, Starts
<1>2. UNCHANGED <<accepted, arrived, counter>>
  BY <1>1 DEF serverVars
<1>3. ASSUME Sole' PROVE acknowledged = {}
  <2>1. ASSUME NEW p \in arrived PROVE FALSE
    <3>1. p.reading.run <= run
      BY DEF StoreInv, WireInv, Past
    <3>2. p.reading.run = run + 1
      BY <1>1, <1>2, <1>3 DEF Sole
    <3> QED BY <1>1, <3>1, <3>2
  <2> QED BY <2>1 DEF StoreInv, Heard
<1>4. AcknowledgedIsAccepted'
  BY <1>1, <1>3 DEF AcknowledgedIsAccepted
<1>5. CounterIsNewest' /\ TakenIsAccepted'
  BY <1>1, <1>2 DEF StoreInv, CounterIsNewest, TakenIsAccepted
<1> QED BY <1>1, <1>2, <1>4, <1>5 DEF StoreInv, Heard

(* What an arrival does for a robot with a counter. *)
LEMMA ArrivalCases ==
    ASSUME WireInv, NEW post \in posts, Arrives(post), post.reading.robot \in Numbered
    PROVE  LET r == post.reading.robot
               n == post.reading.sequence
           IN  /\ r \in Robot /\ n \in Nat /\ post \in Post /\ post.reading \in Reading
               /\ counter[r] \in Nat \cup {Null} /\ Null \notin Nat
               /\ \/ /\ counter[r] # Null => n > counter[r]
                     /\ counter' = [counter EXCEPT ![r] = n]
                     /\ continuity' = [continuity EXCEPT ![r] =
                           AdvanceSequenceHealth(@, counter[r], n)]
                     /\ accepted' = accepted \cup {post.reading}
                  \/ /\ counter[r] # Null /\ n <= counter[r]
                     /\ counter' = counter /\ accepted' = accepted
                     /\ continuity' = [continuity EXCEPT ![r] =
                           IF n = counter[r] THEN CountDuplicate(@) ELSE @]
<1> DEFINE r == post.reading.robot
           n == post.reading.sequence
<1>1. post \in Post /\ post.reading \in Reading /\ r \in Robot /\ n \in Nat
  BY DEF WireInv, SendsTyped, Post, Reading
<1>2. counter \in [Robot -> Nat \cup {Null}] /\ Null \notin Nat
      /\ continuity \in [Robot -> SequenceHealth \cup {Null}]
  BY DeliveryAssumption DEF WireInv, ServerTyped
<1>3. CounterOf(post.reading) = n
  BY DEF CounterOf
<1>4. IsTaken(post.reading) <=> (counter[r] # Null => n > counter[r])
  BY <1>1, <1>2, <1>3 DEF IsTaken, IsNewer
<1>5. CASE IsTaken(post.reading)
  BY <1>1, <1>2, <1>3, <1>4, <1>5 DEF Arrives
<1>6. CASE ~IsTaken(post.reading)
  <2>1. counter[r] # Null /\ n <= counter[r]
    BY <1>1, <1>2, <1>4, <1>6
  <2>2. counter' = counter /\ accepted' = accepted
    BY <1>2, <1>6 DEF Arrives
  <2>3. continuity' = [continuity EXCEPT ![r] =
                          IF n = counter[r] THEN CountDuplicate(@) ELSE @]
    BY <1>3, <1>6 DEF Arrives
  <2> QED BY <1>1, <1>2, <2>1, <2>2, <2>3
<1> QED BY <1>5, <1>6

(* A reading whose counter is the stored one is the stored one.            *)
LEMMA StoredIsAccepted ==
    ASSUME StoreInv, Sole, NEW x \in Reading, x.run = run, x.robot \in Numbered,
           counter[x.robot] = x.sequence
    PROVE  x \in accepted
<1>1. x.sequence \in Nat /\ Null \notin Nat
  BY DeliveryAssumption DEF Reading
<1>2. PICK y \in accepted : y.robot = x.robot /\ y.sequence = x.sequence
  BY <1>1 DEF StoreInv, CounterIsNewest
<1>3. y.run = run /\ y \in Reading
  BY DEF StoreInv, Heard, Sole, WireInv, ServerTyped
<1>4. y = x
  BY <1>2, <1>3 DEF Reading
<1> QED BY <1>2, <1>4

LEMMA ArrivesKeepsStore ==
    ASSUME StoreInv, WireInv', NEW post \in posts, Arrives(post)
    PROVE  StoreInv'
<1> DEFINE r == post.reading.robot
           n == post.reading.sequence
<1>1. /\ arrived' = arrived \cup {post}
      /\ taken' \subseteq taken \cup {post}
      /\ post \in Begun \/ taken' = taken
      /\ UNCHANGED <<run, sequence, send, acknowledged>>
      /\ accepted \subseteq accepted' /\ accepted' \subseteq accepted \cup {post.reading}
      /\ \A q \in Robot : q # r => counter'[q] = counter[q]
  BY DEF Arrives, vars, client, WireInv, StoreInv, ServerTyped
<1>2. accepted' \subseteq Heard' /\ acknowledged' \subseteq Heard'
  BY <1>1 DEF StoreInv, Heard
<1>3. Sole' => Sole /\ post.reading.run = run
  BY <1>1 DEF Sole
<1>4. Numbered \subseteq Robot /\ accepted \subseteq Reading
      /\ counter \in [Robot -> Nat \cup {Null}]
  BY DeliveryAssumption DEF StoreInv, WireInv, ServerTyped
<1>5. CASE r \notin Numbered
  <2>1. counter' = [counter EXCEPT ![r] = counter'[r]]
    BY <1>4 DEF Arrives
  <2>2. \A y \in accepted' : y.robot \in Numbered => y \in accepted
    BY <1>1, <1>5
  <2>3. CounterIsNewest'
    BY <1>1, <1>4, <1>5, <2>2 DEF StoreInv, CounterIsNewest
  <2>4. TakenIsAccepted' /\ AcknowledgedIsAccepted'
    BY <1>1, <1>3, <1>5 DEF StoreInv, TakenIsAccepted, AcknowledgedIsAccepted
  <2> QED BY <1>2, <2>3, <2>4 DEF StoreInv
<1>6. CASE r \in Numbered
  <2>1. r \in Robot /\ n \in Nat /\ post.reading \in Reading /\ Null \notin Nat
    BY <1>6, ArrivalCases DEF StoreInv
  <2>2. \/ /\ counter[r] # Null => n > counter[r]
           /\ counter' = [counter EXCEPT ![r] = n]
           /\ accepted' = accepted \cup {post.reading}
        \/ /\ counter[r] # Null /\ n <= counter[r]
           /\ counter' = counter /\ accepted' = accepted
    BY <1>6, ArrivalCases DEF StoreInv
  <2>3. CounterIsNewest'
    <3>1. CASE counter' = counter /\ accepted' = accepted
      BY <3>1 DEF StoreInv, CounterIsNewest
    <3>2. CASE /\ counter[r] # Null => n > counter[r]
               /\ counter' = [counter EXCEPT ![r] = n]
               /\ accepted' = accepted \cup {post.reading}
      <4>1. counter'[r] = n /\ n # Null
        BY <1>4, <2>1, <3>2
      <4>2. ASSUME NEW q \in Numbered, counter'[q] # Null
            PROVE  \E y \in accepted' : y.robot = q /\ y.sequence = counter'[q]
        <5>1. CASE q = r
          BY <3>2, <4>1, <5>1
        <5>2. CASE q # r
          BY <1>1, <1>4, <4>2, <5>2 DEF StoreInv, CounterIsNewest
        <5> QED BY <5>1, <5>2
      <4>3. ASSUME NEW y \in accepted', y.robot \in Numbered
            PROVE  counter'[y.robot] # Null /\ y.sequence <= counter'[y.robot]
        <5>1. CASE y = post.reading
          BY <2>1, <4>1, <5>1
        <5>2. CASE y \in accepted /\ y.robot # r
          BY <1>1, <1>4, <4>3, <5>2 DEF StoreInv, CounterIsNewest
        <5>3. CASE y \in accepted /\ y.robot = r
          <6>1. y.sequence \in Nat /\ counter[r] # Null /\ y.sequence <= counter[r]
                /\ counter[r] \in Nat
            BY <1>4, <2>1, <4>3, <5>3 DEF StoreInv, CounterIsNewest, Reading
          <6> QED BY <2>1, <3>2, <4>1, <5>3, <6>1
        <5> QED BY <1>1, <5>1, <5>2, <5>3
      <4> QED BY <4>2, <4>3 DEF CounterIsNewest
    <3> QED BY <2>2, <3>1, <3>2
  <2>4. ASSUME Sole', post \in Begun PROVE post.reading \in accepted'
    <3>1. CASE post.reading \in accepted'
      BY <3>1
    <3>2. CASE counter[r] # Null /\ n <= counter[r] /\ accepted' = accepted
      <4>1. Sole /\ post.reading.run = run
        BY <1>3, <2>4
      <4>2. n = sequence[r]
        BY <2>4, AwaitedIsPost DEF Begun, StoreInv, WireInv
      <4>3. PICK y \in accepted : y.robot = r /\ y.sequence = counter[r]
        BY <1>6, <3>2 DEF StoreInv, CounterIsNewest
      <4>4. PICK p \in arrived : y = p.reading
        BY DEF StoreInv, Heard
      <4>5. y.run = run
        BY <4>1, <4>4 DEF Sole
      <4>6. y.sequence <= sequence[r]
        <5>1. Past(p)
          BY DEF StoreInv, WireInv
        <5>2. sequence[r] \in Nat /\ y.sequence \in Nat
          BY <1>4, <2>1 DEF StoreInv, WireInv, SendsTyped, Reading
        <5> QED BY <4>3, <4>4, <4>5, <5>1, <5>2 DEF Past
      <4>7. counter[r] = n
        BY <1>4, <2>1, <3>2, <4>2, <4>3, <4>6
      <4> QED BY <1>6, <2>1, <3>2, <4>1, <4>7, StoredIsAccepted
    <3> QED BY <2>2, <3>1, <3>2
  <2>5. TakenIsAccepted'
    BY <1>1, <1>3, <2>4 DEF StoreInv, TakenIsAccepted
  <2>6. AcknowledgedIsAccepted'
    BY <1>1, <1>3 DEF StoreInv, AcknowledgedIsAccepted
  <2> QED BY <1>2, <2>3, <2>5, <2>6 DEF StoreInv
<1> QED BY <1>5, <1>6

LEMMA StoreStep == StoreInv /\ [DeliveryNext]_deliveryVars => StoreInv'
<1> SUFFICES ASSUME StoreInv, [DeliveryNext]_deliveryVars PROVE StoreInv'
  OBVIOUS
<1>1. WireInv /\ SendsTyped /\ WireInv' /\ (aborted => app # "running")
  BY WireStep DEF StoreInv, WireInv
<1>2. CASE UNCHANGED deliveryVars
  BY <1>1, <1>2, StoreUntouched DEF deliveryVars
<1>3. CASE Emits
  BY <1>1, <1>3, EmitsTurns, StoreUntouched
<1>4. CASE Passes \/ Drains \/ \E signal \in Signal : Shuts(signal)
  <2>1. Aside
    BY <1>1, <1>4, AsideStep
  <2> QED BY <1>1, <2>1, StoreUntouched DEF Aside
<1>5. CASE Starts
  BY <1>1, <1>5, StartsKeepsStore
<1>6. ASSUME NEW r \in Robot, Retries(r) PROVE StoreInv'
  BY <1>1, <1>6, RetryTurns, StoreUntouched DEF Turn
<1>7. ASSUME NEW r \in Robot,
             GivesUp(r) \/ Succeeds(r) \/ Breaks(r)
               \/ \E status \in {404, 500} : Refused(r, status)
      PROVE  StoreInv'
  <2>1. /\ Turn(r) /\ taken' \subseteq taken
        /\ \/ acknowledged' = acknowledged
           \/ /\ Awaited(r) \in taken
              /\ acknowledged' = acknowledged \cup {ReadingOf(r)}
    BY <1>1, <1>7, AttemptTurns
  <2>2. Awaited(r).reading = ReadingOf(r)
    BY <1>1, AwaitedIsPost
  <2>3. acknowledged' \subseteq acknowledged \cup {p.reading : p \in taken}
    BY <2>1, <2>2
  <2> QED BY <1>1, <2>1, <2>3, StoreUntouched DEF Turn
<1>8. ASSUME NEW post \in posts, Arrives(post) PROVE StoreInv'
  BY <1>1, <1>8, ArrivesKeepsStore
<1> QED BY <1>2, <1>3, <1>4, <1>5, <1>6, <1>7, <1>8 DEF DeliveryNext

LEMMA StoreAlways == DeliverySpec => []StoreInv
BY StoreInit, StoreStep, PTL DEF DeliverySpec

(* For a dialect with a counter every reading the simulator counted as     *)
(* sent was stored as new, through timeouts, late arrivals and retries:    *)
(* one send of one robot at a time, so no later reading overtakes it.      *)
THEOREM DeliveryAcknowledged == DeliverySpec => []AcknowledgedIsAccepted
<1>1. StoreInv => AcknowledgedIsAccepted
  BY DEF StoreInv
<1> QED BY <1>1, StoreAlways, PTL
-----------------------------------------------------------------------------
(* Gaps and duplicates, as sets of counters and of requests.               *)

(* The greatest and the least of a set that has a greatest. *)
LEMMA MinMax ==
    ASSUME NEW S \in SUBSET Nat, NEW top \in S, \A y \in S : y <= top
    PROVE  /\ Max(S) = top
           /\ Min(S) \in S /\ \A y \in S : Min(S) <= y
<1>1. Max(S) = top
  <2>1. Max(S) \in S /\ \A y \in S : Max(S) >= y
    BY DEF Max
  <2>2. Max(S) \in Nat /\ top \in Nat /\ Max(S) >= top
    BY <2>1
  <2>3. Max(S) <= top
    BY <2>1
  <2> QED BY <2>2, <2>3
<1>2. \E x \in S : \A y \in S : x <= y
  BY LeastNatural
<1> QED BY <1>1, <1>2 DEF Min

(* A counter that jumps from top to next leaves out the ones between. *)
LEMMA GapsGrow ==
    ASSUME NEW S \in SUBSET Nat, NEW top \in S, \A y \in S : y <= top,
           NEW next \in Nat, top < next,
           NEW T, T = S \cup {next}
    PROVE  /\ Cardinality((Min(S)..Max(S)) \ S) \in Nat
           /\ Cardinality((Min(T)..Max(T)) \ T)
                = Cardinality((Min(S)..Max(S)) \ S) + (next - top - 1)
<1>1. /\ Max(S) = top /\ Min(S) \in S /\ Min(S) \in Nat
      /\ \A y \in S : Min(S) <= y
  BY MinMax
<1>2. /\ T \in SUBSET Nat /\ next \in T /\ \A y \in T : y <= next
  OBVIOUS
<1>3. Max(T) = next /\ Min(T) \in T /\ \A y \in T : Min(T) <= y
  BY <1>2, MinMax
<1>4. Min(T) = Min(S)
  <2>1. Min(S) \in T /\ \A y \in T : Min(S) <= y
    BY <1>1
  <2>2. Min(T) \in Nat
    BY <1>2, <1>3
  <2> QED BY <1>1, <1>3, <2>1, <2>2
<1> DEFINE A == (Min(S)..top) \ S
           B == (top + 1)..(next - 1)
<1>5. IsFiniteSet(Min(S)..top) /\ IsFiniteSet(B) /\ Cardinality(B) = next - top - 1
  <2>1. IsFiniteSet(Min(S)..top)
    BY <1>1, FS_Interval
  <2>2. PICK low \in Int, high \in Int : low = top + 1 /\ high = next - 1
    OBVIOUS
  <2>3. /\ IsFiniteSet(low..high)
        /\ Cardinality(low..high) = IF low > high THEN 0 ELSE high - low + 1
    BY FS_Interval
  <2> QED BY <2>1, <2>2, <2>3
<1>6. IsFiniteSet(A) /\ Cardinality(A) \in Nat
  <2>1. A \in SUBSET (Min(S)..top)
    OBVIOUS
  <2>2. IsFiniteSet(A)
    BY <1>5, <2>1, FS_Subset
  <2> QED BY <2>2, FS_CardinalityType
<1>7. A \cap B = {}
  BY <1>1
<1>8. (Min(S)..next) \ T = A \cup B
  BY <1>1
<1> HIDE DEF A, B
<1>9. Cardinality(A \cup B) = Cardinality(A) + Cardinality(B)
  <2>1. Cardinality(A \cup B) = Cardinality(A) + Cardinality(B) - Cardinality(A \cap B)
    BY <1>5, <1>6, FS_Union
  <2>2. Cardinality(A \cap B) = 0
    BY <1>7, FS_EmptySet
  <2>3. Cardinality(B) \in Nat
    BY <1>5, FS_CardinalityType
  <2> QED BY <1>6, <2>1, <2>2, <2>3
<1> QED BY <1>1, <1>3, <1>4, <1>5, <1>6, <1>8, <1>9 DEF A

LEMMA NoGapAtFirst ==
    ASSUME NEW n \in Nat
    PROVE  Cardinality((Min({n})..Max({n})) \ {n}) = 0
<1>1. {n} \in SUBSET Nat /\ n \in {n} /\ \A y \in {n} : y <= n
  OBVIOUS
<1>2. Max({n}) = n /\ Min({n}) = n
  BY DEF Max, Min
<1>3. (n..n) \ {n} = {}
  OBVIOUS
<1> QED BY <1>2, <1>3, FS_EmptySet

-----------------------------------------------------------------------------
(* The invariant of the continuity counts, action by action.               *)

LEMMA ContinuityInit == DeliveryInit => ContinuityInv
<1> SUFFICES ASSUME DeliveryInit PROVE ContinuityInv
  OBVIOUS
<1>1. arrived = {} /\ \A r \in Robot : Requests(r) = {} /\ Counters(r) = {}
  BY DEF DeliveryInit, Requests, Counters
<1>2. \A r \in Numbered : counter[r] = Null /\ continuity[r] = Null
  BY DeliveryAssumption DEF DeliveryInit
<1> QED BY <1>1, <1>2, StoreInit, FS_EmptySet, DeliveryAssumption DEF ContinuityInv

LEMMA ContinuityUntouched ==
    ASSUME ContinuityInv, StoreInv', UNCHANGED serverVars
    PROVE  ContinuityInv'
BY DEF ContinuityInv, TrueCounts, Numbers, Counters, Requests, serverVars

(* One more request of a robot, with a counter heard of before or not.     *)
LEMMA RequestsGrow ==
    ASSUME ContinuityInv, NEW post \in Post, post \notin arrived,
           arrived' = arrived \cup {post},
           NEW r \in Robot, r = post.reading.robot,
           NEW n, n = post.reading.sequence
    PROVE  /\ IsFiniteSet(arrived)' /\ IsFiniteSet(Counters(r))'
           /\ Requests(r)' = Requests(r) \cup {post}
           /\ \A q : q # r => Requests(q)' = Requests(q) /\ Counters(q)' = Counters(q)
           /\ Cardinality(Requests(r)) \in Nat /\ Cardinality(Counters(r)) \in Nat
           /\ Cardinality(Requests(r)') = Cardinality(Requests(r)) + 1
           /\ Cardinality(Counters(r)')
                = IF n \in Counters(r) THEN Cardinality(Counters(r))
                  ELSE Cardinality(Counters(r)) + 1
<1> DEFINE Q == Requests(r)
           R == Counters(r)
<1>1. IsFiniteSet(arrived) /\ IsFiniteSet(R)
  BY DEF ContinuityInv
<1>2. Requests(r)' = Q \cup {post}
      /\ \A q : q # r => Requests(q)' = Requests(q) /\ Counters(q)' = Counters(q)
  BY DEF Requests, Counters
<1>3. Counters(r)' = R \cup {n}
  BY <1>2 DEF Counters
<1>4. IsFiniteSet(Q) /\ post \notin Q
  <2>1. Q \in SUBSET arrived /\ post \notin Q
    BY DEF Requests
  <2> HIDE DEF Q
  <2> QED BY <1>1, <2>1, FS_Subset
<1> HIDE DEF Q, R
<1>5. IsFiniteSet(arrived \cup {post}) /\ IsFiniteSet(Q \cup {post})
      /\ Cardinality(Q \cup {post}) = Cardinality(Q) + 1
  BY <1>1, <1>4, FS_AddElement
<1>6. /\ IsFiniteSet(R \cup {n})
      /\ Cardinality(R \cup {n}) = IF n \in R THEN Cardinality(R) ELSE Cardinality(R) + 1
  BY <1>1, FS_AddElement
<1>7. Cardinality(Q) \in Nat /\ Cardinality(R) \in Nat
  BY <1>1, <1>4, FS_CardinalityType
<1> QED BY <1>2, <1>3, <1>5, <1>6, <1>7 DEF Q, R

LEMMA ArrivesKeepsContinuity ==
    ASSUME ContinuityInv, StoreInv', NEW post \in posts, Arrives(post)
    PROVE  ContinuityInv'
<1>1. /\ arrived' = arrived \cup {post} /\ run' = run
      /\ accepted \subseteq accepted' /\ accepted' \subseteq accepted \cup {post.reading}
  BY DEF Arrives
<1>2. post \in Post /\ post \notin arrived /\ post.reading.robot \in Robot
      /\ post.reading \in Reading
  BY DEF ContinuityInv, StoreInv, WireInv, SendsTyped, Post, Reading
<1>3. PICK r \in Robot : r = post.reading.robot
  BY <1>2
<1>4. Numbered \subseteq Robot /\ Null \notin Nat /\ Null \notin SequenceHealth
      /\ counter \in [Robot -> Nat \cup {Null}]
      /\ continuity \in [Robot -> SequenceHealth \cup {Null}]
      /\ accepted \subseteq Reading
  BY DeliveryAssumption DEF ContinuityInv, StoreInv, WireInv, ServerTyped
<1>5. PICK n : n = post.reading.sequence
  OBVIOUS
<1>6. /\ IsFiniteSet(arrived)'
      /\ \A q \in Robot : IsFiniteSet(Counters(q))'
  BY <1>1, <1>2, <1>3, <1>5, RequestsGrow DEF ContinuityInv
<1>7. ASSUME NEW q \in Numbered, q # r
      PROVE  /\ counter'[q] = Null => continuity'[q] = Null /\ Requests(q)' = {}
             /\ counter'[q] # Null => continuity'[q] # Null /\ TrueCounts(q)'
  <2>1. Requests(q)' = Requests(q) /\ Counters(q)' = Counters(q)
    BY <1>1, <1>2, <1>3, <1>5, <1>7, RequestsGrow
  <2>2. counter'[q] = counter[q] /\ continuity'[q] = continuity[q]
    BY <1>3, <1>4, <1>7 DEF Arrives
  <2>3. Numbers(q)' = Numbers(q)
    BY <1>1, <1>3, <1>7 DEF Numbers
  <2> QED BY <2>1, <2>2, <2>3 DEF ContinuityInv, TrueCounts
<1>8. ASSUME r \in Numbered
      PROVE  counter'[r] # Null /\ continuity'[r] # Null /\ TrueCounts(r)'
  <2>1. /\ n \in Nat /\ counter[r] \in Nat \cup {Null}
        /\ \/ /\ counter[r] # Null => n > counter[r]
              /\ counter' = [counter EXCEPT ![r] = n]
              /\ continuity' = [continuity EXCEPT ![r] =
                    AdvanceSequenceHealth(@, counter[r], n)]
              /\ accepted' = accepted \cup {post.reading}
           \/ /\ counter[r] # Null /\ n <= counter[r]
              /\ counter' = counter /\ accepted' = accepted
              /\ continuity' = [continuity EXCEPT ![r] =
                    IF n = counter[r] THEN CountDuplicate(@) ELSE @]
    BY <1>3, <1>5, <1>8, ArrivalCases DEF ContinuityInv, StoreInv
  <2>2. counter'[r] # Null
    BY <1>4, <2>1
  <2> SUFFICES continuity'[r] # Null /\ TrueCounts(r)'
    BY <2>2
  <2> DEFINE held == n \in Counters(r)
             C == Cardinality(Requests(r))
             D == Cardinality(Counters(r))
  <2>4. /\ C \in Nat /\ D \in Nat
        /\ Cardinality(Requests(r)') = C + 1
        /\ Cardinality(Counters(r)') = IF held THEN D ELSE D + 1
        /\ Requests(r)' = Requests(r) \cup {post}
    BY <1>1, <1>2, <1>3, <1>5, RequestsGrow
  <2>5. Numbers(r) \in SUBSET Nat
    BY <1>4 DEF Numbers, Reading
  <2> HIDE DEF C, D, held
  <2>6. CASE counter[r] = Null
    \* The first of its readings: no request of it has arrived before.
    <3>1. continuity[r] = Null /\ Requests(r) = {}
      BY <1>8, <2>6 DEF ContinuityInv
    <3>2. continuity'[r] = Evaluated(0, 0) /\ accepted' = accepted \cup {post.reading}
      BY <1>4, <2>1, <2>6, <3>1 DEF AdvanceSequenceHealth
    <3>3. Numbers(r)' = {n}
      <4>1. ASSUME NEW y \in accepted, y.robot = r PROVE FALSE
        BY <1>8, <2>6, <4>1 DEF ContinuityInv, StoreInv, CounterIsNewest
      <4> QED BY <1>3, <1>5, <3>2, <4>1 DEF Numbers
    <3>4. C = 0 /\ D = 0
      <4>1. Counters(r) = {}
        BY <3>1 DEF Counters
      <4> QED BY <3>1, <4>1, FS_EmptySet DEF C, D
    <3>5. ~held
      BY <3>1 DEF held, Counters
    <3>6. /\ continuity'[r].evaluated /\ continuity'[r].gaps = 0
          /\ continuity'[r].duplicates = 0 /\ continuity'[r] \in SequenceHealth
      BY <3>2 DEF Evaluated, SequenceHealth
    <3>7. Cardinality((Min(Numbers(r)')..Max(Numbers(r)')) \ Numbers(r)') = 0
      BY <2>1, <3>3, NoGapAtFirst
    <3>8. TrueCounts(r)'
      BY <2>4, <3>4, <3>5, <3>6, <3>7 DEF TrueCounts
    <3> QED BY <1>4, <3>6, <3>8
  <2>7. CASE counter[r] # Null
    <3>1. counter[r] \in Nat /\ continuity[r] # Null /\ TrueCounts(r)
          /\ continuity[r] \in SequenceHealth
      BY <1>4, <1>8, <2>1, <2>7 DEF ContinuityInv
    <3>2. counter[r] \in Numbers(r) /\ \A y \in Numbers(r) : y <= counter[r]
      BY <1>8, <2>7 DEF ContinuityInv, StoreInv, CounterIsNewest, Numbers
    <3>3. CASE n > counter[r]
      <4>1. Numbers(r)' = Numbers(r) \cup {n}
        <5>1. accepted' = accepted \cup {post.reading}
          BY <2>1, <3>1, <3>3
        <5> QED BY <1>3, <1>5, <5>1 DEF Numbers
      <4>2. continuity'[r] = [continuity[r] EXCEPT
                                !.gaps = @ + (n - counter[r] - 1)]
        BY <1>4, <2>1, <3>1, <3>3 DEF AdvanceSequenceHealth, Missing, TrueCounts
      <4>3. /\ continuity'[r].evaluated
            /\ continuity'[r].gaps = continuity[r].gaps + (n - counter[r] - 1)
            /\ continuity'[r].duplicates = continuity[r].duplicates
            /\ continuity'[r] \in SequenceHealth
        <5>1. continuity'[r].gaps \in Nat
          BY <2>1, <3>1, <3>3, <4>2 DEF SequenceHealth
        <5> QED BY <3>1, <4>2, <5>1 DEF SequenceHealth, TrueCounts
      <4>4. Cardinality((Min(Numbers(r)')..Max(Numbers(r)')) \ Numbers(r)')
              = Cardinality((Min(Numbers(r))..Max(Numbers(r))) \ Numbers(r))
                  + (n - counter[r] - 1)
        <5> DEFINE S == Numbers(r)  T == Numbers(r)'
        <5>1. T = S \cup {n} /\ S \in SUBSET Nat
          BY <2>5, <4>1
        <5> HIDE DEF S, T
        <5>2. counter[r] \in S /\ \A y \in S : y <= counter[r]
          BY <3>2 DEF S
        <5>3. Cardinality((Min(T)..Max(T)) \ T)
                = Cardinality((Min(S)..Max(S)) \ S) + (n - counter[r] - 1)
          <6>1. PICK next \in Nat : next = n
            BY <2>1
          <6>2. PICK top \in S : top = counter[r]
            BY <5>2
          <6>3. T = S \cup {next} /\ top < next /\ \A y \in S : y <= top
            BY <2>1, <3>1, <3>3, <5>1, <5>2, <6>1, <6>2
          <6>4. Cardinality((Min(T)..Max(T)) \ T)
                  = Cardinality((Min(S)..Max(S)) \ S) + (next - top - 1)
            BY <5>1, <6>3, GapsGrow
          <6> QED BY <6>1, <6>2, <6>4
        <5> QED BY <5>3 DEF S, T
      <4>5. C - D \in Int /\ continuity[r].duplicates <= C - D
        BY <2>4, <3>1 DEF TrueCounts, C, D
      <4>6. continuity[r].duplicates \in Nat
        BY <3>1 DEF SequenceHealth
      <4>7. continuity'[r].duplicates <= Cardinality(Requests(r)')
               - Cardinality(Counters(r)')
        BY <2>4, <4>3, <4>5, <4>6
      <4>8. TrueCounts(r)'
        BY <3>1, <4>3, <4>4, <4>7 DEF TrueCounts
      <4> QED BY <1>4, <4>3, <4>8
    <3>4. CASE n <= counter[r]
      <4>1. /\ accepted' = accepted
            /\ continuity'[r] = IF n = counter[r] THEN CountDuplicate(continuity[r])
                                ELSE continuity[r]
        BY <1>4, <2>1, <3>1, <3>4
      <4>2. Numbers(r)' = Numbers(r)
        BY <4>1 DEF Numbers
      <4>3. /\ C \in Nat /\ D \in Nat /\ continuity[r].duplicates <= C - D
            /\ continuity[r].duplicates \in Nat
        BY <2>4, <3>1 DEF TrueCounts, C, D, SequenceHealth
      <4>4. CASE n = counter[r]
        \* The stored counter again, which an accepted reading had brought.
        <5>1. held
          <6>1. PICK y \in accepted : y.robot = r /\ y.sequence = n
            BY <1>8, <2>7, <4>4 DEF ContinuityInv, StoreInv, CounterIsNewest
          <6>2. PICK p \in arrived : p.reading = y
            BY <6>1 DEF ContinuityInv, StoreInv, Heard
          <6>3. p \in Requests(r) /\ p.reading.sequence = n
            BY <6>1, <6>2 DEF Requests
          <6> QED BY <6>3 DEF held, Counters
        <5>2. continuity'[r] = [continuity[r] EXCEPT !.duplicates = @ + 1]
          BY <3>1, <4>1, <4>4 DEF CountDuplicate, TrueCounts
        <5>3. /\ continuity'[r].evaluated
              /\ continuity'[r].gaps = continuity[r].gaps
              /\ continuity'[r].duplicates = continuity[r].duplicates + 1
              /\ continuity'[r] \in SequenceHealth
          BY <3>1, <4>3, <5>2 DEF SequenceHealth, TrueCounts
        <5>4. continuity'[r].duplicates <= Cardinality(Requests(r)')
                 - Cardinality(Counters(r)')
          BY <2>4, <4>3, <5>1, <5>3
        <5>5. TrueCounts(r)'
          BY <3>1, <4>2, <5>3, <5>4 DEF TrueCounts
        <5> QED BY <1>4, <5>3, <5>5
      <4>5. CASE n # counter[r]
        <5>1. continuity'[r] = continuity[r]
          BY <4>1, <4>5
        <5>2. continuity'[r].duplicates <= Cardinality(Requests(r)')
                 - Cardinality(Counters(r)')
          BY <2>4, <4>3, <5>1
        <5>3. TrueCounts(r)'
          BY <3>1, <4>2, <5>1, <5>2 DEF TrueCounts
        <5> QED BY <3>1, <5>1, <5>3
      <4> QED BY <4>4, <4>5
    <3> QED BY <2>1, <3>1, <3>3, <3>4
  <2> QED BY <2>6, <2>7
<1>9. ASSUME NEW q \in Numbered
      PROVE  /\ counter'[q] = Null => continuity'[q] = Null /\ Requests(q)' = {}
             /\ counter'[q] # Null => continuity'[q] # Null /\ TrueCounts(q)'
  BY <1>7, <1>8
<1> QED BY <1>6, <1>9 DEF ContinuityInv

LEMMA ContinuityStep == ContinuityInv /\ [DeliveryNext]_deliveryVars => ContinuityInv'
<1> SUFFICES ASSUME ContinuityInv, [DeliveryNext]_deliveryVars PROVE ContinuityInv'
  OBVIOUS
<1>1. StoreInv' /\ SendsTyped /\ (aborted => app # "running")
  BY StoreStep DEF ContinuityInv, StoreInv, WireInv
<1>2. CASE UNCHANGED deliveryVars
  BY <1>1, <1>2, ContinuityUntouched DEF deliveryVars
<1>3. CASE Emits
  BY <1>1, <1>3, EmitsTurns, ContinuityUntouched
<1>4. CASE Passes \/ Drains \/ \E signal \in Signal : Shuts(signal)
  <2>1. Aside
    BY <1>1, <1>4, AsideStep
  <2> QED BY <1>1, <2>1, ContinuityUntouched DEF Aside
<1>5. CASE Starts
  BY <1>1, <1>5, ContinuityUntouched DEF Starts
<1>6. ASSUME NEW r \in Robot, Retries(r) PROVE ContinuityInv'
  BY <1>1, <1>6, RetryTurns, ContinuityUntouched DEF Turn
<1>7. ASSUME NEW r \in Robot,
             GivesUp(r) \/ Succeeds(r) \/ Breaks(r)
               \/ \E status \in {404, 500} : Refused(r, status)
      PROVE  ContinuityInv'
  BY <1>1, <1>7, AttemptTurns, ContinuityUntouched DEF Turn
<1>8. ASSUME NEW post \in posts, Arrives(post) PROVE ContinuityInv'
  BY <1>1, <1>8, ArrivesKeepsContinuity
<1> QED BY <1>2, <1>3, <1>4, <1>5, <1>6, <1>7, <1>8 DEF DeliveryNext

(* The server's continuity counts are right, however often the simulator   *)
(* is started again: the gaps are exactly the counters between accepted    *)
(* readings that were never accepted, and every duplicate is a further     *)
(* request with a counter that had arrived before.                         *)
THEOREM DeliveryContinuity == DeliverySpec => []ContinuityIsTrue
<1>1. ContinuityInv => ContinuityIsTrue
  <2> SUFFICES ASSUME ContinuityInv, NEW r \in Numbered, counter[r] # Null
               PROVE  TrueCounts(r)
    BY DEF ContinuityIsTrue, TrueCounts, Counters, Requests, Numbers
  <2> QED BY DEF ContinuityInv
<1>2. DeliverySpec => []ContinuityInv
  BY ContinuityInit, ContinuityStep, PTL DEF DeliverySpec
<1> QED BY <1>1, <1>2, PTL
-----------------------------------------------------------------------------
(* The simulator's own accounts.                                           *)

Under == {r \in Robot : Busy(r)}

(* A summary is written once nothing is generated any more.                *)
CountInv ==
    /\ WireInv
    /\ metrics \in Metrics
    /\ shed \in Nat
    /\ EveryReadingSettles
    /\ CapacityComesBack
    /\ summary # Null => app \in {"stopped", "killed"}

LEMMA RobotsFinite ==
    /\ IsFiniteSet(Robot) /\ Robot \subseteq Nat
    /\ \A S \in SUBSET Robot : IsFiniteSet(S) /\ Cardinality(S) \in Nat
<1>1. IsFiniteSet(Robot)
  BY FS_Interval, SimulatorAssumption DEF Robot
<1>2. ASSUME NEW S \in SUBSET Robot PROVE IsFiniteSet(S) /\ Cardinality(S) \in Nat
  BY <1>1, FS_Subset, FS_CardinalityType
<1> QED BY <1>1, <1>2, SimulatorAssumption DEF Robot

(* The schedule's times are whole numbers, as the model's offsets are.     *)
ScheduleTyped ==
    /\ elapsed \in Nat /\ startedAt \in Nat
    /\ nextDue \in [Robot -> Nat]

LEMMA OffsetIsNatural == \A r \in Robot : Offset(r) \in Nat
<1> TAKE r \in Robot
<1>1. /\ Period \in Nat /\ Robots \in Nat \ {0} /\ r - 1 \in Nat
  BY SimulatorAssumption DEF Robot
<1>2. \A a, b \in Nat : a * b \in Nat
  OBVIOUS
<1>3. \A a \in Nat : \A b \in Nat \ {0} : a \div b \in Nat
  OBVIOUS
<1> QED BY <1>1, <1>2, <1>3 DEF Offset

(* A robot that is due is a whole number of periods late.                  *)
LEMMA PeriodsAreWhole ==
    ASSUME ScheduleTyped, NEW r \in Due
    PROVE  /\ Coalesced(r) \in Nat
           /\ Advanced(r) \in Nat
           /\ Advanced(r) - nextDue[r] = Period * (1 + Coalesced(r))
<1>1. /\ elapsed - nextDue[r] \in Nat /\ Period \in Nat \ {0} /\ nextDue[r] \in Nat
  BY SimulatorAssumption DEF ScheduleTyped, Due
<1>2. \A a \in Nat : \A b \in Nat \ {0} : a \div b \in Nat
  OBVIOUS
<1>3. Coalesced(r) \in Nat
  BY <1>1, <1>2 DEF Coalesced
<1>4. \A a, b \in Nat : a * b \in Nat
  OBVIOUS
<1>5. Period * (1 + Coalesced(r)) \in Nat
  BY <1>1, <1>3, <1>4
<1> QED BY <1>1, <1>3, <1>5 DEF Advanced

LEMMA ScheduleAlways == DeliverySpec => []ScheduleTyped
<1>1. DeliveryInit => ScheduleTyped
  BY OffsetIsNatural DEF DeliveryInit, Init, ScheduleTyped
<1>2. ScheduleTyped /\ [DeliveryNext]_deliveryVars => ScheduleTyped'
  <2> SUFFICES ASSUME ScheduleTyped, [DeliveryNext]_deliveryVars PROVE ScheduleTyped'
    OBVIOUS
  <2>1. CASE UNCHANGED schedule
    BY <2>1 DEF ScheduleTyped, schedule
  <2>2. CASE Emits
    BY <2>2, PeriodsAreWhole DEF Emits, Wake, ScheduleTyped
  <2>3. CASE Passes
    BY <2>3 DEF Passes, Elapse, ScheduleTyped
  <2>4. CASE Starts
    BY <2>4, OffsetIsNatural DEF Starts, ScheduleTyped
  <2>5. ASSUME ~Emits, ~Passes, ~Starts PROVE UNCHANGED schedule
    <3>1. CASE UNCHANGED deliveryVars
      BY <3>1 DEF deliveryVars, vars
    <3>2. CASE Drains \/ \E signal \in Signal : Shuts(signal)
      BY <3>2 DEF Drains, DrainEnds, Shuts, Signalled
    <3>3. ASSUME NEW r \in Robot,
                 Retries(r) \/ GivesUp(r) \/ Succeeds(r) \/ Breaks(r)
                   \/ \E status \in {404, 500} : Refused(r, status)
          PROVE  UNCHANGED schedule
      BY <3>3 DEF Retries, BackoffEnds, GivesUp, TimesOut, Cancelled, Succeeds,
                  Breaks, Unanswered, Refused, Answered, Kept
    <3>4. CASE \E post \in posts : Arrives(post)
      BY <3>4 DEF Arrives, vars
    <3> QED BY <2>5, <3>1, <3>2, <3>3, <3>4 DEF DeliveryNext
  <2> QED BY <2>1, <2>2, <2>3, <2>4, <2>5
<1> QED BY <1>1, <1>2, PTL DEF DeliverySpec

(* Of the robots that emit, no more start than there is room for: the last *)
(* of them started with all the others before it.                          *)
LEMMA RoomSuffices ==
    ASSUME inFlight \in Nat, inFlight <= MaxInFlight
    PROVE  /\ Started \in SUBSET Robot /\ Started \subseteq Emitting
           /\ Emitting \in SUBSET Robot
           /\ inFlight + Cardinality(Started) <= MaxInFlight
<1>1. Emitting \in SUBSET Robot /\ Started \subseteq Emitting /\ Started \in SUBSET Robot
  BY DEF Emitting, Started, Due
<1>2. MaxInFlight \in Nat
  BY SimulatorAssumption
<1>3. CASE Started = {}
  <2>1. Cardinality(Started) = 0
    BY <1>3, FS_EmptySet
  <2> QED BY <1>1, <1>2, <2>1
<1>4. CASE Started # {}
  <2>1. PICK last \in Started : \A q \in Started : q <= last
    <3> DEFINE Left == {Robots - i : i \in Started}
    <3>1. Robots \in Nat /\ \A i \in Started : i \in Nat /\ Robots - i \in Nat
      BY <1>1, SimulatorAssumption DEF Robot
    <3>2. Left \in SUBSET Nat /\ Left # {}
      BY <1>4, <3>1
    <3> HIDE DEF Left
    <3>3. PICK x \in Left : \A y \in Left : x <= y
      BY <3>2, LeastNatural
    <3>4. PICK m \in Started : x = Robots - m
      BY DEF Left
    <3>5. ASSUME NEW q \in Started PROVE q <= m
      <4>1. Robots - q \in Left
        BY DEF Left
      <4> QED BY <3>1, <3>3, <3>4, <4>1
    <3> QED BY <3>4, <3>5
  <2> DEFINE Before == {q \in Emitting : q < last}
             Others == Started \ {last}
  <2>2. inFlight + Cardinality(Before) < MaxInFlight
    BY <2>1 DEF Started
  <2>3. Others \in SUBSET Before /\ Before \in SUBSET Robot
    <3>1. ASSUME NEW q \in Started, q # last PROVE q < last
      BY <1>1, <2>1, <3>1, RobotsFinite
    <3> QED BY <1>1, <3>1
  <2>4. IsFiniteSet(Before) /\ Cardinality(Before) \in Nat
    BY <2>3, RobotsFinite
  <2>5. IsFiniteSet(Started) /\ Cardinality(Started) \in Nat
    BY <1>1, RobotsFinite
  <2>6. Cardinality(Others) = Cardinality(Started) - 1
    BY <2>1, <2>5, FS_RemoveElement
  <2> HIDE DEF Before, Others
  <2>7. Cardinality(Others) <= Cardinality(Before)
    BY <2>3, <2>4, FS_Subset
  <2>8. Cardinality(Started) - 1 <= Cardinality(Before)
    BY <2>6, <2>7
  <2> QED BY <1>1, <1>2, <2>2, <2>4, <2>5, <2>8
<1> QED BY <1>3, <1>4

(* A settled send is counted once. *)
LEMMA RecordedCounts ==
    ASSUME metrics \in Metrics, NEW kind \in Outcome, NEW attempts \in Nat,
           metrics' = Recorded(kind, attempts)
    PROVE  /\ metrics' \in Metrics
           /\ Settled(metrics) \in Nat /\ Settled(metrics') = Settled(metrics) + 1
           /\ metrics'.attempted = metrics.attempted
           /\ metrics'.requestsSent = metrics.requestsSent + 1
           /\ metrics'.peakInFlight = metrics.peakInFlight
<1>1. /\ metrics'.coalescedOverdue = metrics.coalescedOverdue
      /\ metrics'.attempted = metrics.attempted
      /\ metrics'.requestsSent = metrics.requestsSent + 1
      /\ metrics'.peakInFlight = metrics.peakInFlight
  BY DEF Metrics, Recorded
<1>2. metrics'.outcomes = [metrics.outcomes EXCEPT ![kind] = @ + 1]
  BY DEF Metrics, Recorded
<1>3. metrics' \in Metrics
  <2>1. metrics'.outcomes \in [Outcome -> Nat]
    BY <1>2 DEF Metrics
  <2>2. metrics'.retriesSent \in Nat /\ metrics'.requestsSent \in Nat
    BY DEF Metrics, Recorded
  <2>3. /\ metrics'.attempted \in Nat /\ metrics'.skippedOverdue \in Nat
        /\ metrics'.peakInFlight \in Nat /\ metrics'.coalescedOverdue \in Nat
    BY DEF Metrics, Recorded
  <2>4. metrics' = [attempted |-> metrics'.attempted,
                    requestsSent |-> metrics'.requestsSent,
                    retriesSent |-> metrics'.retriesSent,
                    outcomes |-> metrics'.outcomes,
                    skippedOverdue |-> metrics'.skippedOverdue,
                    coalescedOverdue |-> metrics'.coalescedOverdue,
                    peakInFlight |-> metrics'.peakInFlight]
    BY DEF Metrics, Recorded
  <2> QED BY <2>1, <2>2, <2>3, <2>4 DEF Metrics
<1>4. Settled(metrics) \in Nat /\ Settled(metrics') = Settled(metrics) + 1
  BY <1>2 DEF Metrics, Settled, Outcome
<1> QED BY <1>1, <1>3, <1>4

LEMMA CountInit == DeliveryInit => CountInv
<1> SUFFICES ASSUME DeliveryInit PROVE CountInv
  OBVIOUS
<1>1. metrics \in Metrics /\ metrics.peakInFlight = 0 /\ metrics.attempted = 0
      /\ metrics.requestsSent = 0 /\ Settled(metrics) = 0
  BY DEF DeliveryInit, Init, InitialMetrics, Metrics, Settled, Outcome
<1>2. inFlight = 0 /\ shed = 0 /\ summary = Null
  BY DEF DeliveryInit, Init
<1>3. Under = {}
  BY DEF DeliveryInit, Init, Under, Busy
<1>4. Cardinality(Under) = 0
  BY <1>3, FS_EmptySet
<1>5. CapacityComesBack
  BY <1>1, <1>2, <1>4, SimulatorAssumption DEF CapacityComesBack, Under
<1>6. EveryReadingSettles
  BY <1>1, <1>2 DEF EveryReadingSettles
<1> QED BY <1>1, <1>2, <1>5, <1>6, WireInit DEF CountInv

LEMMA StartsCount ==
    ASSUME WireInv', Starts
    PROVE  CountInv'
<1>1. metrics' = InitialMetrics /\ inFlight' = 0 /\ shed' = 0 /\ summary' = Null
      /\ send' = [r \in Robot |-> Idle]
  BY DEF Starts
<1>2. metrics' \in Metrics /\ metrics'.peakInFlight = 0 /\ metrics'.attempted = 0
      /\ metrics'.requestsSent = 0 /\ Settled(metrics') = 0
  BY <1>1 DEF InitialMetrics, Metrics, Settled, Outcome
<1>3. {r \in Robot : Busy(r)}' = {}
  BY <1>1 DEF Busy
<1>4. CapacityComesBack'
  BY <1>1, <1>2, <1>3, FS_EmptySet, SimulatorAssumption DEF CapacityComesBack
<1>5. EveryReadingSettles'
  BY <1>1, <1>2 DEF EveryReadingSettles
<1> QED BY <1>1, <1>2, <1>4, <1>5 DEF CountInv

(* Steps that count nothing. *)
LEMMA CountUntouched ==
    ASSUME CountInv, WireInv', UNCHANGED <<send, inFlight, metrics, shed>>,
           \/ UNCHANGED <<summary, abandoned>>
              /\ (app \in {"stopped", "killed"} => app' \in {"stopped", "killed"})
           \/ summary' = metrics /\ abandoned' = inFlight /\ app' = "stopped"
    PROVE  CountInv'
<1>1. CapacityComesBack' /\ metrics' \in Metrics
  BY DEF CountInv, CapacityComesBack, Busy, Metrics
<1>2. EveryReadingSettles'
  BY DEF CountInv, EveryReadingSettles, Settled
<1>3. summary' # Null => app' \in {"stopped", "killed"}
  BY DEF CountInv
<1> QED BY <1>1, <1>2, <1>3 DEF CountInv

(* A send that is over gives its slot back and is counted. *)
LEMMA TurnCounts ==
    ASSUME CountInv, WireInv', NEW r \in Robot, Turn(r)
    PROVE  CountInv'
<1>1. send \in [Robot -> Send] /\ send[r] \in Send /\ r \in Under
  BY DEF CountInv, WireInv, SendsTyped, Turn, Under, Busy, Idle
<1>2. UNCHANGED <<shed, summary, abandoned, app>>
  BY DEF Turn
<1>3. CASE Waits(r) \/ Again(r)
  <2>1. Under' = Under
    BY <1>1, <1>3 DEF Waits, Again, Under, Busy, Idle
  <2>2. UNCHANGED <<inFlight, metrics>>
    BY <1>3 DEF Waits, Again
  <2>3. CapacityComesBack' /\ metrics' \in Metrics
    BY <2>1, <2>2 DEF CountInv, CapacityComesBack, Under, Metrics
  <2>4. EveryReadingSettles'
    BY <1>2, <2>2 DEF CountInv, EveryReadingSettles, Settled
  <2> QED BY <1>2, <2>3, <2>4 DEF CountInv
<1>4. CASE Over(r)
  <2>1. Under' = Under \ {r}
    BY <1>1, <1>4 DEF Over, Under, Busy
  <2>2. Under \in SUBSET Robot
    BY DEF Under
  <2>3. IsFiniteSet(Under) /\ Cardinality(Under) \in Nat
    BY <2>2, RobotsFinite
  <2>4. Cardinality(Under') = Cardinality(Under) - 1
    BY <1>1, <2>1, <2>3, FS_RemoveElement
  <2>5. inFlight = Cardinality(Under) /\ inFlight <= MaxInFlight
        /\ metrics.peakInFlight <= MaxInFlight
    BY DEF CountInv, CapacityComesBack, Under
  <2>6. PICK kind \in Outcome : metrics' = Recorded(kind, send[r].attempt)
    BY <1>4 DEF Over
  <2>7. send[r].attempt \in Nat
    BY <1>1 DEF Send
  <2>8. /\ metrics' \in Metrics
        /\ Settled(metrics) \in Nat /\ Settled(metrics') = Settled(metrics) + 1
        /\ metrics'.attempted = metrics.attempted
        /\ metrics'.requestsSent = metrics.requestsSent + 1
        /\ metrics'.peakInFlight = metrics.peakInFlight
    BY <2>6, <2>7, RecordedCounts DEF CountInv
  <2>9. inFlight' = inFlight - 1
    BY <1>4 DEF Over
  <2>10. CapacityComesBack'
    BY <2>3, <2>4, <2>5, <2>8, <2>9, SimulatorAssumption DEF CapacityComesBack, Under
  <2>11. EveryReadingSettles'
    BY <1>2, <2>3, <2>5, <2>8, <2>9 DEF CountInv, EveryReadingSettles
  <2> QED BY <1>2, <2>8, <2>10, <2>11 DEF CountInv
<1> QED BY <1>3, <1>4 DEF Turn

(* What a wake-up generates it starts or sheds. *)
LEMMA EmitsCounts ==
    ASSUME CountInv, ScheduleTyped, WireInv', Emits
    PROVE  CountInv'
<1>1. app = "running" /\ UNCHANGED <<summary, app>>
  BY DEF Emits, Wake, lifecycle
<1>2. summary = Null
  BY <1>1 DEF CountInv
<1>3. send \in [Robot -> Send]
  BY DEF CountInv, WireInv, SendsTyped
<1>4. /\ Under \in SUBSET Robot /\ inFlight = Cardinality(Under)
      /\ inFlight <= MaxInFlight /\ metrics.peakInFlight <= MaxInFlight
  BY DEF CountInv, CapacityComesBack, Under
<1>5. inFlight \in Nat /\ MaxInFlight \in Nat
  BY <1>4, RobotsFinite, SimulatorAssumption
<1>6. /\ Started \in SUBSET Robot /\ Started \subseteq Emitting
      /\ Emitting \in SUBSET Robot
      /\ inFlight + Cardinality(Started) <= MaxInFlight
  BY <1>4, <1>5, RoomSuffices
<1> DEFINE S == Started  E == Emitting  X == Emitting \ Started
<1>7. /\ IsFiniteSet(S) /\ Cardinality(S) \in Nat
      /\ IsFiniteSet(X) /\ Cardinality(X) \in Nat
      /\ Cardinality(E) = Cardinality(S) + Cardinality(X)
  <2>1. S \in SUBSET Robot /\ X \in SUBSET Robot /\ E = S \cup X /\ S \cap X = {}
    BY <1>6
  <2> HIDE DEF S, X, E
  <2>2. /\ IsFiniteSet(S) /\ Cardinality(S) \in Nat
        /\ IsFiniteSet(X) /\ Cardinality(X) \in Nat
    BY <2>1, RobotsFinite
  <2>3. Cardinality(S \cup X) = Cardinality(S) + Cardinality(X) - Cardinality(S \cap X)
    BY <2>2, FS_Union
  <2>4. Cardinality(S \cap X) = 0
    BY <2>1, FS_EmptySet
  <2> QED BY <2>1, <2>2, <2>3, <2>4
<1>8. Under' = Under \cup S /\ Under \cap S = {}
  <2>1. \A r \in Robot : send'[r] = IF r \in S THEN [state |-> "attempting", attempt |-> 1]
                                    ELSE send[r]
    BY DEF Emits, Wake
  <2>2. \A r \in S : ~Busy(r)
    BY <1>6 DEF Emitting
  <2> QED BY <1>6, <2>1, <2>2 DEF Under, Busy, Idle
<1>9. inFlight' = inFlight + Cardinality(S)
      /\ shed' = shed + Cardinality(X)
  BY DEF Emits, Wake
<1>10. inFlight' = Cardinality(Under')
  <2> HIDE DEF S
  <2>1. IsFiniteSet(Under)
    BY <1>4, RobotsFinite
  <2>2. Cardinality(Under \cup S)
          = Cardinality(Under) + Cardinality(S) - Cardinality(Under \cap S)
    BY <1>7, <2>1, FS_Union
  <2>3. Cardinality(Under \cap S) = 0
    BY <1>8, FS_EmptySet
  <2> QED BY <1>4, <1>5, <1>7, <1>8, <1>9, <2>2, <2>3
<1> DEFINE skipped == Cardinality(Skipped)
           late == SumFunctionOnSet([r \in Due |-> Coalesced(r)], Due)
<1>11. metrics' = [metrics EXCEPT
                     !.attempted = @ + Cardinality(E),
                     !.skippedOverdue = @ + skipped + Cardinality(X),
                     !.coalescedOverdue = @ + late,
                     !.peakInFlight = Max({@, inFlight'})]
  BY DEF Emits, Wake
<1>12. skipped \in Nat
  <2>1. Skipped \in SUBSET Robot
    BY DEF Skipped, Due
  <2> QED BY <2>1, RobotsFinite
<1>12a. late \in Nat
  <2>1. PICK f : f = [r \in Due |-> Coalesced(r)]
    OBVIOUS
  <2>2. IsFiniteSet(Due) /\ Due \in SUBSET Due
    <3>1. Due \in SUBSET Robot
      BY DEF Due
    <3> QED BY <3>1, RobotsFinite
  <2>3. \A r \in Due : f[r] \in Nat
    BY <2>1, PeriodsAreWhole
  <2> QED BY <2>1, <2>2, <2>3, SumNat
<1>13. metrics.peakInFlight \in Nat /\ inFlight' \in Nat
  BY <1>5, <1>7, <1>9 DEF CountInv, Metrics
<1>14. /\ Max({metrics.peakInFlight, inFlight'}) \in Nat
       /\ Max({metrics.peakInFlight, inFlight'}) <= MaxInFlight
  <2>1. PICK top \in {metrics.peakInFlight, inFlight'} :
           \A y \in {metrics.peakInFlight, inFlight'} : top >= y
    BY <1>13
  <2>2. Max({metrics.peakInFlight, inFlight'}) \in {metrics.peakInFlight, inFlight'}
    BY <2>1 DEF Max
  <2> QED BY <1>4, <1>5, <1>6, <1>9, <1>13, <2>2
<1> HIDE DEF S, E, X, skipped, late
<1>15. /\ metrics'.attempted = metrics.attempted + Cardinality(E)
       /\ metrics'.requestsSent = metrics.requestsSent
       /\ metrics'.outcomes = metrics.outcomes
       /\ metrics'.retriesSent = metrics.retriesSent
       /\ metrics'.skippedOverdue = metrics.skippedOverdue + skipped + Cardinality(X)
       /\ metrics'.peakInFlight = Max({metrics.peakInFlight, inFlight'})
       /\ metrics'.coalescedOverdue = metrics.coalescedOverdue + late
       /\ metrics' = [attempted |-> metrics'.attempted,
                      requestsSent |-> metrics'.requestsSent,
                      retriesSent |-> metrics'.retriesSent,
                      outcomes |-> metrics'.outcomes,
                      skippedOverdue |-> metrics'.skippedOverdue,
                      coalescedOverdue |-> metrics'.coalescedOverdue,
                      peakInFlight |-> metrics'.peakInFlight]
  BY <1>11 DEF CountInv, Metrics
<1>16. metrics' \in Metrics
  BY <1>7, <1>12, <1>12a, <1>14, <1>15 DEF CountInv, Metrics
<1>17. Settled(metrics') = Settled(metrics) /\ Settled(metrics) \in Nat
  BY <1>15 DEF CountInv, Metrics, Settled, Outcome
<1>18. CapacityComesBack'
  BY <1>5, <1>6, <1>9, <1>10, <1>14, <1>15 DEF CapacityComesBack, Under, S
<1>19. EveryReadingSettles'
  <2>1. metrics.attempted = Settled(metrics) + shed + inFlight
        /\ metrics.requestsSent = Settled(metrics) /\ shed \in Nat
    BY DEF CountInv, EveryReadingSettles
  <2>2. metrics'.attempted = Settled(metrics') + shed' + inFlight'
    BY <1>5, <1>7, <1>9, <1>15, <1>17, <2>1
  <2> QED BY <1>1, <1>2, <1>15, <1>17, <2>1, <2>2 DEF EveryReadingSettles
<1>20. shed' \in Nat
  BY <1>7, <1>9 DEF CountInv
<1> QED BY <1>1, <1>2, <1>16, <1>18, <1>19, <1>20 DEF CountInv

LEMMA CountStep ==
    CountInv /\ ScheduleTyped /\ [DeliveryNext]_deliveryVars => CountInv'
<1> SUFFICES ASSUME CountInv, ScheduleTyped, [DeliveryNext]_deliveryVars PROVE CountInv'
  OBVIOUS
<1>1. WireInv' /\ SendsTyped
  BY WireStep DEF CountInv, WireInv
<1>2. CASE UNCHANGED deliveryVars
  BY <1>1, <1>2, CountUntouched DEF deliveryVars, vars, client, lifecycle
<1>3. CASE Emits
  BY <1>1, <1>3, EmitsCounts
<1>4. CASE Passes
  BY <1>1, <1>4, CountUntouched DEF Passes, Elapse, client, lifecycle
<1>5. CASE Drains
  BY <1>1, <1>5, CountUntouched DEF Drains, DrainEnds, client
<1>6. ASSUME NEW signal \in Signal, Shuts(signal) PROVE CountInv'
  BY <1>1, <1>6, CountUntouched DEF Shuts, Signalled, client
<1>7. CASE Starts
  BY <1>1, <1>7, StartsCount
<1>8. ASSUME NEW r \in Robot, Retries(r) PROVE CountInv'
  BY <1>1, <1>8, RetryTurns, TurnCounts
<1>9. ASSUME NEW r \in Robot,
             GivesUp(r) \/ Succeeds(r) \/ Breaks(r)
               \/ \E status \in {404, 500} : Refused(r, status)
      PROVE  CountInv'
  BY <1>1, <1>9, AttemptTurns, TurnCounts
<1>10. ASSUME NEW post \in posts, Arrives(post) PROVE CountInv'
  BY <1>1, <1>10, CountUntouched DEF Arrives, vars, client, lifecycle
<1> QED BY <1>2, <1>3, <1>4, <1>5, <1>6, <1>7, <1>8, <1>9, <1>10 DEF DeliveryNext

(* However many robots are due at once and however their sends end, no     *)
(* more than the ceiling are outstanding, the count is of those that are,  *)
(* and each reading is settled once, shed, or outstanding - in the final   *)
(* summary, abandoned (ingestClient, simulatorMetrics).                    *)
LEMMA CountAlways == DeliverySpec => []CountInv
BY CountInit, CountStep, ScheduleAlways, PTL DEF DeliverySpec
-----------------------------------------------------------------------------
(* The periods of the schedule, action by action. *)

(* One more for some of the robots is as many more in all. *)
LEMMA OneMoreEach ==
    ASSUME NEW f, NEW g, NEW E \in SUBSET Robot,
           \A r \in Robot : f[r] \in Int /\ g[r] = f[r] + (IF r \in E THEN 1 ELSE 0)
    PROVE  SumFunctionOnSet(g, Robot) = SumFunctionOnSet(f, Robot) + Cardinality(E)
<1>0. IsFiniteSet(Robot)
  BY RobotsFinite
<1>1. PICK one : one = [r \in Robot |-> IF r \in E THEN 1 ELSE 0]
  OBVIOUS
<1>2. \A r \in Robot : f[r] \in Int /\ one[r] \in Int /\ g[r] = f[r] + one[r]
  BY <1>1
<1>3. SumFunctionOnSet(g, Robot)
        = SumFunctionOnSet(f, Robot) + SumFunctionOnSet(one, Robot)
  BY <1>0, <1>2, SumPlus
<1>4. \A r \in Robot : one[r] \in Int /\ (r \notin E => one[r] = 0)
  BY <1>1
<1>5. SumFunctionOnSet(one, Robot) = SumFunctionOnSet(one, E)
  BY <1>0, <1>4, SumPart
<1>6. IsFiniteSet(E) /\ \A r \in E : one[r] = 1
  BY <1>1, RobotsFinite
<1>7. SumFunctionOnSet(one, E) = Cardinality(E)
  BY <1>6, SumOnes
<1> QED BY <1>3, <1>5, <1>7

(* A wake-up moves the due robots' schedules by the periods it counts.     *)
LEMMA WakeCountsPeriods ==
    ASSUME CountInv, ScheduleTyped, NoPeriodIsLost, Emits
    PROVE  NoPeriodIsLost'
<1> DEFINE late == SumFunctionOnSet([r \in Due |-> Coalesced(r)], Due)
           emitted == Cardinality(Emitting)
           skipped == Cardinality(Skipped)
           refused == Cardinality(Emitting \ Started)
<1>0. IsFiniteSet(Robot)
  BY RobotsFinite
<1>1. /\ metrics' = [metrics EXCEPT
                       !.attempted = @ + emitted,
                       !.skippedOverdue = @ + skipped + refused,
                       !.coalescedOverdue = @ + late,
                       !.peakInFlight = Max({@, inFlight'})]
      /\ shed' = shed + refused
      /\ dropped' = dropped /\ startedAt' = startedAt
      /\ nextDue' = [r \in Robot |-> IF r \in Due THEN Advanced(r) ELSE nextDue[r]]
      /\ sequence' = [r \in Robot |-> IF r \in Emitting THEN sequence[r] + 1
                                                        ELSE sequence[r]]
  BY DEF Emits, Wake
<1>2. /\ Emitting \in SUBSET Robot /\ Skipped \in SUBSET Robot /\ Due \in SUBSET Robot
      /\ Emitting \ Started \in SUBSET Robot
      /\ Emitting \cap Skipped = {}
      /\ Emitting \cup Skipped = Due \ dropped
  BY DEF Emitting, Skipped, Due
<1>3. emitted \in Nat /\ skipped \in Nat /\ refused \in Nat
  BY <1>2, RobotsFinite
<1>4. PICK coalesced : coalesced = [r \in Due |-> Coalesced(r)]
  OBVIOUS
<1>5. /\ late = SumFunctionOnSet(coalesced, Due)
      /\ \A r \in Due : coalesced[r] \in Nat
      /\ IsFiniteSet(Due)
  BY <1>2, <1>4, PeriodsAreWhole, RobotsFinite
<1>6. late \in Nat
  <2>1. Due \in SUBSET Due
    OBVIOUS
  <2> HIDE DEF late
  <2> QED BY <1>5, <2>1, SumNat
<1> HIDE DEF late, emitted, skipped, refused
<1>7. /\ metrics'.attempted = metrics.attempted + emitted
      /\ metrics'.skippedOverdue = metrics.skippedOverdue + skipped + refused
      /\ metrics'.coalescedOverdue = metrics.coalescedOverdue + late
  BY <1>1 DEF CountInv, Metrics
<1>8. /\ metrics.attempted \in Nat /\ metrics.skippedOverdue \in Nat
      /\ metrics.coalescedOverdue \in Nat /\ shed \in Nat
      /\ sequence \in [Robot -> Nat]
  BY DEF CountInv, Metrics, WireInv, SendsTyped
<1>9. metrics'.attempted = SumFunctionOnSet(sequence', Robot)
  <2>1. PICK seq : seq = sequence
    OBVIOUS
  <2>2. PICK next : next = sequence'
    OBVIOUS
  <2>3. \A r \in Robot : /\ seq[r] \in Int
                         /\ next[r] = seq[r] + (IF r \in Emitting THEN 1 ELSE 0)
    BY <1>1, <1>8, <2>1, <2>2
  <2>4. SumFunctionOnSet(next, Robot) = SumFunctionOnSet(seq, Robot) + emitted
    BY <1>2, <2>3, OneMoreEach DEF emitted
  <2> QED BY <1>7, <2>1, <2>2, <2>4 DEF NoPeriodIsLost
<1>10. ASSUME dropped = {}
       PROVE  SumFunctionOnSet(Passed', Robot)
                = Period * (metrics'.attempted + (metrics'.skippedOverdue - shed')
                              + metrics'.coalescedOverdue)
  <2>1. PICK before : before = Passed
    OBVIOUS
  <2>2. PICK after : after = Passed'
    OBVIOUS
  <2>3. PICK step : step = [r \in Robot |-> IF r \in Due THEN 1 + coalesced[r] ELSE 0]
    OBVIOUS
  <2>4. PICK moved : moved = [r \in Robot |-> Period * step[r]]
    OBVIOUS
  <2>5. Period \in Nat /\ Period \in Int
    BY SimulatorAssumption
  <2>6. ASSUME NEW r \in Robot
        PROVE  /\ before[r] \in Int /\ step[r] \in Int /\ moved[r] \in Int
               /\ after[r] = before[r] + moved[r]
    <3>1. /\ Offset(r) \in Nat /\ nextDue[r] \in Nat /\ startedAt \in Nat
          /\ step[r] \in Nat
      BY <1>5, <2>3, OffsetIsNatural DEF ScheduleTyped
    <3>2. \A a, b \in Nat : a * b \in Nat
      OBVIOUS
    <3>3. moved[r] \in Nat /\ moved[r] = Period * step[r]
      BY <2>4, <2>5, <3>1, <3>2
    <3>4. /\ before[r] = nextDue[r] - startedAt - Offset(r)
          /\ after[r] = nextDue'[r] - startedAt - Offset(r)
      BY <1>1, <2>1, <2>2 DEF Passed, Offset
    <3>5. nextDue'[r] = nextDue[r] + moved[r]
      <4>1. CASE r \in Due
        <5>1. /\ Advanced(r) \in Nat
              /\ Advanced(r) - nextDue[r] = Period * (1 + Coalesced(r))
          BY <4>1, PeriodsAreWhole
        <5>2. nextDue'[r] = Advanced(r) /\ step[r] = 1 + Coalesced(r)
          BY <1>1, <1>4, <2>3, <4>1
        <5> QED BY <3>1, <3>3, <5>1, <5>2
      <4>2. CASE r \notin Due
        <5>1. nextDue'[r] = nextDue[r] /\ step[r] = 0
          BY <1>1, <2>3, <4>2
        <5> QED BY <2>5, <3>1, <3>3, <5>1
      <4> QED BY <4>1, <4>2
    <3> QED BY <3>1, <3>3, <3>4, <3>5
  <2>7. /\ SumFunctionOnSet(before, Robot) \in Int
        /\ SumFunctionOnSet(after, Robot)
             = SumFunctionOnSet(before, Robot) + SumFunctionOnSet(moved, Robot)
    BY <1>0, <2>6, SumPlus
  <2>8. /\ SumFunctionOnSet(step, Robot) \in Int
        /\ SumFunctionOnSet(moved, Robot) = Period * SumFunctionOnSet(step, Robot)
    <3>1. \A r \in Robot : step[r] \in Int /\ moved[r] = Period * step[r]
      BY <2>4, <2>6
    <3> QED BY <2>5, <3>1, <1>0, SumTimes
  <2>9. SumFunctionOnSet(step, Robot) = Cardinality(Due) + late
    <3>1. \A r \in Robot : step[r] \in Int /\ (r \notin Due => step[r] = 0)
      BY <2>3, <2>6
    <3>2. SumFunctionOnSet(step, Robot) = SumFunctionOnSet(step, Due)
      BY <1>2, <3>1, <1>0, SumPart
    <3>3. PICK ones : ones = [r \in Due |-> 1]
      OBVIOUS
    <3>4. \A r \in Due : /\ ones[r] \in Int /\ coalesced[r] \in Int
                         /\ step[r] = ones[r] + coalesced[r]
      BY <1>2, <1>5, <2>3, <3>3
    <3>5. SumFunctionOnSet(step, Due)
            = SumFunctionOnSet(ones, Due) + SumFunctionOnSet(coalesced, Due)
      BY <1>5, <3>4, SumPlus
    <3>6. SumFunctionOnSet(ones, Due) = Cardinality(Due)
      BY <1>5, <3>3, SumOnes
    <3> QED BY <1>5, <3>2, <3>5, <3>6
  <2>10. Cardinality(Due) = emitted + skipped
    <3>1. Due = Emitting \cup Skipped
      BY <1>2, <1>10
    <3>2. IsFiniteSet(Emitting) /\ IsFiniteSet(Skipped)
      BY <1>2, RobotsFinite
    <3>3. Cardinality(Emitting \cup Skipped)
            = Cardinality(Emitting) + Cardinality(Skipped)
                - Cardinality(Emitting \cap Skipped)
      BY <3>2, FS_Union
    <3>4. Cardinality(Emitting \cap Skipped) = 0
      BY <1>2, FS_EmptySet
    <3> QED BY <1>3, <3>1, <3>3, <3>4 DEF emitted, skipped
  <2>11. SumFunctionOnSet(before, Robot)
           = Period * (metrics.attempted + (metrics.skippedOverdue - shed)
                         + metrics.coalescedOverdue)
    BY <1>10, <2>1 DEF NoPeriodIsLost
  <2>12. PICK a \in Int : a = metrics.attempted + (metrics.skippedOverdue - shed)
                                + metrics.coalescedOverdue
    BY <1>8
  <2>13. PICK b \in Int : b = emitted + skipped + late
    BY <1>3, <1>6
  <2>14. a + b = metrics'.attempted + (metrics'.skippedOverdue - shed')
                   + metrics'.coalescedOverdue
    BY <1>1, <1>3, <1>6, <1>7, <1>8, <2>12, <2>13
  <2>15. SumFunctionOnSet(after, Robot) = Period * a + Period * b
    BY <2>7, <2>8, <2>9, <2>10, <2>11, <2>12, <2>13
  <2>16. \A c, x, y \in Int : c * x + c * y = c * (x + y)
    OBVIOUS
  <2> QED BY <2>2, <2>5, <2>14, <2>15, <2>16
<1> QED BY <1>1, <1>9, <1>10 DEF NoPeriodIsLost

(* A process that starts has let no period pass. *)
LEMMA FreshPeriods ==
    ASSUME NEW seq, NEW passed, \A r \in Robot : seq[r] = 0 /\ passed[r] = 0
    PROVE  SumFunctionOnSet(seq, Robot) = 0 /\ SumFunctionOnSet(passed, Robot) = 0
<1>1. IsFiniteSet(Robot)
  BY RobotsFinite
<1>2. SumFunctionOnSet(seq, Robot) = 0
  BY <1>1, SumZero
<1>3. SumFunctionOnSet(passed, Robot) = 0
  BY <1>1, SumZero
<1> QED BY <1>2, <1>3

LEMMA PeriodsInit == DeliveryInit => NoPeriodIsLost
<1> SUFFICES ASSUME DeliveryInit PROVE NoPeriodIsLost
  OBVIOUS
<1>1. /\ metrics.attempted = 0 /\ metrics.skippedOverdue = 0
      /\ metrics.coalescedOverdue = 0 /\ shed = 0
  BY DEF DeliveryInit, Init, InitialMetrics
<1>2. \A r \in Robot : sequence[r] = 0 /\ Passed[r] = 0
  BY OffsetIsNatural DEF DeliveryInit, Init, Passed
<1>3. SumFunctionOnSet(sequence, Robot) = 0 /\ SumFunctionOnSet(Passed, Robot) = 0
  BY <1>2, FreshPeriods
<1> QED BY <1>1, <1>3, SimulatorAssumption DEF NoPeriodIsLost

LEMMA StartsPeriods ==
    ASSUME ScheduleTyped, Starts
    PROVE  NoPeriodIsLost'
<1>1. /\ metrics'.attempted = 0 /\ metrics'.skippedOverdue = 0
      /\ metrics'.coalescedOverdue = 0 /\ shed' = 0
  BY DEF Starts, InitialMetrics
<1>2. PICK seq : seq = sequence'
  OBVIOUS
<1>3. PICK passed : passed = Passed'
  OBVIOUS
<1>4. \A r \in Robot : seq[r] = 0
  BY <1>2 DEF Starts
<1>5. ASSUME NEW r \in Robot PROVE passed[r] = 0
  <2>1. passed[r] = nextDue'[r] - startedAt' - Offset(r)
    BY <1>3 DEF Passed, Offset
  <2>2. nextDue'[r] = elapsed + Offset(r) /\ startedAt' = elapsed
    BY DEF Starts
  <2>3. elapsed \in Nat /\ Offset(r) \in Nat
    BY OffsetIsNatural DEF ScheduleTyped
  <2> QED BY <2>1, <2>2, <2>3
<1>6. SumFunctionOnSet(seq, Robot) = 0 /\ SumFunctionOnSet(passed, Robot) = 0
  BY <1>4, <1>5, FreshPeriods
<1> QED BY <1>1, <1>2, <1>3, <1>6, SimulatorAssumption DEF NoPeriodIsLost

(* Steps that neither generate a reading nor move a schedule.              *)
LEMMA PeriodsUntouched ==
    ASSUME NoPeriodIsLost, UNCHANGED <<startedAt, nextDue, dropped, sequence, shed>>,
           metrics'.attempted = metrics.attempted,
           metrics'.skippedOverdue = metrics.skippedOverdue,
           metrics'.coalescedOverdue = metrics.coalescedOverdue
    PROVE  NoPeriodIsLost'
<1>1. Passed' = Passed
  BY DEF Passed, Offset
<1> QED BY <1>1 DEF NoPeriodIsLost

LEMMA TurnPassesNothing ==
    ASSUME CountInv, NoPeriodIsLost, NEW r \in Robot, Turn(r),
           UNCHANGED schedule
    PROVE  NoPeriodIsLost'
<1>1. /\ metrics'.attempted = metrics.attempted
      /\ metrics'.skippedOverdue = metrics.skippedOverdue
      /\ metrics'.coalescedOverdue = metrics.coalescedOverdue
  BY DEF Turn, Over, Waits, Again, Recorded, CountInv, Metrics
<1> QED BY <1>1, PeriodsUntouched DEF Turn, schedule

LEMMA PeriodsStep ==
    ASSUME CountInv, ScheduleTyped, NoPeriodIsLost, [DeliveryNext]_deliveryVars
    PROVE  NoPeriodIsLost'
<1>1. SendsTyped
  BY DEF CountInv, WireInv
<1>2. CASE Emits
  BY <1>2, WakeCountsPeriods
<1>3. CASE Starts
  BY <1>3, StartsPeriods
<1>4. CASE UNCHANGED deliveryVars \/ Passes \/ Drains
           \/ (\E signal \in Signal : Shuts(signal))
           \/ (\E post \in posts : Arrives(post))
  BY <1>4, PeriodsUntouched
     DEF deliveryVars, vars, Passes, Elapse, Drains, DrainEnds, Shuts, Signalled,
         Arrives, schedule, client
<1>5. ASSUME NEW r \in Robot,
             Retries(r) \/ GivesUp(r) \/ Succeeds(r) \/ Breaks(r)
               \/ \E status \in {404, 500} : Refused(r, status)
      PROVE  NoPeriodIsLost'
  <2>1. UNCHANGED schedule
    BY <1>5 DEF Retries, BackoffEnds, GivesUp, TimesOut, Cancelled, Succeeds,
                Breaks, Unanswered, Refused, Answered, Kept
  <2>2. Turn(r)
    BY <1>1, <1>5, AttemptTurns, RetryTurns
  <2> QED BY <2>1, <2>2, TurnPassesNothing
<1> QED BY <1>2, <1>3, <1>4, <1>5 DEF DeliveryNext

(* However late wake-ups come and however many robots they find busy or    *)
(* over the ceiling, each reading generated and each period that came due  *)
(* is in exactly one of the counters the simulator reports                 *)
(* (emissionScheduler, simulatorMetrics).                                  *)
THEOREM DeliveryAccounts == DeliverySpec => []ReadingsAccounted
<1>1. DeliverySpec => []CountInv
  BY CountAlways
<1>2. CountInv /\ ScheduleTyped /\ NoPeriodIsLost /\ [DeliveryNext]_deliveryVars
        => NoPeriodIsLost'
  BY PeriodsStep
<1>3. DeliverySpec => []NoPeriodIsLost
  BY <1>1, <1>2, PeriodsInit, ScheduleAlways, PTL DEF DeliverySpec
<1>4. CountInv /\ NoPeriodIsLost => ReadingsAccounted
  BY DEF CountInv, ReadingsAccounted
<1> QED BY <1>1, <1>3, <1>4, PTL
-----------------------------------------------------------------------------
(* Types of what the proofs above do not speak of.                         *)
RestTyped ==
    /\ faults \in Nat
    /\ run \in 1..MaxRuns
    /\ dropped \subseteq Robot
    /\ handlers \subseteq Signal
    /\ summary \in Metrics \cup {Null}
    /\ abandoned \in Nat

LEMMA RestStep ==
    ASSUME CountInv, RestTyped, [DeliveryNext]_deliveryVars
    PROVE  RestTyped'
<1>1. inFlight \in Nat /\ metrics \in Metrics
  <2>1. inFlight = Cardinality({r \in Robot : Busy(r)})
    BY DEF CountInv, CapacityComesBack
  <2> QED BY <2>1, RobotsFinite DEF CountInv
<1>2. Droppable \subseteq Robot /\ MaxRuns \in Nat /\ run \in Nat
  BY SimulatorAssumption, DeliveryAssumption DEF Robot, RestTyped
<1>3. CASE UNCHANGED deliveryVars
  BY <1>3 DEF deliveryVars, vars, schedule, lifecycle, RestTyped
<1>4. CASE Emits \/ Passes
  BY <1>4 DEF Emits, Wake, Passes, Elapse, lifecycle, RestTyped
<1>5. CASE Drains
  BY <1>1, <1>5 DEF Drains, DrainEnds, schedule, RestTyped
<1>6. ASSUME NEW signal \in Signal, Shuts(signal) PROVE RestTyped'
  BY <1>6 DEF Shuts, Signalled, schedule, RestTyped
<1>7. CASE Starts
  <2>1. run' \in 1..MaxRuns
    BY <1>2, <1>7 DEF Starts, RestTyped
  <2> QED BY <1>2, <1>7, <2>1 DEF Starts, RestTyped
<1>8. ASSUME NEW r \in Robot,
             Retries(r) \/ GivesUp(r) \/ Succeeds(r) \/ Breaks(r)
               \/ \E status \in {404, 500} : Refused(r, status)
      PROVE  RestTyped'
  <2>1. UNCHANGED <<run, schedule, lifecycle>>
    BY <1>8 DEF Retries, BackoffEnds, GivesUp, TimesOut, Cancelled, Succeeds,
                Breaks, Unanswered, Refused, Answered, Kept
  <2>2. faults' = faults \/ faults' = faults + 1
    BY <1>8 DEF Retries, GivesUp, Succeeds, Breaks, Refused, Fault
  <2> QED BY <2>1, <2>2 DEF schedule, lifecycle, RestTyped
<1>9. ASSUME NEW post \in posts, Arrives(post) PROVE RestTyped'
  BY <1>9 DEF Arrives, vars, schedule, lifecycle, RestTyped
<1> QED BY <1>3, <1>4, <1>5, <1>6, <1>7, <1>8, <1>9 DEF DeliveryNext

(* The simulator, the requests on their way and the server's slots keep    *)
(* their types, for any fleet and through any number of restarts.          *)
THEOREM DeliveryTypes == DeliverySpec => []DeliveryTypeOK
<1>1. DeliveryInit => RestTyped
  BY SimulatorAssumption, DeliveryAssumption DEF DeliveryInit, Init, RestTyped, Robot
<1>2. CountInv /\ RestTyped /\ [DeliveryNext]_deliveryVars => RestTyped'
  BY RestStep
<1>3. CountInv /\ RestTyped /\ ScheduleTyped => DeliveryTypeOK
  <2> SUFFICES ASSUME CountInv, RestTyped, ScheduleTyped PROVE DeliveryTypeOK
    OBVIOUS
  <2>1. inFlight \in Nat
    <3>1. inFlight = Cardinality({r \in Robot : Busy(r)})
      BY DEF CountInv, CapacityComesBack
    <3> QED BY <3>1, RobotsFinite
  <2>2. TypeOK
    BY <2>1 DEF CountInv, WireInv, SendsTyped, RestTyped, ScheduleTyped, TypeOK
  <2> QED BY <2>2 DEF CountInv, WireInv, SendsTyped, ServerTyped, RestTyped, DeliveryTypeOK
<1> QED BY <1>1, <1>2, <1>3, CountAlways, ScheduleAlways, PTL DEF DeliverySpec
-----------------------------------------------------------------------------
(* What the end of a shutdown rests on.  A process that has stopped with   *)
(* sends outstanding has aborted them, and one of them is there to settle. *)
StopAborts == app = "stopped" => aborted \/ inFlight = 0

StopsOrAborts ==
    app = "stopped" /\ inFlight > 0 => aborted /\ \E r \in Robot : Busy(r)

(* A send that was aborted does nothing but settle. *)
AbortedOnlySettle ==
    [][run' = run /\ aborted =>
         \A r \in Robot : send'[r] = send[r] \/ (Busy(r) /\ send'[r] = Idle)]_deliveryVars

LEMMA NobodyBusy ==
    ASSUME CountInv, inFlight = 0
    PROVE  \A r \in Robot : ~Busy(r)
<1> DEFINE Sending == {r \in Robot : Busy(r)}
<1>1. Cardinality(Sending) = 0 /\ Sending \in SUBSET Robot
  BY DEF CountInv, CapacityComesBack
<1>2. IsFiniteSet(Sending)
  BY <1>1, RobotsFinite, FS_Subset
<1>3. Sending = {}
  BY <1>1, <1>2, FS_EmptySet
<1> QED BY <1>3

(* A turn is one of a send under way, which leaves the process as it is.   *)
LEMMA TurnStopAborts ==
    ASSUME CountInv, StopAborts, NEW r \in Robot, Turn(r)
    PROVE  StopAborts'
<1>1. Busy(r)
  BY DEF Turn, Busy, Idle
<1>2. inFlight # 0
  BY <1>1, NobodyBusy
<1> QED BY <1>2 DEF StopAborts, Turn

LEMMA StopStep ==
    ASSUME CountInv, StopAborts, [DeliveryNext]_deliveryVars
    PROVE  StopAborts'
<1>1. SendsTyped /\ inFlight \in Nat
  <2>1. inFlight = Cardinality({r \in Robot : Busy(r)})
    BY DEF CountInv, CapacityComesBack
  <2> QED BY <2>1, RobotsFinite DEF CountInv, WireInv
<1>2. CASE UNCHANGED deliveryVars
  BY <1>2 DEF deliveryVars, vars, lifecycle, client, StopAborts
<1>3. CASE Emits
  BY <1>3 DEF Emits, Wake, lifecycle, StopAborts
<1>4. CASE Passes
  BY <1>4 DEF Passes, Elapse, lifecycle, client, StopAborts
<1>5. CASE Drains
  <2>1. aborted' <=> inFlight > 0
    BY <1>5 DEF Drains, DrainEnds
  <2>2. inFlight' = inFlight
    BY <1>5 DEF Drains, DrainEnds, client
  <2>3. inFlight > 0 \/ inFlight' = 0
    BY <1>1, <2>2
  <2> QED BY <2>1, <2>3 DEF StopAborts
<1>6. ASSUME NEW signal \in Signal, Shuts(signal) PROVE StopAborts'
  BY <1>6 DEF Shuts, Signalled, client, StopAborts
<1>7. CASE Starts
  BY <1>7 DEF Starts, StopAborts
<1>8. ASSUME NEW r \in Robot,
             Retries(r) \/ GivesUp(r) \/ Succeeds(r) \/ Breaks(r)
               \/ \E status \in {404, 500} : Refused(r, status)
      PROVE  StopAborts'
  <2>1. Turn(r)
    BY <1>1, <1>8, RetryTurns, AttemptTurns
  <2> QED BY <2>1, TurnStopAborts
<1>9. ASSUME NEW post \in posts, Arrives(post) PROVE StopAborts'
  BY <1>9 DEF Arrives, vars, lifecycle, client, StopAborts
<1> QED BY <1>2, <1>3, <1>4, <1>5, <1>6, <1>7, <1>8, <1>9 DEF DeliveryNext

(* StopsOrAborts: what is still outstanding when the process has stopped   *)
(* was aborted (ingestClient's abortAll after drain's deadline), so that a *)
(* send is there whose next turn ends it.  ShutdownEnds rests on it.       *)
THEOREM DeliveryStopsOrAborts == DeliverySpec => []StopsOrAborts
<1>1. DeliveryInit => StopAborts
  BY DEF DeliveryInit, Init, StopAborts
<1>2. CountInv /\ StopAborts /\ [DeliveryNext]_deliveryVars => StopAborts'
  BY StopStep
<1>3. CountInv /\ StopAborts => StopsOrAborts
  <2> SUFFICES ASSUME CountInv, StopAborts, app = "stopped", inFlight > 0
               PROVE  aborted /\ \E r \in Robot : Busy(r)
    BY DEF StopsOrAborts
  <2>1. aborted
    BY DEF StopAborts
  <2>2. ASSUME \A r \in Robot : ~Busy(r) PROVE FALSE
    <3>1. {r \in Robot : Busy(r)} = {}
      BY <2>2
    <3>2. inFlight = 0
      BY <3>1, FS_EmptySet DEF CountInv, CapacityComesBack
    <3> QED BY <3>2
  <2> QED BY <2>1, <2>2
<1> QED BY <1>1, <1>2, <1>3, CountAlways, PTL DEF DeliverySpec

LEMMA AbortedTurn ==
    ASSUME WireInv, aborted, NEW q \in Robot,
           Retries(q) \/ GivesUp(q) \/ Succeeds(q) \/ Breaks(q)
             \/ \E status \in {404, 500} : Refused(q, status)
    PROVE  Busy(q) /\ send' = [send EXCEPT ![q] = Idle]
<1>1. CASE Retries(q)
  BY <1>1 DEF Retries, BackoffEnds, Settle, Busy, Idle
<1>2. CASE GivesUp(q)
  <2>1. Attempting(q) /\ Ends(q, "cancelled")
    BY <1>2 DEF GivesUp, TimesOut, Cancelled
  <2>2. "cancelled" \notin Retryable
    BY DEF Retryable
  <2> QED BY <2>1, <2>2 DEF Ends, Settle, Attempting, Busy, Idle
<1>3. ~(Succeeds(q) \/ Breaks(q) \/ \E status \in {404, 500} : Refused(q, status))
  BY DEF Succeeds, Breaks, Refused, Answered, Unanswered
<1> QED BY <1>1, <1>2, <1>3

(* AbortedOnlySettle: once shutdown has aborted, no answer, timeout or end *)
(* of a backoff does anything to a send but settle it: there is no further *)
(* attempt to wait for (ingestClient's looks at the shutdown signal).      *)
THEOREM DeliveryAbortedSettle == DeliverySpec => AbortedOnlySettle
<1> DEFINE Settles == run' = run /\ aborted =>
        \A r \in Robot : send'[r] = send[r] \/ (Busy(r) /\ send'[r] = Idle)
<1>1. WireInv /\ [DeliveryNext]_deliveryVars => [Settles]_deliveryVars
  <2> SUFFICES ASSUME WireInv, DeliveryNext, run' = run, aborted,
                      NEW r \in Robot
               PROVE  send'[r] = send[r] \/ (Busy(r) /\ send'[r] = Idle)
    OBVIOUS
  <2>1. app # "running" /\ send \in [Robot -> Send] /\ run \in Nat
    BY DEF WireInv, SendsTyped
  <2>2. ~Emits /\ ~Starts
    BY <2>1 DEF Emits, Wake, Starts
  <2>3. CASE Passes \/ Drains \/ \E signal \in Signal : Shuts(signal)
    <3>1. Aside
      BY <2>3, AsideStep DEF WireInv
    <3> QED BY <3>1 DEF Aside, client
  <2>4. ASSUME NEW q \in Robot,
               Retries(q) \/ GivesUp(q) \/ Succeeds(q) \/ Breaks(q)
                 \/ \E status \in {404, 500} : Refused(q, status)
        PROVE  send'[r] = send[r] \/ (Busy(r) /\ send'[r] = Idle)
    <3>1. Busy(q) /\ send' = [send EXCEPT ![q] = Idle]
      BY <2>4, AbortedTurn
    <3> QED BY <2>1, <3>1
  <2>5. ASSUME NEW post \in posts, Arrives(post) PROVE send'[r] = send[r]
    BY <2>5 DEF Arrives, vars, client
  <2> QED BY <2>2, <2>3, <2>4, <2>5 DEF DeliveryNext
<1>2. DeliverySpec => [][Settles]_deliveryVars
  BY <1>1, WireAlways, PTL DEF DeliverySpec
<1> QED BY <1>2 DEF AbortedOnlySettle
===============================================================================
