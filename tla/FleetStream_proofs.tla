-------------------------- MODULE FleetStream_proofs --------------------------
(***************************************************************************)
(* The console's stream.  First its transport, for any network, frames and *)
(* bounds: it holds one attempt at a time, its banner and its resource     *)
(* tell the truth about it, and it stops and starts only as documented.    *)
(*                                                                         *)
(* Then the transport with a real server, for any fleet, number of         *)
(* restarts and interleaving: the rows a console shows are states the      *)
(* server had and only move forward, and no update is lost between the     *)
(* snapshot, the buffer, the wire and the server.                          *)
(***************************************************************************)
EXTENDS FleetStream, FoldTheorems, SequenceTheorems

-----------------------------------------------------------------------------
(* The transport. *)

(* Max of a bounded nonempty set is its greatest element. *)
LEMMA MaxIsGreatest ==
    ASSUME NEW n \in Nat, NEW S \in SUBSET (0..n), S # {}
    PROVE  Max(S) \in S /\ \A y \in S : y <= Max(S)
<1> DEFINE Below == {n - i : i \in S}
<1>1. ASSUME NEW i \in S PROVE n - i \in Nat
  OBVIOUS
<1>2. Below \in SUBSET Nat /\ Below # {}
  BY <1>1
<1> HIDE DEF Below
<1>3. PICK x \in Below : \A y \in Below : x <= y
  BY <1>2, LeastNatural
<1>4. PICK m \in S : x = n - m
  BY DEF Below
<1>5. \A y \in S : m >= y
  <2> TAKE y \in S
  <2>1. n - y \in Below
    BY DEF Below
  <2> QED BY <2>1, <1>3, <1>4
<1> QED BY <1>5 DEF Max
-----------------------------------------------------------------------------
(* Rows with frames overlaid are rows. *)
LEMMA OverlayType ==
    ASSUME NEW rows \in Rows, NEW batches \in Seq(Message),
           NEW at \in SUBSET (DOMAIN batches)
    PROVE  Overlay(rows, batches, at) \in Rows
<1> SUFFICES ASSUME NEW r \in Robot, Naming(batches, at, r) # {}
             PROVE  batches[Max(Naming(batches, at, r))].rows[r] \in Nat \cup {Null}
  BY DEF Overlay, Rows
<1>1. Naming(batches, at, r) \in SUBSET (0..Len(batches))
  BY DEF Naming
<1>2. Max(Naming(batches, at, r)) \in DOMAIN batches
  <2>1. Max(Naming(batches, at, r)) \in Naming(batches, at, r)
    BY <1>1, MaxIsGreatest, LenProperties
  <2> QED BY <2>1 DEF Naming
<1>3. batches[Max(Naming(batches, at, r))] \in Message
  BY <1>2
<1> QED BY <1>3 DEF Message, Rows

LEMMA CausesAreNotNull == \A cause \in TerminalCause : cause # Null
BY NullAssumption

LEMMA InitialClientType == InitialClient \in Client
BY DEF InitialClient, InitialStreamState, InitialStore, Client, StreamState,
       StreamPhase, StoreState, ResourcePhase, Rows

(* The stream's transitions stay in its states. *)
LEMMA StreamTransitions ==
    ASSUME NEW s \in StreamState
    PROVE  /\ AfterConnect(s) \in StreamState
           /\ AfterOpen(s) \in StreamState
           /\ AfterJoined(s) \in StreamState
           /\ AfterClose(s) \in StreamState
           /\ \A cause \in TerminalCause : AfterGiveUp(s, cause) \in StreamState
<1>1. TryingPhase(s) \in StreamPhase
  BY DEF TryingPhase, StreamPhase
<1>2. AfterConnect(s) \in StreamState
  <2>1. s.attempt + 1 \in Nat
    BY DEF StreamState
  <2> QED BY <1>1, <2>1 DEF AfterConnect, StreamState
<1>3. AfterOpen(s) \in StreamState
  BY DEF AfterOpen, StreamState, StreamPhase
<1>4. AfterJoined(s) \in StreamState
  BY DEF AfterJoined, StreamState
<1>5. AfterClose(s) \in StreamState
  BY <1>1 DEF AfterClose, StreamState
<1>6. \A cause \in TerminalCause : AfterGiveUp(s, cause) \in StreamState
  BY DEF AfterGiveUp, StreamState, StreamPhase
<1> QED BY <1>2, <1>3, <1>4, <1>5, <1>6

(* What the resource does when the stream moves: rows are never touched. *)
LEMMA FollowFields ==
    ASSUME NEW st \in StoreState, NEW s \in StreamState
    PROVE  /\ Follow(st, s) \in StoreState
           /\ Follow(st, s).rows = st.rows
           /\ Follow(st, s).held = st.held
           /\ s.phase \in {"connecting", "reconnecting"} =>
                 Follow(st, s).phase \in {"loading", "refreshing"}
           /\ s.phase = "failed" /\ s.cause # "contract" =>
                 Follow(st, s).phase = "recoverable-error"
           /\ s.phase \in {"idle", "connected"} => Follow(st, s) = st
           /\ s.cause = "contract" /\ s.phase = "failed" => Follow(st, s) = st
BY DEF StreamState, StreamPhase, StoreState, ResourcePhase, Follow,
       SnapshotStart, RecoverableFailure

LEMMA AdvanceFields ==
    ASSUME NEW c \in Client, NEW s \in StreamState
    PROVE  /\ Advance(c, s) \in Client
           /\ Advance(c, s) = [c EXCEPT !.stream = s,
                                        !.store = Follow(c.store, s)]
BY FollowFields DEF Advance, Client

(* What no close, failure or start touches of another operator's concern.  *)
SameCounts(c, d) ==
    /\ d.everOpened = c.everOpened
    /\ d.probeFailures = c.probeFailures
    /\ d.failedAttempts = c.failedAttempts

SameJoin(c, d) ==
    d.epoch = c.epoch /\ d.settled = c.settled /\ d.buffered = c.buffered

SameBrowser(c, d) ==
    /\ d.opening = c.opening /\ d.open = c.open
    /\ d.closing = c.closing /\ d.fetches = c.fetches

(* d has hung up the socket c held, if it held one. *)
HungUp(c, d) ==
    /\ d.generation = c.generation + 1 /\ d.socket = Null
    /\ d.opening = c.opening \ {c.socket}
    /\ d.open = c.open \ {c.socket}
    /\ d.closing = c.closing \cup ({c.socket} \ {Null})
    /\ d.fetches = c.fetches

LEMMA CloseFields ==
    ASSUME NEW c \in Client, NEW d, d = CloseSocketSilently(c)
    PROVE  /\ d \in Client
           /\ HungUp(c, d) /\ SameCounts(c, d) /\ SameJoin(c, d)
           /\ d.stream = c.stream /\ d.store = c.store /\ d.retry = c.retry
<1>1. /\ c.generation + 1 \in Nat
      /\ c.opening \ {c.socket} \in SUBSET Nat
      /\ c.open \ {c.socket} \in SUBSET Nat
      /\ c.closing \cup ({c.socket} \ {Null}) \in SUBSET Nat
  BY DEF Client
<1>2. CloseSocketSilently(c) \in Client
  BY <1>1 DEF CloseSocketSilently, Client
<1> QED BY <1>2 DEF CloseSocketSilently, Client, HungUp, SameCounts, SameJoin

LEMMA GiveUpFields ==
    ASSUME NEW c \in Client, NEW cause \in TerminalCause,
           NEW d, d = GiveUp(c, cause)
    PROVE  /\ d \in Client
           /\ HungUp(c, d) /\ SameCounts(c, d) /\ SameJoin(c, d)
           /\ d.stream = AfterGiveUp(c.stream, cause)
           /\ d.store = Follow(c.store, d.stream)
           /\ ~d.retry
<1> DEFINE b == [c EXCEPT !.retry = FALSE]
           e == CloseSocketSilently(b)
           s == AfterGiveUp(c.stream, cause)
<1>1. b \in Client /\ s \in StreamState
  BY StreamTransitions DEF Client
<1>2. /\ b.generation = c.generation /\ b.socket = c.socket
      /\ b.stream = c.stream /\ b.store = c.store /\ ~b.retry
      /\ SameCounts(c, b) /\ SameJoin(c, b) /\ SameBrowser(c, b)
  BY DEF Client, SameCounts, SameJoin, SameBrowser
<1> HIDE DEF b
<1>3. /\ e \in Client /\ HungUp(c, e) /\ SameCounts(c, e) /\ SameJoin(c, e)
      /\ e.stream = c.stream /\ e.store = c.store /\ ~e.retry
  <2>1. /\ e \in Client /\ HungUp(b, e) /\ SameCounts(b, e) /\ SameJoin(b, e)
        /\ e.stream = b.stream /\ e.store = b.store /\ e.retry = b.retry
    BY <1>1, CloseFields
  <2> HIDE DEF e
  <2> QED BY <1>2, <2>1 DEF HungUp, SameCounts, SameJoin, SameBrowser
<1>4. d = Advance(e, s)
  BY DEF GiveUp, b
<1> HIDE DEF e, s
<1>5. d \in Client /\ d = [e EXCEPT !.stream = s, !.store = Follow(e.store, s)]
  BY <1>1, <1>3, <1>4, AdvanceFields
<1>6. /\ HungUp(c, d) /\ SameCounts(c, d) /\ SameJoin(c, d)
      /\ d.stream = s /\ d.store = Follow(c.store, s) /\ ~d.retry
  BY <1>3, <1>5 DEF Client, HungUp, SameCounts, SameJoin
<1> QED BY <1>5, <1>6 DEF s
(* A failed attempt of a client that holds no socket: it will be tried     *)
(* again, or, never having opened, the cap is reached.                     *)
LEMMA FailureFields ==
    ASSUME NEW c \in Client, c.socket = Null,
           NEW d, d = HandleAttemptFailure(c)
    PROVE  /\ d \in Client /\ d.socket = Null
           /\ SameJoin(c, d) /\ SameBrowser(c, d)
           /\ d.everOpened = c.everOpened
           /\ d.failedAttempts = c.failedAttempts + 1
           /\ d.probeFailures = IF c.everOpened THEN c.probeFailures
                                ELSE c.probeFailures + 1
           /\ IF /\ ~c.everOpened
                 /\ c.probeFailures + 1 >= InitialProbeAttemptLimit
              THEN /\ d.generation = c.generation + 2 /\ ~d.retry
                   /\ d.stream = AfterGiveUp(AfterClose(c.stream),
                                             "handshake-exhausted")
                   /\ d.store.phase = "recoverable-error"
              ELSE /\ d.generation = c.generation + 1 /\ d.retry
                   /\ d.stream = AfterClose(c.stream)
                   /\ d.store.phase \in {"loading", "refreshing"}
           /\ d.store.rows = c.store.rows
<1> DEFINE b == [c EXCEPT !.generation = @ + 1, !.failedAttempts = @ + 1,
                          !.probeFailures = IF c.everOpened THEN @ ELSE @ + 1]
           s == AfterClose(c.stream)
           e == Advance(b, s)
<1>1. b \in Client /\ s \in StreamState
  <2>1. /\ c.generation + 1 \in Nat /\ c.failedAttempts + 1 \in Nat
        /\ (IF c.everOpened THEN c.probeFailures ELSE c.probeFailures + 1) \in Nat
    BY DEF Client
  <2>2. b \in Client
    BY <2>1 DEF Client
  <2> QED BY <2>2, StreamTransitions DEF Client
<1>2. /\ b.generation = c.generation + 1 /\ b.socket = Null
      /\ b.stream = c.stream /\ b.store = c.store
      /\ b.everOpened = c.everOpened
      /\ b.failedAttempts = c.failedAttempts + 1
      /\ b.probeFailures = IF c.everOpened THEN c.probeFailures
                           ELSE c.probeFailures + 1
      /\ SameJoin(c, b) /\ SameBrowser(c, b)
  BY DEF Client, SameJoin, SameBrowser
<1> HIDE DEF b
<1>3. e \in Client /\ e = [b EXCEPT !.stream = s, !.store = Follow(b.store, s)]
  BY <1>1, AdvanceFields
<1>4. s.phase \in {"connecting", "reconnecting"}
  BY DEF AfterClose, TryingPhase, Client, StreamState
<1>5. /\ e.generation = c.generation + 1 /\ e.socket = Null
      /\ e.stream = s /\ e.store = Follow(c.store, s)
      /\ e.everOpened = c.everOpened
      /\ e.failedAttempts = c.failedAttempts + 1
      /\ e.probeFailures = b.probeFailures
      /\ SameJoin(c, e) /\ SameBrowser(c, e)
  <2> HIDE DEF e
  <2> QED BY <1>1, <1>2, <1>3 DEF Client, SameJoin, SameBrowser
<1>6. /\ Follow(c.store, s) \in StoreState
      /\ Follow(c.store, s).phase \in {"loading", "refreshing"}
      /\ Follow(c.store, s).rows = c.store.rows
  BY <1>1, <1>4, FollowFields DEF Client
<1> DEFINE capped == /\ ~c.everOpened
                     /\ e.probeFailures >= InitialProbeAttemptLimit
<1>7. d = IF capped THEN GiveUp(e, "handshake-exhausted")
          ELSE [e EXCEPT !.retry = TRUE]
  BY DEF HandleAttemptFailure, b
<1> HIDE DEF e, s
<1>8. CASE ~capped
  <2>1. d = [e EXCEPT !.retry = TRUE]
    BY <1>7, <1>8
  <2>2. /\ d \in Client /\ d.socket = Null /\ d.retry
        /\ SameJoin(c, d) /\ SameBrowser(c, d)
        /\ d.everOpened = c.everOpened
        /\ d.failedAttempts = c.failedAttempts + 1
        /\ d.probeFailures = b.probeFailures
        /\ d.generation = c.generation + 1
        /\ d.stream = s /\ d.store = Follow(c.store, s)
    BY <2>1, <1>3, <1>5 DEF Client, SameJoin, SameBrowser
  <2> QED BY <2>2, <1>2, <1>5, <1>6, <1>8 DEF s
<1>9. CASE capped
  <2>1. d = GiveUp(e, "handshake-exhausted")
    BY <1>7, <1>9
  <2>2. "handshake-exhausted" \in TerminalCause
    BY DEF TerminalCause
  <2>3. /\ d \in Client
        /\ HungUp(e, d) /\ SameCounts(e, d) /\ SameJoin(e, d)
        /\ d.stream = AfterGiveUp(s, "handshake-exhausted")
        /\ d.store = Follow(e.store, d.stream)
        /\ ~d.retry
    <3>1. e.stream = s
      BY <1>5
    <3>2. e \in Client
      BY <1>3
    <3> QED BY <2>1, <2>2, <3>1, <3>2, GiveUpFields
  <2>4. /\ d.generation = c.generation + 2 /\ d.socket = Null
        /\ d.everOpened = c.everOpened
        /\ d.failedAttempts = c.failedAttempts + 1
        /\ d.probeFailures = b.probeFailures
        /\ SameJoin(c, d)
    BY <1>5, <2>3 DEF HungUp, SameCounts, SameJoin, Client
  <2>5. SameBrowser(c, d)
    <3>1. Null \notin c.opening /\ Null \notin c.open
      BY NullAssumption DEF Client
    <3> QED BY <1>5, <2>3, <3>1 DEF HungUp, SameBrowser
  <2>6. /\ d.stream \in StreamState /\ d.stream.phase = "failed"
        /\ d.stream.cause = "handshake-exhausted"
    BY <1>1, <2>3, <2>2, StreamTransitions DEF AfterGiveUp, StreamState
  <2>7. d.store.phase = "recoverable-error" /\ d.store.rows = c.store.rows
    BY <1>5, <1>6, <2>3, <2>6, FollowFields
  <2> QED BY <1>2, <1>5, <1>9, <2>3, <2>4, <2>5, <2>7 DEF s
<1> QED BY <1>8, <1>9
(* A started attempt: the old one is superseded, the cold start fresh.     *)
LEMMA StartFields ==
    ASSUME NEW c \in Client, c.stream.phase # "connected",
           NEW d, d = StartAttempt(c)
    PROVE  /\ d \in Client /\ SameCounts(c, d)
           /\ d.generation = c.generation + 1 /\ d.socket = d.generation
           /\ d.opening = (c.opening \ {c.socket}) \cup {d.generation}
           /\ d.open = c.open \ {c.socket}
           /\ d.closing = c.closing \cup ({c.socket} \ {Null})
           /\ d.fetches = c.fetches
           /\ d.stream = AfterConnect(c.stream) /\ d.retry = c.retry
           /\ d.store = Follow(c.store, d.stream)
           /\ d.store.phase \in {"loading", "refreshing"}
           /\ d.store.rows = c.store.rows
           /\ d.epoch = Null /\ ~d.settled /\ d.buffered = <<>>
<1> DEFINE b == CloseSocketSilently(c)
           f == [b EXCEPT !.epoch = Null, !.settled = FALSE, !.buffered = <<>>]
           s == AfterConnect(c.stream)
           e == Advance(f, s)
<1>1. /\ b \in Client /\ HungUp(c, b) /\ SameCounts(c, b)
      /\ b.stream = c.stream /\ b.store = c.store /\ b.retry = c.retry
  BY CloseFields
<1> HIDE DEF b
<1>2. /\ f \in Client /\ HungUp(c, f) /\ SameCounts(c, f)
      /\ f.stream = c.stream /\ f.store = c.store /\ f.retry = c.retry
      /\ f.epoch = Null /\ ~f.settled /\ f.buffered = <<>>
  <2>1. <<>> \in Seq(Message)
    BY EmptySeq
  <2>2. f \in Client
    BY <1>1, <2>1 DEF Client
  <2> QED BY <1>1, <2>2 DEF Client, HungUp, SameCounts
<1> HIDE DEF f
<1>3. s \in StreamState /\ s.phase \in {"connecting", "reconnecting"}
  <2>1. s \in StreamState
    BY StreamTransitions DEF Client
  <2> QED BY <2>1 DEF AfterConnect, TryingPhase, Client, StreamState
<1>4. e \in Client /\ e = [f EXCEPT !.stream = s, !.store = Follow(f.store, s)]
  BY <1>2, <1>3, AdvanceFields
<1>5. AdvanceConnect(f) = e
  BY <1>2 DEF AdvanceConnect
<1> HIDE DEF e, s
<1>6. /\ HungUp(c, e) /\ SameCounts(c, e)
      /\ e.stream = s /\ e.store = Follow(c.store, s) /\ e.retry = c.retry
      /\ e.epoch = Null /\ ~e.settled /\ e.buffered = <<>>
  BY <1>2, <1>3, <1>4 DEF Client, HungUp, SameCounts
<1>7. d = [e EXCEPT !.socket = c.generation + 1,
                    !.opening = @ \cup {c.generation + 1}]
  BY <1>5 DEF StartAttempt, f, b
<1>8. d \in Client
  <2>1. c.generation + 1 \in Nat
    BY DEF Client
  <2>2. e.opening \in SUBSET Nat
    BY <1>4 DEF Client
  <2>3. e.opening \cup {c.generation + 1} \in SUBSET Nat
    BY <2>1, <2>2
  <2> QED BY <1>4, <1>7, <2>1, <2>3 DEF Client
<1>9. /\ d.generation = e.generation /\ d.socket = c.generation + 1
      /\ d.opening = e.opening \cup {c.generation + 1}
      /\ SameCounts(e, d) /\ SameJoin(e, d)
      /\ d.open = e.open /\ d.closing = e.closing /\ d.fetches = e.fetches
      /\ d.stream = s /\ d.store = e.store /\ d.retry = e.retry
  BY <1>4, <1>6, <1>7 DEF Client, SameCounts, SameJoin
<1>10. /\ Follow(c.store, s).phase \in {"loading", "refreshing"}
       /\ Follow(c.store, s).rows = c.store.rows
  BY <1>3, FollowFields DEF Client
<1> QED BY <1>6, <1>8, <1>9, <1>10 DEF HungUp, SameCounts, SameJoin, s
-----------------------------------------------------------------------------
(* The inductive invariant.  What is alive: the sockets not being closed   *)
(* are the one held, whose attempt is the latest; a fetch that will be     *)
(* heard belongs to an open socket that has not joined; the cold start is  *)
(* settled by the join.                                                    *)
OneLive(c) ==
    /\ c.opening \cup c.open = {c.socket} \ {Null}
    /\ c.opening \cap c.open = {}
    /\ c.socket # Null => c.socket = c.generation /\ ~c.retry
    /\ \A a \in c.closing \cup c.fetches : a <= c.generation
    /\ c.generation \notin c.closing
    /\ c.generation \in c.fetches => c.socket \in c.open /\ c.epoch = Null
    /\ c.settled <=> c.epoch # Null

(* What the client knows of having reached a server, and why it stopped.   *)
Remembers(c) ==
    /\ c.stream.everConnected = c.everOpened
    /\ c.stream.phase = "connecting" => ~c.everOpened
    /\ c.stream.phase \in {"connected", "reconnecting"} => c.everOpened
    /\ c.stream.cause # Null <=> c.stream.phase = "failed"
    /\ c.stream.cause = "handshake-exhausted" <=>
          ~c.everOpened /\ c.probeFailures = InitialProbeAttemptLimit
    /\ ~c.everOpened =>
          /\ c.epoch = Null /\ c.open = {}
          /\ c.probeFailures <= InitialProbeAttemptLimit

Trying(c) == c.stream.phase \in {"connecting", "reconnecting"}

(* What a client whose page is up is doing, by phase, and how its attempts *)
(* and its failures compare.                                               *)
Shaped(c) ==
    /\ Trying(c) =>
          /\ c.epoch = Null /\ c.stream.attempt >= 1
          /\ IF c.retry THEN c.socket = Null ELSE c.socket \in c.opening
    /\ c.stream.phase = "connected" =>
          /\ c.socket \in c.open /\ ~c.retry
          /\ c.epoch # Null \/ c.generation \in c.fetches
    /\ c.stream.phase = "failed" => c.socket = Null /\ ~c.retry
    /\ c.failedAttempts <= c.stream.attempt
    /\ c.socket # Null /\ c.epoch = Null =>
          c.failedAttempts + 1 <= c.stream.attempt

(* ResourceAgrees, of any client. *)
Agrees(c) ==
    CASE Trying(c) -> c.store.phase \in {"loading", "refreshing"}
      [] c.stream.phase = "connected" /\ c.epoch # Null ->
            c.store.phase = "ready"
      [] c.stream.phase = "connected" /\ c.epoch = Null ->
            c.store.phase \in {"loading", "refreshing"}
      [] c.stream.phase = "failed" ->
            c.store.phase = IF c.stream.cause = "contract"
                            THEN "terminal-error" ELSE "recoverable-error"
      [] OTHER -> c.store.phase = "loading"

(* Failures never outrun what n operator cycles allow. *)
Counted(c, n) ==
    ~c.everOpened => c.failedAttempts + 3 <= 3 * n + c.probeFailures

Sound(c, n) ==
    /\ c \in Client /\ c.stream.phase # "idle"
    /\ OneLive(c) /\ Remembers(c) /\ Shaped(c) /\ Agrees(c) /\ Counted(c, n)

(* An unmounted client is frozen: nothing of it is alive. *)
Frozen(c) ==
    /\ c \in Client
    /\ OneLive(c) /\ Agrees(c)
    /\ c.socket = Null /\ ~c.retry

TransportInv ==
    /\ mounted \in BOOLEAN /\ faults \in Nat /\ connects \in Nat
    /\ connects = 0 => client = InitialClient /\ ~mounted
    /\ connects # 0 /\ mounted => Sound(client, connects)
    /\ connects # 0 /\ ~mounted => Frozen(client)
-----------------------------------------------------------------------------
(* Every id the browser still holds was handed out. *)
HandedOut(c) == \A a \in c.closing \cup c.fetches : a <= c.generation

(* What an attempt needs in order to start. *)
Startable(c, n) ==
    /\ c \in Client /\ c.stream.phase # "connected" /\ ~c.retry
    /\ c.opening \cup c.open = {c.socket} \ {Null}
    /\ c.socket # Null => c.socket = c.generation
    /\ HandedOut(c)
    /\ c.stream.everConnected = c.everOpened
    /\ ~c.everOpened => c.probeFailures < InitialProbeAttemptLimit
    /\ c.failedAttempts <= c.stream.attempt
    /\ Counted(c, n)

LEMMA StartSound ==
    ASSUME NEW c, NEW n \in Nat, Startable(c, n)
    PROVE  Sound(StartAttempt(c), n) /\ Trying(StartAttempt(c))
<1> DEFINE d == StartAttempt(c)
<1>1. /\ d \in Client /\ SameCounts(c, d)
      /\ d.generation = c.generation + 1 /\ d.socket = d.generation
      /\ d.opening = (c.opening \ {c.socket}) \cup {d.generation}
      /\ d.open = c.open \ {c.socket}
      /\ d.closing = c.closing \cup ({c.socket} \ {Null})
      /\ d.fetches = c.fetches
      /\ d.stream = AfterConnect(c.stream) /\ d.retry = c.retry
      /\ d.store.phase \in {"loading", "refreshing"}
      /\ d.epoch = Null /\ ~d.settled
  BY StartFields DEF Startable
<1>2. /\ d.stream.phase = TryingPhase(c.stream)
      /\ d.stream.attempt = c.stream.attempt + 1
      /\ d.stream.everConnected = c.everOpened /\ d.stream.cause = Null
      /\ c.stream.attempt \in Nat
  BY <1>1 DEF Startable, AfterConnect, Client, StreamState
<1> HIDE DEF d
<1>3. d.generation \in Nat /\ c.generation \in Nat /\ c.failedAttempts \in Nat
  BY <1>1 DEF Client, Startable
<1>4. d.opening = {d.generation} /\ d.open = {}
  BY <1>1 DEF Startable
<1>5. \A a \in d.closing \cup d.fetches : a <= c.generation
  BY <1>1, <1>3 DEF Startable, HandedOut
<1>6. OneLive(d)
  <2>1. d.generation \notin d.closing \cup d.fetches
    BY <1>1, <1>3, <1>5
  <2>2. \A a \in d.closing \cup d.fetches : a <= d.generation
    <3>1. d.closing \cup d.fetches \subseteq Nat
      BY <1>1 DEF Client
    <3> QED BY <1>1, <1>3, <1>5, <3>1
  <2> QED BY <1>1, <1>3, <1>4, <2>1, <2>2, NullAssumption DEF OneLive, Startable
<1>7. Remembers(d)
  <2>1. d.everOpened \in BOOLEAN /\ d.stream.everConnected = d.everOpened
    BY <1>1, <1>2 DEF Client, SameCounts
  <2>2. d.stream.phase = IF d.everOpened THEN "reconnecting" ELSE "connecting"
    BY <1>2, <1>1 DEF TryingPhase, Startable, SameCounts
  <2>3. d.stream.cause # "handshake-exhausted"
    BY <1>2, CausesAreNotNull DEF TerminalCause
  <2>4. /\ d.probeFailures \in Nat
        /\ ~d.everOpened => d.probeFailures < InitialProbeAttemptLimit
    BY <1>1 DEF Startable, SameCounts, Client
  <2> QED BY <1>1, <1>2, <1>4, <2>1, <2>2, <2>3, <2>4
          DEF Remembers, InitialProbeAttemptLimit
<1>8. Trying(d)
  BY <1>2 DEF Trying, TryingPhase
<1>9. Shaped(d) /\ Agrees(d)
  BY <1>1, <1>2, <1>3, <1>4, <1>8
  DEF Shaped, Agrees, Trying, TryingPhase, Startable, SameCounts
<1>10. Counted(d, n)
  BY <1>1 DEF Counted, Startable, SameCounts
<1> QED BY <1>1, <1>6, <1>7, <1>8, <1>9, <1>10 DEF Sound, Trying, d

(* What an attempt that had not joined leaves behind once its socket is    *)
(* gone.                                                                   *)
Failable(c, n) ==
    /\ c \in Client /\ c.socket = Null
    /\ c.opening = {} /\ c.open = {}
    /\ c.epoch = Null /\ ~c.settled
    /\ HandedOut(c)
    /\ c.stream.everConnected = c.everOpened /\ c.stream.cause = Null
    /\ ~c.everOpened => c.probeFailures < InitialProbeAttemptLimit
    /\ c.failedAttempts + 1 <= c.stream.attempt
    /\ Counted(c, n)

LEMMA FailureSound ==
    ASSUME NEW c, NEW n \in Nat, Failable(c, n)
    PROVE  /\ Sound(HandleAttemptFailure(c), n)
           /\ c.everOpened => Trying(HandleAttemptFailure(c))
<1> DEFINE d == HandleAttemptFailure(c)
           capped == /\ ~c.everOpened
                     /\ c.probeFailures + 1 >= InitialProbeAttemptLimit
<1>1. /\ d \in Client /\ d.socket = Null
      /\ SameJoin(c, d) /\ SameBrowser(c, d)
      /\ d.everOpened = c.everOpened
      /\ d.failedAttempts = c.failedAttempts + 1
      /\ d.probeFailures = IF c.everOpened THEN c.probeFailures
                           ELSE c.probeFailures + 1
      /\ IF capped
         THEN /\ d.generation = c.generation + 2 /\ ~d.retry
              /\ d.stream = AfterGiveUp(AfterClose(c.stream),
                                        "handshake-exhausted")
              /\ d.store.phase = "recoverable-error"
         ELSE /\ d.generation = c.generation + 1 /\ d.retry
              /\ d.stream = AfterClose(c.stream)
              /\ d.store.phase \in {"loading", "refreshing"}
  BY FailureFields DEF Failable
<1>2. /\ d.stream.phase = IF capped THEN "failed" ELSE TryingPhase(c.stream)
      /\ d.stream.attempt = c.stream.attempt
      /\ d.stream.everConnected = c.everOpened
      /\ d.stream.cause = IF capped THEN "handshake-exhausted" ELSE Null
  <2>1. /\ AfterClose(c.stream).phase = TryingPhase(c.stream)
        /\ AfterClose(c.stream).attempt = c.stream.attempt
        /\ AfterClose(c.stream).everConnected = c.everOpened
        /\ AfterClose(c.stream).cause = Null
        /\ AfterClose(c.stream) \in StreamState
    BY StreamTransitions DEF Failable, AfterClose, Client, StreamState
  <2> QED BY <1>1, <2>1 DEF AfterGiveUp, StreamState
<1> HIDE DEF d
<1>3. /\ d.generation \in Nat /\ c.generation \in Nat
      /\ d.generation > c.generation
      /\ c.stream.attempt \in Nat /\ c.failedAttempts \in Nat
      /\ c.probeFailures \in Nat
  BY <1>1 DEF Client, StreamState, Failable
<1>4. \A a \in d.closing \cup d.fetches : a \in Nat /\ a <= c.generation
  BY <1>1 DEF Failable, HandedOut, SameBrowser, Client
<1>5. OneLive(d)
  <2>1. \A a \in d.closing \cup d.fetches : a < d.generation
    BY <1>3, <1>4
  <2>2. d.generation \notin d.closing \cup d.fetches
    BY <2>1, <1>3
  <2>3. d.opening = {} /\ d.open = {} /\ d.epoch = Null /\ ~d.settled
    BY <1>1 DEF Failable, SameBrowser, SameJoin
  <2> QED BY <1>1, <1>3, <1>4, <2>1, <2>2, <2>3 DEF OneLive
<1>6. Remembers(d)
  <2>1. d.open = {} /\ d.epoch = Null
    BY <1>1 DEF Failable, SameBrowser, SameJoin
  <2>2. d.everOpened \in BOOLEAN /\ d.stream.everConnected = d.everOpened
    BY <1>1, <1>2 DEF Client
  <2>3. "handshake-exhausted" # Null
    BY CausesAreNotNull DEF TerminalCause
  <2>4. CASE capped
    <3>1. d.probeFailures = 3 /\ ~d.everOpened
      BY <1>1, <1>3, <2>4 DEF Failable, InitialProbeAttemptLimit
    <3> QED BY <1>2, <2>1, <2>2, <2>3, <2>4, <3>1
            DEF Remembers, InitialProbeAttemptLimit
  <2>5. CASE ~capped
    <3>1. d.stream.phase = IF d.everOpened THEN "reconnecting" ELSE "connecting"
      BY <1>1, <1>2, <2>5 DEF TryingPhase, Failable
    <3>2. /\ ~d.everOpened => d.probeFailures < 3
          /\ d.stream.cause = Null
      BY <1>1, <1>2, <1>3, <2>5 DEF InitialProbeAttemptLimit
    <3>3. d.probeFailures \in Nat
      BY <1>1 DEF Client
    <3> QED BY <2>1, <2>2, <2>3, <3>1, <3>2, <3>3
            DEF Remembers, InitialProbeAttemptLimit
  <2> QED BY <2>4, <2>5
<1>7. Shaped(d) /\ Agrees(d)
  <2>1. d.epoch = Null
    BY <1>1 DEF Failable, SameJoin
  <2>2. d.failedAttempts <= d.stream.attempt /\ d.stream.attempt >= 1
    BY <1>1, <1>2, <1>3 DEF Failable
  <2>3. CASE capped
    BY <1>1, <1>2, <2>1, <2>2, <2>3 DEF Shaped, Agrees, Trying, Failable
  <2>4. CASE ~capped
    BY <1>1, <1>2, <2>1, <2>2, <2>4
    DEF Shaped, Agrees, Trying, TryingPhase, Failable
  <2> QED BY <2>3, <2>4
<1>8. Counted(d, n)
  BY <1>1, <1>3 DEF Counted, Failable
<1>9. d.stream.phase # "idle" /\ (c.everOpened => Trying(d))
  BY <1>2 DEF TryingPhase, Trying
<1> QED BY <1>1, <1>5, <1>6, <1>7, <1>8, <1>9 DEF Sound, d

(* A session ended by a contract or an integrity failure. *)
LEMMA GiveUpSound ==
    ASSUME NEW c \in Client, NEW n \in Nat,
           NEW cause \in {"contract", "session-mismatch"},
           c.everOpened, c.stream.everConnected,
           c.opening \cup c.open = {c.socket} \ {Null},
           c.socket # Null => c.socket = c.generation,
           HandedOut(c), c.settled <=> c.epoch # Null,
           c.failedAttempts <= c.stream.attempt,
           cause = "contract" => c.store.phase = "terminal-error"
    PROVE  /\ Sound(GiveUp(c, cause), n)
           /\ GiveUp(c, cause).stream.phase = "failed"
           /\ GiveUp(c, cause).stream.cause = cause
           /\ GiveUp(c, cause).store.rows = c.store.rows
<1> DEFINE d == GiveUp(c, cause)
<1>0. cause \in TerminalCause
  BY DEF TerminalCause
<1>1. /\ d \in Client
      /\ HungUp(c, d) /\ SameCounts(c, d) /\ SameJoin(c, d)
      /\ d.stream = AfterGiveUp(c.stream, cause)
      /\ d.store = Follow(c.store, d.stream)
      /\ ~d.retry
  BY <1>0, GiveUpFields
<1>2. /\ d.stream.phase = "failed" /\ d.stream.cause = cause
      /\ d.stream.attempt = c.stream.attempt /\ d.stream.everConnected
      /\ d.stream \in StreamState
  BY <1>1 DEF AfterGiveUp, Client, StreamState
<1>3. d.store.rows = c.store.rows
      /\ d.store.phase = IF cause = "contract" THEN "terminal-error"
                         ELSE "recoverable-error"
  <2>1. c.store \in StoreState
    BY DEF Client
  <2> HIDE DEF d
  <2> QED BY <1>1, <1>2, <2>1, FollowFields
<1> HIDE DEF d
<1>4. /\ d.generation = c.generation + 1 /\ d.generation \in Nat
      /\ c.generation \in Nat /\ d.socket = Null
  BY <1>1 DEF HungUp, Client
<1>5. \A a \in d.closing \cup d.fetches : a \in Nat /\ a <= c.generation
  BY <1>1, <1>4 DEF HandedOut, HungUp, Client
<1>6. OneLive(d)
  <2>1. \A a \in d.closing \cup d.fetches : a < d.generation
    BY <1>4, <1>5
  <2>2. d.generation \notin d.closing \cup d.fetches
    BY <2>1, <1>4
  <2>3. d.opening = {} /\ d.open = {} /\ (d.settled <=> d.epoch # Null)
    BY <1>1 DEF HungUp, SameJoin
  <2> QED BY <1>4, <1>5, <2>1, <2>2, <2>3 DEF OneLive
<1>7. Remembers(d)
  <2>1. d.everOpened \in BOOLEAN /\ d.everOpened
    BY <1>1 DEF SameCounts, Client
  <2>2. cause # Null /\ cause # "handshake-exhausted"
    BY <1>0, CausesAreNotNull
  <2>3. d.stream.everConnected = d.everOpened
    BY <1>2, <2>1 DEF StreamState
  <2> QED BY <1>2, <2>1, <2>2, <2>3 DEF Remembers
<1>8. Shaped(d) /\ Agrees(d)
  BY <1>1, <1>2, <1>3, <1>4 DEF Shaped, Agrees, Trying, SameCounts
<1>9. Counted(d, n)
  BY <1>1 DEF Counted, SameCounts
<1> QED BY <1>1, <1>2, <1>3, <1>6, <1>7, <1>8, <1>9 DEF Sound, d

(* d has given c's attempt up, for another or for none: the rows stand,    *)
(* nothing is buffered for an attempt under way, and of what the browser   *)
(* held only the event's own socket or fetch is gone.                      *)
SocketsOf(c) == c.opening \cup c.open \cup c.closing

Superseded(c, d) ==
    /\ d.generation > c.generation
    /\ d.buffered \in {c.buffered, <<>>}
    /\ d.socket # Null => d.epoch = Null /\ d.buffered = <<>>
    /\ d.store.rows = c.store.rows

(* An unmount leaves nothing alive. *)
LEMMA DisconnectFrozen ==
    ASSUME NEW c \in Client, OneLive(c), Agrees(c)
    PROVE  /\ Frozen(Disconnect(c))
           /\ Disconnect(c).stream = c.stream /\ Disconnect(c).store = c.store
           /\ SameCounts(c, Disconnect(c))
           /\ Superseded(c, Disconnect(c))
           /\ SocketsOf(c) \subseteq SocketsOf(Disconnect(c))
           /\ Disconnect(c).fetches = c.fetches
<1> DEFINE b == [c EXCEPT !.retry = FALSE]
           d == CloseSocketSilently(b)
<1>1. /\ b \in Client /\ ~b.retry /\ b.stream = c.stream /\ b.store = c.store
      /\ b.socket = c.socket /\ b.generation = c.generation
      /\ SameBrowser(c, b) /\ SameJoin(c, b) /\ SameCounts(c, b)
  BY DEF Client, SameBrowser, SameJoin, SameCounts
<1> HIDE DEF b
<1>2. /\ d \in Client
      /\ HungUp(b, d) /\ SameCounts(b, d) /\ SameJoin(b, d)
      /\ d.stream = b.stream /\ d.store = b.store /\ ~d.retry
  BY <1>1, CloseFields
<1> HIDE DEF d
<1>3. /\ d.generation = c.generation + 1 /\ d.generation \in Nat
      /\ c.generation \in Nat /\ d.socket = Null
  BY <1>1, <1>2 DEF HungUp, Client
<1>4. d.opening = {} /\ d.open = {} /\ (d.settled <=> d.epoch # Null)
  BY <1>1, <1>2 DEF OneLive, HungUp, SameBrowser, SameJoin
<1>5. \A a \in d.closing \cup d.fetches : a \in Nat /\ a < d.generation
  <2>1. d.closing \cup d.fetches \subseteq
          c.closing \cup c.fetches \cup ({c.socket} \ {Null})
    BY <1>1, <1>2 DEF HungUp, SameBrowser
  <2> QED BY <1>2, <1>3, <2>1 DEF OneLive, Client
<1>6. d.generation \notin d.closing \cup d.fetches
  BY <1>3, <1>5
<1>7. OneLive(d)
  BY <1>3, <1>4, <1>5, <1>6 DEF OneLive
<1>8. Agrees(d)
  BY <1>1, <1>2 DEF Agrees, Trying, SameJoin
<1>9. SameCounts(c, d)
  BY <1>1, <1>2 DEF SameCounts
<1>10. Disconnect(c) = d
  BY DEF Disconnect, d, b
<1>11. Superseded(c, d)
  BY <1>1, <1>2, <1>3 DEF Superseded, SameJoin
<1>12. SocketsOf(c) \subseteq SocketsOf(d) /\ d.fetches = c.fetches
  BY <1>1, <1>2 DEF SocketsOf, OneLive, HungUp, SameBrowser
<1> QED BY <1>1, <1>2, <1>3, <1>7, <1>8, <1>9, <1>10, <1>11, <1>12 DEF Frozen
-----------------------------------------------------------------------------
(* Events of superseded attempts.  All they change is what the browser     *)
(* still holds of them.                                                    *)
Stale(c, d) ==
    /\ SameCounts(c, d) /\ SameJoin(c, d)
    /\ d.stream = c.stream /\ d.store = c.store
    /\ d.generation = c.generation /\ d.socket = c.socket /\ d.retry = c.retry
    /\ d.opening = c.opening /\ d.open = c.open
    /\ d.closing \subseteq c.closing /\ d.fetches \subseteq c.fetches
    /\ c.generation \in c.fetches => c.generation \in d.fetches

LEMMA StaleEvents ==
    ASSUME NEW c \in Client, OneLive(c), NEW a, a # c.generation,
           NEW m
    PROVE  /\ OnOpen(c, a) = c /\ OnMessage(c, a, m) = c
           /\ OnClose(c, a) \in Client /\ Stale(c, OnClose(c, a))
           /\ Landed(c, a) \in Client /\ Stale(c, Landed(c, a))
           /\ SnapshotArrives(c, a, m) = Landed(c, a)
           /\ SnapshotUnreachable(c, a) = Landed(c, a)
           /\ SnapshotRefused(c, a) = Landed(c, a)
<1>1. OnOpen(c, a) = c /\ OnMessage(c, a, m) = c
  BY DEF OnOpen, OnMessage
<1>2. /\ SnapshotArrives(c, a, m) = Landed(c, a)
      /\ SnapshotUnreachable(c, a) = Landed(c, a)
      /\ SnapshotRefused(c, a) = Landed(c, a)
  BY DEF SnapshotArrives, SnapshotUnreachable, SnapshotRefused
<1>3. /\ c.opening \ {a} = c.opening /\ c.open \ {a} = c.open
      /\ c.closing \ {a} \in SUBSET Nat /\ c.fetches \ {a} \in SUBSET Nat
  BY DEF OneLive, Client
<1>4. Landed(c, a) \in Client /\ Stale(c, Landed(c, a))
  BY <1>3 DEF Landed, Client, Stale, SameCounts, SameJoin
<1>5. OnClose(c, a) = [c EXCEPT !.opening = @ \ {a}, !.open = @ \ {a},
                                !.closing = @ \ {a}]
  BY DEF OnClose
<1>6. OnClose(c, a) \in Client /\ Stale(c, OnClose(c, a))
  BY <1>3, <1>5 DEF Client, Stale, SameCounts, SameJoin
<1> QED BY <1>1, <1>2, <1>4, <1>6

LEMMA StaleSound ==
    ASSUME NEW c \in Client, NEW d \in Client, Stale(c, d)
    PROVE  /\ \A n \in Nat : Sound(c, n) => Sound(d, n)
           /\ Frozen(c) => Frozen(d)
<1>1. OneLive(c) => OneLive(d)
  BY DEF OneLive, Stale, SameJoin
<1>2. Remembers(c) => Remembers(d)
  BY DEF Remembers, Stale, SameJoin, SameCounts
<1>3. Shaped(c) => Shaped(d)
  BY DEF Shaped, Trying, Stale, SameJoin, SameCounts
<1>4. Agrees(c) => Agrees(d)
  BY DEF Agrees, Trying, Stale, SameJoin
<1>5. ASSUME NEW n \in Nat PROVE Counted(c, n) => Counted(d, n)
  BY DEF Counted, Stale, SameCounts
<1> QED BY <1>1, <1>2, <1>3, <1>4, <1>5 DEF Sound, Frozen, Stale
-----------------------------------------------------------------------------
(* The socket events of the live attempt. *)
LEMMA OpenSound ==
    ASSUME NEW c, NEW n \in Nat, Sound(c, n), NEW a \in c.opening \cup c.closing,
           a = c.generation, NEW d, d = OnOpen(c, a)
    PROVE  /\ Sound(d, n) /\ Trying(c) /\ d.everOpened
           /\ d.store = c.store /\ d.epoch = Null /\ d.buffered = c.buffered
           /\ c.epoch = Null /\ d.socket = c.socket /\ d.generation = a
           /\ d.fetches = c.fetches \cup {a}
           /\ SocketsOf(c) \subseteq SocketsOf(d)
<1>1. c \in Client /\ OneLive(c) /\ Remembers(c) /\ Shaped(c) /\ Agrees(c)
  BY DEF Sound
<1>2. /\ a \in c.opening /\ c.socket = a /\ a \in Nat
      /\ a \notin c.open /\ c.opening = {a} /\ c.open = {}
  BY <1>1 DEF OneLive, Client
<1>3. Trying(c) /\ c.epoch = Null /\ ~c.retry
  <2>1. c.socket # Null
    BY <1>2, NullAssumption
  <2>2. c.stream.phase \in StreamPhase
    BY <1>1 DEF Client, StreamState
  <2> QED BY <1>1, <1>2, <2>1, <2>2 DEF Shaped, Trying, Sound, StreamPhase, OneLive
<1> DEFINE s == AfterOpen(c.stream)
           b == [c EXCEPT !.opening = @ \ {a}, !.open = @ \cup {a},
                          !.everOpened = TRUE, !.probeFailures = 0,
                          !.fetches = @ \cup {a}]
<1>4. s \in StreamState
  BY <1>1, StreamTransitions DEF Client
<1>5. /\ s.phase = "connected" /\ s.everConnected
      /\ s.attempt = c.stream.attempt /\ s.cause = c.stream.cause
  BY <1>1 DEF AfterOpen, Client, StreamState
<1>6. b \in Client
  BY <1>1, <1>2 DEF Client
<1>7. d = Advance(b, s)
  BY DEF OnOpen
<1>8. Follow(c.store, s) = c.store
  BY <1>1, <1>4, <1>5, FollowFields DEF Client
<1>9. b.store = c.store
  BY <1>1 DEF Client
<1>10. d \in Client /\ d = [b EXCEPT !.stream = s, !.store = c.store]
  <2> HIDE DEF b, s
  <2>1. d \in Client /\ d = [b EXCEPT !.stream = s, !.store = Follow(b.store, s)]
    BY <1>4, <1>6, <1>7, AdvanceFields
  <2> QED BY <1>8, <1>9, <2>1
<1> HIDE DEF s
<1>11. /\ d.opening = {} /\ d.open = {a}
       /\ d.closing = c.closing /\ d.fetches = c.fetches \cup {a}
       /\ d.stream = s /\ d.store = c.store
       /\ d.generation = c.generation /\ d.socket = a /\ ~d.retry
       /\ d.everOpened /\ d.probeFailures = 0
       /\ d.failedAttempts = c.failedAttempts
       /\ SameJoin(c, d)
  BY <1>1, <1>2, <1>3, <1>10 DEF Client, SameJoin
<1> HIDE DEF b
<1>12. OneLive(d)
  BY <1>1, <1>2, <1>3, <1>11, NullAssumption DEF OneLive, SameJoin
<1>13. Remembers(d)
  <2>1. c.stream.cause = Null
    BY <1>1, <1>3 DEF Remembers, Trying
  <2>2. d.stream.everConnected = d.everOpened
    BY <1>5, <1>10, <1>11 DEF Client, StreamState
  <2>3. "handshake-exhausted" # Null
    BY CausesAreNotNull DEF TerminalCause
  <2> QED BY <1>5, <1>11, <2>1, <2>2, <2>3 DEF Remembers
<1>14. Shaped(d)
  <2>1. c.socket # Null
    BY <1>2, NullAssumption
  <2>2. c.failedAttempts + 1 <= c.stream.attempt /\ c.failedAttempts <= c.stream.attempt
    BY <1>1, <1>3, <2>1 DEF Shaped
  <2> QED BY <1>2, <1>5, <1>11, <2>2 DEF Shaped, Trying
<1>15. Agrees(d)
  BY <1>1, <1>3, <1>5, <1>11 DEF Agrees, Trying, SameJoin
<1>16. Counted(d, n)
  BY <1>11 DEF Counted
<1>17. SocketsOf(c) \subseteq SocketsOf(d)
  BY <1>2, <1>11 DEF SocketsOf
<1> QED BY <1>2, <1>3, <1>5, <1>10, <1>11, <1>12, <1>13, <1>14, <1>15, <1>16,
           <1>17
        DEF Sound, SameJoin

(* What a frame does to the rows: all it may do, when it is let in. *)
LEMMA MessageSound ==
    ASSUME NEW c, NEW n \in Nat, Sound(c, n), NEW a \in c.open \cup c.closing,
           a = c.generation, NEW m \in Message, NEW d, d = OnMessage(c, a, m)
    PROVE  /\ Sound(d, n) /\ c.stream.phase = "connected"
           /\ d.everOpened = c.everOpened
           /\ SocketsOf(c) \subseteq SocketsOf(d) /\ d.fetches = c.fetches
           /\ \/ /\ c.epoch = Null /\ d.epoch = Null /\ d.store = c.store
                 /\ d.buffered = Append(c.buffered, m)
                 /\ d.generation = c.generation /\ d.socket = c.socket
              \/ /\ c.epoch # Null /\ Reconcile(c.epoch, m) = "covered" /\ d = c
              \/ /\ c.epoch # Null /\ Reconcile(c.epoch, m) = "apply"
                 /\ d.store.rows = Overlay(c.store.rows, <<m>>, {1})
                 /\ d.epoch = c.epoch /\ d.buffered = c.buffered
                 /\ d.generation = c.generation /\ d.socket = c.socket
              \/ Superseded(c, d)
<1>1. c \in Client /\ OneLive(c) /\ Remembers(c) /\ Shaped(c) /\ Agrees(c)
  BY DEF Sound
<1>2. /\ a \in c.open /\ c.socket = a /\ a \in Nat
      /\ c.opening = {} /\ c.open = {a}
  BY <1>1 DEF OneLive, Client
<1>3. c.stream.phase = "connected" /\ ~c.retry
  <2>1. c.socket # Null
    BY <1>2, NullAssumption
  <2>2. c.stream.phase \in StreamPhase
    BY <1>1 DEF Client, StreamState
  <2> QED BY <1>1, <1>2, <2>1, <2>2 DEF Shaped, Trying, Sound, StreamPhase, OneLive
<1>4. CASE ~c.settled
  <2>1. d = [c EXCEPT !.buffered = Append(@, m)]
    BY <1>4 DEF OnMessage
  <2>2. Append(c.buffered, m) \in Seq(Message)
    BY <1>1, AppendProperties DEF Client
  <2>3. d \in Client
    BY <1>1, <2>1, <2>2 DEF Client
  <2>4. /\ SameCounts(c, d) /\ SameBrowser(c, d)
        /\ d.epoch = c.epoch /\ d.settled = c.settled
        /\ d.stream = c.stream /\ d.store = c.store
        /\ d.generation = c.generation /\ d.socket = c.socket
        /\ d.retry = c.retry
    BY <1>1, <2>1 DEF Client, SameCounts, SameBrowser
  <2>5. OneLive(d) /\ Remembers(d)
    BY <1>1, <2>4 DEF OneLive, Remembers, SameCounts, SameBrowser
  <2>6. Shaped(d) /\ Agrees(d) /\ Counted(d, n)
    BY <1>1, <2>4
    DEF Sound, Shaped, Agrees, Trying, Counted, SameCounts, SameBrowser
  <2>7. c.epoch = Null /\ d.buffered = Append(c.buffered, m)
    BY <1>1, <1>4, <2>1 DEF OneLive, Client
  <2>8. SocketsOf(d) = SocketsOf(c) /\ d.fetches = c.fetches
    BY <2>4 DEF SocketsOf, SameBrowser
  <2> QED BY <1>3, <2>3, <2>4, <2>5, <2>6, <2>7, <2>8 DEF Sound, SameCounts
<1>5. CASE c.settled /\ c.epoch = Null
  BY <1>1, <1>5 DEF OneLive
<1>6. CASE c.settled /\ c.epoch # Null
  <2>1. CASE Reconcile(c.epoch, m) = "covered"
    <3>1. d = c
      BY <1>6, <2>1 DEF OnMessage
    <3> QED BY <1>3, <1>6, <2>1, <3>1 DEF SocketsOf
  <2>2. CASE Reconcile(c.epoch, m) = "apply"
    <3> DEFINE rows == Overlay(c.store.rows, <<m>>, {1})
    <3>1. d = [c EXCEPT !.store = [c.store EXCEPT !.rows = rows]]
      BY <1>1, <1>6, <2>2 DEF OnMessage, ApplyBatches
    <3>2. rows \in Rows
      <4>1. <<m>> \in Seq(Message) /\ {1} \in SUBSET (DOMAIN <<m>>)
        OBVIOUS
      <4> QED BY <1>1, <4>1, OverlayType DEF Client, StoreState
    <3> HIDE DEF rows
    <3>3. /\ [c.store EXCEPT !.rows = rows] \in StoreState
          /\ [c.store EXCEPT !.rows = rows].phase = c.store.phase
          /\ [c.store EXCEPT !.rows = rows].rows = rows
      BY <1>1, <3>2 DEF Client, StoreState
    <3>4. d \in Client
      BY <1>1, <3>1, <3>3 DEF Client
    <3>5. /\ SameCounts(c, d) /\ SameBrowser(c, d)
          /\ d.epoch = c.epoch /\ d.settled = c.settled
          /\ d.buffered = c.buffered
          /\ d.stream = c.stream /\ d.store.phase = c.store.phase
          /\ d.store.rows = rows
          /\ d.generation = c.generation /\ d.socket = c.socket
          /\ d.retry = c.retry
      BY <1>1, <3>1, <3>3 DEF Client, SameCounts, SameBrowser
    <3>6. OneLive(d) /\ Remembers(d)
      BY <1>1, <3>5 DEF OneLive, Remembers, SameCounts, SameBrowser
    <3>7. Shaped(d) /\ Agrees(d) /\ Counted(d, n)
      BY <1>1, <3>5
      DEF Sound, Shaped, Agrees, Trying, Counted, SameCounts, SameBrowser
    <3>8. SocketsOf(d) = SocketsOf(c) /\ d.fetches = c.fetches
      BY <3>5 DEF SocketsOf, SameBrowser
    <3> QED BY <1>3, <1>6, <2>2, <3>4, <3>5, <3>6, <3>7, <3>8
            DEF Sound, SameCounts, rows
  <2>3. CASE Reconcile(c.epoch, m) \notin {"apply", "covered"}
    <3>1. d = GiveUp(c, "session-mismatch")
      BY <1>6, <2>3 DEF OnMessage
    <3>2. c.everOpened /\ c.stream.everConnected
      BY <1>1, <1>3 DEF Remembers
    <3>3. Sound(d, n) /\ d.store.rows = c.store.rows
      BY <1>1, <3>1, <3>2, GiveUpSound DEF OneLive, Shaped, HandedOut
    <3>4. HungUp(c, d) /\ SameCounts(c, d) /\ SameJoin(c, d)
      BY <1>1, <3>1, GiveUpFields DEF TerminalCause
    <3>5. Superseded(c, d)
      BY <1>1, <1>2, <3>3, <3>4 DEF HungUp, SameJoin, Superseded
    <3>6. SocketsOf(c) \subseteq SocketsOf(d)
      BY <1>2, <3>4, NullAssumption DEF HungUp, SocketsOf
    <3> QED BY <1>3, <3>3, <3>4, <3>5, <3>6 DEF SameCounts, HungUp
  <2> QED BY <2>1, <2>2, <2>3
<1> QED BY <1>1, <1>4, <1>5, <1>6 DEF Client
LEMMA CloseSound ==
    ASSUME NEW c, NEW n \in Nat, Sound(c, n),
           NEW a \in c.opening \cup c.open \cup c.closing,
           a = c.generation, NEW d, d = OnClose(c, a)
    PROVE  /\ Sound(d, n) /\ d.everOpened = c.everOpened
           /\ c.stream.phase # "failed" /\ (c.everOpened => Trying(d))
           /\ Superseded(c, d)
           /\ SocketsOf(c) \ {a} \subseteq SocketsOf(d) /\ d.fetches = c.fetches
<1>1. c \in Client /\ OneLive(c) /\ Remembers(c) /\ Shaped(c) /\ Agrees(c)
  BY DEF Sound
<1>2. c.socket = a /\ a \in Nat /\ c.socket # Null /\ ~c.retry
  BY <1>1, NullAssumption DEF OneLive, Client
<1> DEFINE dropped == [c EXCEPT !.opening = @ \ {a}, !.open = @ \ {a},
                                !.closing = @ \ {a}, !.socket = Null]
<1>3. /\ dropped \in Client /\ SameCounts(c, dropped) /\ SameJoin(c, dropped)
      /\ dropped.opening = {} /\ dropped.open = {} /\ dropped.socket = Null
      /\ dropped.closing = c.closing \ {a} /\ dropped.fetches = c.fetches
      /\ dropped.generation = c.generation /\ dropped.retry = c.retry
      /\ dropped.stream = c.stream /\ dropped.store = c.store
  <2>1. dropped \in Client
    BY <1>1 DEF Client
  <2>2. c.opening \ {a} = {} /\ c.open \ {a} = {}
    BY <1>1, <1>2 DEF OneLive
  <2> QED BY <1>1, <2>1, <2>2 DEF Client, SameCounts, SameJoin
<1>4. d = IF c.epoch # Null
          THEN StartAttempt(Advance([dropped EXCEPT !.generation = @ + 1],
                                    AfterClose(c.stream)))
          ELSE HandleAttemptFailure(dropped)
  BY DEF OnClose
<1> HIDE DEF dropped
<1>5. c.stream.phase \in {"connecting", "reconnecting", "connected"}
      /\ c.stream.cause = Null
  <2>1. c.stream.phase \in StreamPhase
    BY <1>1 DEF Client, StreamState
  <2>2. c.stream.phase \in {"connecting", "reconnecting", "connected"}
    BY <1>1, <1>2, <2>1 DEF Shaped, Sound, StreamPhase
  <2> QED BY <1>1, <2>2 DEF Remembers
<1>6. /\ c.failedAttempts \in Nat /\ c.stream.attempt \in Nat
      /\ c.generation \in Nat /\ c.probeFailures \in Nat
  BY <1>1 DEF Client, StreamState
<1>7. ~c.everOpened => c.probeFailures < InitialProbeAttemptLimit
  <2>1. c.stream.cause # "handshake-exhausted"
    BY <1>5, CausesAreNotNull DEF TerminalCause
  <2> QED BY <1>1, <1>6, <2>1 DEF Remembers, InitialProbeAttemptLimit
<1>8. CASE c.epoch = Null
  <2>1. d = HandleAttemptFailure(dropped)
    BY <1>4, <1>8
  <2>2. Failable(dropped, n)
    BY <1>1, <1>2, <1>3, <1>5, <1>7, <1>8
    DEF Failable, HandedOut, OneLive, Remembers, Shaped, Sound, Counted,
        SameCounts, SameJoin
  <2>3. Sound(d, n) /\ (dropped.everOpened => Trying(d))
    BY <2>1, <2>2, FailureSound
  <2>4. /\ d.everOpened = dropped.everOpened /\ d.store.rows = dropped.store.rows
        /\ SameJoin(dropped, d) /\ SameBrowser(dropped, d) /\ d.socket = Null
        /\ d.generation > c.generation
    BY <1>3, <1>6, <2>1, FailureFields
  <2>5. Superseded(c, d)
    BY <1>3, <2>4 DEF Superseded, SameJoin
  <2>6. SocketsOf(c) \ {a} \subseteq SocketsOf(d) /\ d.fetches = c.fetches
    BY <1>1, <1>2, <1>3, <2>4 DEF SocketsOf, SameBrowser, OneLive
  <2> QED BY <1>3, <1>5, <2>3, <2>4, <2>5, <2>6 DEF SameCounts
<1>9. CASE c.epoch # Null
  <2> DEFINE s == AfterClose(c.stream)
             e == [dropped EXCEPT !.generation = @ + 1]
             b == Advance(e, s)
  <2>1. d = StartAttempt(b)
    BY <1>4, <1>9
  <2>2. /\ s \in StreamState /\ s.phase \in {"connecting", "reconnecting"}
        /\ s.attempt = c.stream.attempt
        /\ s.everConnected = c.stream.everConnected
    <3>1. s \in StreamState
      BY <1>1, StreamTransitions DEF Client
    <3> QED BY <1>1, <3>1 DEF AfterClose, TryingPhase, Client, StreamState
  <2> HIDE DEF s
  <2>3. /\ e \in Client /\ e.generation = c.generation + 1
        /\ e.opening = {} /\ e.open = {} /\ e.socket = Null
        /\ e.closing = c.closing \ {a} /\ e.fetches = c.fetches
        /\ ~e.retry /\ e.store = c.store /\ SameCounts(c, e)
    <3>1. c.generation + 1 \in Nat
      BY <1>6
    <3> QED BY <1>2, <1>3, <3>1 DEF Client, SameCounts
  <2> HIDE DEF e
  <2>4. b \in Client /\ b = [e EXCEPT !.stream = s, !.store = Follow(e.store, s)]
    BY <2>2, <2>3, AdvanceFields
  <2> HIDE DEF b
  <2>5. /\ b.generation = c.generation + 1 /\ b.socket = Null
        /\ b.opening = {} /\ b.open = {}
        /\ b.closing = c.closing \ {a} /\ b.fetches = c.fetches
        /\ ~b.retry /\ SameCounts(c, b) /\ b.stream = s
        /\ b.store = Follow(c.store, s)
    BY <2>3, <2>4 DEF Client, SameCounts
  <2>6. HandedOut(b)
    <3>1. \A x \in b.closing \cup b.fetches : x \in Nat /\ x <= c.generation
      BY <1>1, <2>5 DEF OneLive, Client
    <3> QED BY <1>6, <2>5, <3>1 DEF HandedOut
  <2>7. Startable(b, n)
    BY <1>1, <1>6, <1>7, <2>2, <2>4, <2>5, <2>6
    DEF Startable, Sound, Remembers, Shaped, Counted, SameCounts
  <2>8. Sound(d, n) /\ Trying(d)
    BY <2>1, <2>7, StartSound
  <2>9. /\ d.everOpened = b.everOpened /\ d.store.rows = b.store.rows
        /\ d.generation = b.generation + 1
        /\ d.epoch = Null /\ d.buffered = <<>>
        /\ b.closing \subseteq d.closing /\ d.fetches = b.fetches
    <3>1. b.stream.phase # "connected"
      BY <2>7 DEF Startable
    <3>2. /\ SameCounts(b, d) /\ d.store.rows = b.store.rows
          /\ d.generation = b.generation + 1
          /\ d.epoch = Null /\ d.buffered = <<>>
          /\ d.closing = b.closing \cup ({b.socket} \ {Null})
          /\ d.fetches = b.fetches
      BY <2>1, <2>4, <3>1, StartFields
    <3> QED BY <3>2 DEF SameCounts
  <2>10. Follow(c.store, s).rows = c.store.rows
    BY <1>1, <2>2, FollowFields DEF Client
  <2>11. Superseded(c, d)
    BY <1>6, <2>5, <2>9, <2>10 DEF Superseded
  <2>12. SocketsOf(c) \ {a} \subseteq SocketsOf(d) /\ d.fetches = c.fetches
    BY <1>1, <1>2, <2>5, <2>9 DEF SocketsOf, OneLive
  <2> QED BY <1>5, <2>5, <2>8, <2>9, <2>11, <2>12 DEF SameCounts
<1> QED BY <1>8, <1>9
-----------------------------------------------------------------------------
(* The fetch of the live attempt lands. *)
LEMMA LandedFields ==
    ASSUME NEW c, NEW n \in Nat, Sound(c, n), NEW a \in c.fetches,
           a = c.generation, NEW b, b = Landed(c, a)
    PROVE  /\ b \in Client /\ OneLive(b)
           /\ SameCounts(c, b) /\ SameJoin(c, b)
           /\ b.stream = c.stream /\ b.store = c.store
           /\ b.generation = c.generation /\ b.socket = c.socket
           /\ b.opening = {} /\ b.open = {a} /\ b.closing = c.closing
           /\ b.fetches = c.fetches \ {a} /\ ~b.retry
           /\ c.socket = a /\ a \in Nat /\ c.socket # Null
           /\ c.stream.phase = "connected" /\ c.stream.cause = Null
           /\ c.epoch = Null /\ ~c.settled
           /\ c.everOpened /\ c.stream.everConnected
           /\ c.failedAttempts + 1 <= c.stream.attempt
           /\ c.store.phase \in {"loading", "refreshing"}
<1>1. c \in Client /\ OneLive(c) /\ Remembers(c) /\ Shaped(c) /\ Agrees(c)
  BY DEF Sound
<1>2. /\ c.socket \in c.open /\ c.epoch = Null /\ ~c.settled
      /\ c.socket # Null /\ a \in Nat
  BY <1>1, NullAssumption DEF OneLive, Client
<1>3. c.socket = a /\ ~c.retry /\ c.opening = {} /\ c.open = {a}
  BY <1>1, <1>2 DEF OneLive
<1>4. c.stream.phase = "connected"
  <2>1. c.stream.phase \in StreamPhase
    BY <1>1 DEF Client, StreamState
  <2> QED BY <1>1, <1>2, <1>3, <2>1 DEF Shaped, Trying, Sound, StreamPhase
<1>5. b \in Client /\ b = [c EXCEPT !.fetches = @ \ {a}]
  BY <1>1 DEF Landed, Client
<1>6. /\ SameCounts(c, b) /\ SameJoin(c, b)
      /\ b.stream = c.stream /\ b.store = c.store
      /\ b.generation = c.generation /\ b.socket = c.socket
      /\ b.opening = c.opening /\ b.open = c.open /\ b.closing = c.closing
      /\ b.fetches = c.fetches \ {a} /\ b.retry = c.retry
  BY <1>1, <1>5 DEF Client, SameCounts, SameJoin
<1>7. OneLive(b)
  BY <1>1, <1>6 DEF OneLive, SameJoin
<1>8. /\ c.stream.cause = Null /\ c.everOpened /\ c.stream.everConnected
      /\ c.failedAttempts + 1 <= c.stream.attempt
      /\ c.store.phase \in {"loading", "refreshing"}
  BY <1>1, <1>2, <1>4 DEF Remembers, Shaped, Agrees, Trying
<1> QED BY <1>2, <1>3, <1>4, <1>5, <1>6, <1>7, <1>8

LEMMA UnreachableSound ==
    ASSUME NEW c, NEW n \in Nat, Sound(c, n), NEW a \in c.fetches,
           a = c.generation, NEW d, d = SnapshotUnreachable(c, a)
    PROVE  /\ Sound(d, n) /\ d.everOpened /\ Trying(d)
           /\ c.stream.phase = "connected" /\ Superseded(c, d)
           /\ SocketsOf(c) \subseteq SocketsOf(d) /\ c.fetches \ {a} = d.fetches
<1> DEFINE b == Landed(c, a)
           e == CloseSocketSilently(b)
<1>1. /\ b \in Client /\ OneLive(b)
      /\ SameCounts(c, b) /\ SameJoin(c, b)
      /\ b.stream = c.stream /\ b.store = c.store
      /\ b.generation = c.generation /\ b.socket = c.socket
      /\ b.opening = {} /\ b.open = {a} /\ b.closing = c.closing
      /\ b.fetches = c.fetches \ {a} /\ ~b.retry
      /\ c.socket = a /\ a \in Nat /\ c.socket # Null
      /\ c.stream.phase = "connected" /\ c.stream.cause = Null
      /\ c.epoch = Null /\ ~c.settled
      /\ c.everOpened /\ c.stream.everConnected
      /\ c.failedAttempts + 1 <= c.stream.attempt
  BY LandedFields
<1> HIDE DEF b
<1>2. /\ e \in Client /\ HungUp(b, e) /\ SameCounts(b, e) /\ SameJoin(b, e)
      /\ e.stream = b.stream /\ e.store = b.store
  BY <1>1, CloseFields
<1>3. d = HandleAttemptFailure(e)
  BY DEF SnapshotUnreachable, b
<1> HIDE DEF e
<1>4. HandedOut(e)
  <2>1. \A x \in e.closing \cup e.fetches : x \in Nat /\ x <= c.generation
    <3>1. e.closing \cup e.fetches \subseteq c.closing \cup c.fetches \cup {a}
      BY <1>1, <1>2 DEF HungUp
    <3> QED BY <3>1 DEF Sound, OneLive, Client
  <2> QED BY <1>1, <1>2, <2>1 DEF HandedOut, HungUp
<1>5. /\ e.everOpened /\ e.failedAttempts = c.failedAttempts
      /\ e.socket = Null /\ e.opening = {} /\ e.open = {}
      /\ e.epoch = Null /\ ~e.settled
      /\ e.stream.everConnected = e.everOpened
  <2>1. e.everOpened /\ e.failedAttempts = c.failedAttempts
    BY <1>1, <1>2 DEF SameCounts
  <2>2. e.socket = Null /\ e.opening = {} /\ e.open = {}
    BY <1>1, <1>2 DEF HungUp
  <2>3. e.epoch = Null /\ ~e.settled
    BY <1>1, <1>2 DEF SameJoin
  <2>4. e.everOpened \in BOOLEAN /\ e.stream.everConnected \in BOOLEAN
    BY <1>2 DEF Client, StreamState
  <2> QED BY <1>1, <1>2, <2>1, <2>2, <2>3, <2>4
<1>6. e.everOpened /\ Sound(d, n) /\ Trying(d)
  <2>1. Failable(e, n)
    BY <1>1, <1>2, <1>4, <1>5 DEF Failable, Counted
  <2> QED BY <1>3, <1>5, <2>1, FailureSound
<1>7. /\ d.everOpened = e.everOpened /\ d.store.rows = e.store.rows
      /\ SameJoin(e, d) /\ SameBrowser(e, d) /\ d.socket = Null
      /\ d.generation > e.generation /\ e.generation \in Nat
  <2>1. e.generation \in Nat
    BY <1>2 DEF Client
  <2>2. /\ d.everOpened = e.everOpened /\ d.store.rows = e.store.rows
        /\ SameJoin(e, d) /\ SameBrowser(e, d) /\ d.socket = Null
        /\ d.generation \in {e.generation + 1, e.generation + 2}
    BY <1>2, <1>3, <1>5, FailureFields
  <2> QED BY <2>1, <2>2
<1>8. Superseded(c, d)
  BY <1>1, <1>2, <1>6, <1>7 DEF Superseded, SameJoin, HungUp, Sound, Client
<1>9. SocketsOf(c) \subseteq SocketsOf(d) /\ c.fetches \ {a} = d.fetches
  <2>1. c.opening \cup c.open = {a}
    BY <1>1 DEF Sound, OneLive
  <2> QED BY <1>1, <1>2, <1>7, <2>1 DEF SocketsOf, SameBrowser, HungUp
<1> QED BY <1>1, <1>2, <1>6, <1>7, <1>8, <1>9

LEMMA RefusedSound ==
    ASSUME NEW c, NEW n \in Nat, Sound(c, n), NEW a \in c.fetches,
           a = c.generation, NEW d, d = SnapshotRefused(c, a)
    PROVE  /\ Sound(d, n) /\ d.everOpened
           /\ c.stream.phase = "connected" /\ Superseded(c, d)
           /\ SocketsOf(c) \subseteq SocketsOf(d) /\ c.fetches \ {a} = d.fetches
<1> DEFINE b == Landed(c, a)
           e == [b EXCEPT !.store = TerminalFailure(@)]
<1>1. /\ b \in Client /\ OneLive(b)
      /\ SameCounts(c, b) /\ SameJoin(c, b)
      /\ b.stream = c.stream /\ b.store = c.store
      /\ b.generation = c.generation /\ b.socket = c.socket
      /\ b.opening = {} /\ b.open = {a} /\ b.closing = c.closing
      /\ b.fetches = c.fetches \ {a} /\ ~b.retry
      /\ c.socket = a /\ a \in Nat /\ c.socket # Null
      /\ c.stream.phase = "connected" /\ c.stream.cause = Null
      /\ c.epoch = Null /\ ~c.settled
      /\ c.everOpened /\ c.stream.everConnected
      /\ c.failedAttempts + 1 <= c.stream.attempt
  BY LandedFields
<1>2. d = GiveUp(e, "contract")
  BY DEF SnapshotRefused
<1> HIDE DEF b
<1>3. /\ TerminalFailure(c.store) \in StoreState
      /\ TerminalFailure(c.store).phase = "terminal-error"
      /\ TerminalFailure(c.store).rows = c.store.rows
  BY DEF TerminalFailure, StoreState, ResourcePhase, Sound, Client
<1>4. /\ e \in Client /\ SameCounts(b, e) /\ SameJoin(b, e) /\ SameBrowser(b, e)
      /\ e.store = TerminalFailure(c.store) /\ e.stream = b.stream
      /\ e.generation = b.generation /\ e.socket = b.socket
  BY <1>1, <1>3 DEF Client, SameCounts, SameJoin, SameBrowser
<1> HIDE DEF e
<1>5. HandedOut(e)
  BY <1>1, <1>4 DEF HandedOut, OneLive, SameBrowser
<1>6. Sound(d, n) /\ d.store.rows = e.store.rows
  <2>1. /\ e.everOpened /\ e.failedAttempts = c.failedAttempts
        /\ e.stream.everConnected
    BY <1>1, <1>4 DEF SameCounts
  <2>2. e.opening \cup e.open = {e.socket} \ {Null}
    BY <1>1, <1>4 DEF SameBrowser
  <2>3. e.epoch = Null /\ ~e.settled
    BY <1>1, <1>4 DEF SameJoin
  <2>4. e.failedAttempts <= e.stream.attempt
    BY <1>1, <1>4, <2>1 DEF Sound, Client, StreamState
  <2> QED BY <1>1, <1>2, <1>3, <1>4, <1>5, <2>1, <2>2, <2>3, <2>4, GiveUpSound
<1>7. SameCounts(e, d) /\ SameJoin(e, d) /\ HungUp(e, d)
  BY <1>2, <1>4, GiveUpFields DEF TerminalCause
<1>8. Superseded(c, d)
  BY <1>1, <1>3, <1>4, <1>6, <1>7 DEF Superseded, SameJoin, HungUp, Sound, Client
<1>9. SocketsOf(c) \subseteq SocketsOf(d) /\ c.fetches \ {a} = d.fetches
  <2>1. c.opening \cup c.open = {a}
    BY <1>1 DEF Sound, OneLive
  <2> QED BY <1>1, <1>4, <1>7, <2>1 DEF SocketsOf, SameBrowser, HungUp
<1> QED BY <1>1, <1>3, <1>4, <1>6, <1>7, <1>8, <1>9 DEF SameCounts

(* What is left of attempt a, and in the rows, once snapshot m is in.      *)
SnapshotTaken(c, d, a, m) ==
    LET epoch == [session |-> m.session, seq |-> m.seq]
    IN  /\ SocketsOf(c) \subseteq SocketsOf(d) /\ d.fetches = c.fetches \ {a}
        /\ d.buffered = <<>>
        /\ d.store.rows = Overlay(m.rows, c.buffered, Replay(epoch, c.buffered))
        /\ \/ d.generation > c.generation /\ d.socket = Null
           \/ d.generation = a /\ d.socket = a /\ d.epoch = epoch

LEMMA ArrivesSound ==
    ASSUME NEW c, NEW n \in Nat, Sound(c, n), NEW a \in c.fetches,
           a = c.generation, NEW m \in Message,
           NEW d, d = SnapshotArrives(c, a, m)
    PROVE  /\ Sound(d, n) /\ d.everOpened
           /\ c.stream.phase = "connected"
           /\ SnapshotTaken(c, d, a, m)
<1> DEFINE b == Landed(c, a)
           epoch == [session |-> m.session, seq |-> m.seq]
           kept == Replay(epoch, c.buffered)
           rows == Overlay(m.rows, c.buffered, kept)
           store == ApplyBatches(ApplySnapshot(c.store, m.rows), c.buffered, kept)
           e == [b EXCEPT !.settled = TRUE, !.buffered = <<>>,
                          !.epoch = epoch, !.store = store]
<1>1. /\ b \in Client /\ OneLive(b)
      /\ SameCounts(c, b) /\ SameJoin(c, b)
      /\ b.stream = c.stream /\ b.store = c.store
      /\ b.generation = c.generation /\ b.socket = c.socket
      /\ b.opening = {} /\ b.open = {a} /\ b.closing = c.closing
      /\ b.fetches = c.fetches \ {a} /\ ~b.retry
      /\ c.socket = a /\ a \in Nat /\ c.socket # Null
      /\ c.stream.phase = "connected" /\ c.stream.cause = Null
      /\ c.everOpened /\ c.stream.everConnected
      /\ c.failedAttempts + 1 <= c.stream.attempt
  BY LandedFields
<1>2. b.store = c.store
  BY <1>1
<1>3. d = IF Mismatched(epoch, c.buffered) THEN GiveUp(e, "session-mismatch")
          ELSE Advance([e EXCEPT !.failedAttempts = 0], AfterJoined(c.stream))
  BY <1>2 DEF SnapshotArrives
<1>4. epoch \in Epoch /\ epoch # Null
  <2>1. epoch \in Epoch
    BY DEF Epoch, Message
  <2> QED BY <2>1, EpochAssumption
<1>5. store \in StoreState /\ store.phase = "ready" /\ store.rows = rows
  <2>1. m.rows \in Rows /\ c.buffered \in Seq(Message)
    BY DEF Message, Sound, Client
  <2>2. kept \in SUBSET (DOMAIN c.buffered)
    BY DEF Replay
  <2>3. rows \in Rows
    BY <2>1, <2>2, OverlayType
  <2>4. store = [phase |-> "ready", held |-> TRUE, rows |-> rows]
    <3> DEFINE fresh == ApplySnapshot(c.store, m.rows)
    <3>1. fresh = [phase |-> "ready", held |-> TRUE, rows |-> m.rows]
      BY DEF ApplySnapshot
    <3>2. fresh.rows = m.rows
      BY <3>1
    <3>3. store = [fresh EXCEPT !.rows = Overlay(fresh.rows, c.buffered, kept)]
      BY DEF ApplyBatches
    <3> HIDE DEF fresh, store, kept
    <3> QED BY <3>1, <3>2, <3>3
  <2> HIDE DEF rows, store
  <2> QED BY <2>3, <2>4 DEF StoreState, ResourcePhase
<1> HIDE DEF b, epoch, kept, store
<1>6. /\ e \in Client /\ SameCounts(b, e) /\ SameBrowser(b, e)
      /\ e.epoch = epoch /\ e.settled /\ e.store = store /\ e.buffered = <<>>
      /\ e.stream = b.stream /\ e.retry = b.retry
      /\ e.generation = b.generation /\ e.socket = b.socket
  <2>1. <<>> \in Seq(Message)
    BY EmptySeq
  <2>2. e \in Client
    BY <1>1, <1>4, <1>5, <2>1 DEF Client
  <2> QED BY <1>1, <2>2 DEF Client, SameCounts, SameBrowser
<1> HIDE DEF e
<1>7. /\ e.everOpened /\ e.failedAttempts = c.failedAttempts
      /\ e.opening = {} /\ e.open = {a} /\ e.closing = c.closing
      /\ e.fetches = c.fetches \ {a}
  BY <1>1, <1>6 DEF SameCounts, SameBrowser
<1>8. CASE Mismatched(epoch, c.buffered)
  <2>1. d = GiveUp(e, "session-mismatch")
    BY <1>3, <1>8
  <2>2. e.opening \cup e.open = {e.socket} \ {Null}
    BY <1>1, <1>6, <1>7
  <2>3. HandedOut(e)
    BY <1>1, <1>6, <1>7 DEF HandedOut, OneLive
  <2>4. e.failedAttempts <= e.stream.attempt
    BY <1>1, <1>6, <1>7 DEF Sound, Client, StreamState
  <2>5. e.stream.everConnected /\ (e.settled <=> e.epoch # Null)
    BY <1>1, <1>4, <1>6
  <2>6. Sound(d, n) /\ d.store.rows = e.store.rows
    BY <1>1, <1>6, <1>7, <2>1, <2>2, <2>3, <2>4, <2>5, GiveUpSound
  <2>7. SameCounts(e, d) /\ SameJoin(e, d) /\ HungUp(e, d)
    BY <1>6, <2>1, GiveUpFields DEF TerminalCause
  <2>8. /\ d.everOpened /\ d.buffered = <<>>
        /\ d.generation > c.generation /\ d.socket = Null
        /\ d.fetches = c.fetches \ {a}
    BY <1>1, <1>6, <1>7, <2>7 DEF SameCounts, SameJoin, HungUp
  <2>9. SocketsOf(c) \subseteq SocketsOf(d)
    <3>1. c.opening \cup c.open = {a}
      BY <1>1 DEF Sound, OneLive
    <3> QED BY <1>1, <1>6, <1>7, <2>7, <3>1 DEF SocketsOf, HungUp
  <2> QED BY <1>1, <1>5, <1>6, <2>6, <2>8, <2>9
          DEF SnapshotTaken, rows, kept, epoch
<1>9. CASE ~Mismatched(epoch, c.buffered)
  <2> DEFINE f == [e EXCEPT !.failedAttempts = 0]
             s == AfterJoined(c.stream)
  <2>1. d = Advance(f, s)
    BY <1>3, <1>9
  <2>2. /\ f \in Client /\ SameBrowser(e, f) /\ f.failedAttempts = 0
        /\ f.everOpened = e.everOpened /\ f.probeFailures = e.probeFailures
        /\ f.epoch = epoch /\ f.settled /\ f.store = store /\ f.buffered = <<>>
        /\ f.stream = e.stream /\ f.retry = e.retry
        /\ f.generation = e.generation /\ f.socket = e.socket
    BY <1>6 DEF Client, SameBrowser
  <2> HIDE DEF f
  <2>3. /\ s \in StreamState /\ s.phase = "connected" /\ s.attempt = 0
        /\ s.everConnected /\ s.cause = Null
    <3>1. c.stream \in StreamState
      BY DEF Sound, Client
    <3>2. s \in StreamState
      BY <3>1, StreamTransitions
    <3> QED BY <1>1, <3>1, <3>2 DEF AfterJoined, StreamState
  <2> HIDE DEF s
  <2>4. Follow(store, s) = store
    BY <1>5, <2>3, FollowFields
  <2>5. d \in Client /\ d = [f EXCEPT !.stream = s, !.store = store]
    BY <2>1, <2>2, <2>3, <2>4, AdvanceFields
  <2>6. /\ SameBrowser(f, d) /\ d.failedAttempts = 0
        /\ d.everOpened = f.everOpened
        /\ d.epoch = epoch /\ d.settled /\ d.store = store /\ d.buffered = <<>>
        /\ d.stream = s /\ d.retry = f.retry
        /\ d.generation = f.generation /\ d.socket = f.socket
    BY <2>2, <2>5 DEF Client, SameBrowser
  <2>7. /\ d.opening = {} /\ d.open = {a} /\ d.closing = c.closing
        /\ d.fetches = c.fetches \ {a} /\ d.everOpened /\ ~d.retry
        /\ d.generation = a /\ d.socket = a
    BY <1>1, <1>6, <1>7, <2>2, <2>6 DEF SameBrowser
  <2>8. OneLive(d)
    BY <1>1, <1>4, <2>6, <2>7, NullAssumption DEF OneLive
  <2>9. Remembers(d)
    <3>1. "handshake-exhausted" # Null
      BY CausesAreNotNull DEF TerminalCause
    <3>2. d.stream.everConnected = d.everOpened
      BY <2>3, <2>5, <2>6, <2>7 DEF Client, StreamState
    <3> QED BY <2>3, <2>6, <2>7, <3>1, <3>2 DEF Remembers
  <2>10. Shaped(d) /\ Agrees(d) /\ Counted(d, n)
    BY <1>4, <1>5, <2>3, <2>6, <2>7 DEF Shaped, Agrees, Trying, Counted
  <2>11. d.stream.phase # "idle"
    BY <2>3, <2>6
  <2>12. SocketsOf(c) \subseteq SocketsOf(d)
    <3>1. c.opening \cup c.open = {a}
      BY <1>1 DEF Sound, OneLive
    <3> QED BY <2>7, <3>1 DEF SocketsOf
  <2> QED BY <1>1, <1>5, <2>5, <2>6, <2>7, <2>8, <2>9, <2>10, <2>11, <2>12
          DEF SnapshotTaken, Sound, rows, kept, epoch
<1> QED BY <1>8, <1>9
-----------------------------------------------------------------------------
(* connect() from any phase, counted as one operator cycle more. *)
LEMMA ConnectSound ==
    ASSUME NEW c \in Client, NEW n \in Nat,
           c.stream.phase # "connected", OneLive(c),
           c.stream.everConnected = c.everOpened,
           c.failedAttempts <= c.stream.attempt,
           ~c.everOpened => c.failedAttempts <= 3 * n,
           NEW d, d = Connect(c)
    PROVE  /\ Sound(d, n + 1) /\ Trying(d) /\ d.everOpened = c.everOpened
           /\ d.failedAttempts = c.failedAttempts
           /\ Superseded(c, d)
           /\ SocketsOf(c) \subseteq SocketsOf(d) /\ d.fetches = c.fetches
<1> DEFINE b == [c EXCEPT !.retry = FALSE, !.probeFailures = 0]
<1>1. /\ b \in Client /\ ~b.retry /\ b.probeFailures = 0
      /\ b.stream = c.stream /\ b.socket = c.socket /\ SameBrowser(c, b)
      /\ b.generation = c.generation /\ b.everOpened = c.everOpened
      /\ b.failedAttempts = c.failedAttempts /\ b.store = c.store
  BY DEF Client, SameBrowser
<1>2. d = StartAttempt(b)
  BY DEF Connect
<1> HIDE DEF b
<1>3. c.failedAttempts \in Nat
  BY DEF Client
<1>4. Counted(b, n + 1)
  BY <1>1, <1>3 DEF Counted
<1>5. HandedOut(b) /\ b.opening \cup b.open = {b.socket} \ {Null}
      /\ (b.socket # Null => b.socket = b.generation)
  BY <1>1 DEF OneLive, SameBrowser, HandedOut
<1>6. Startable(b, n + 1)
  BY <1>1, <1>4, <1>5 DEF Startable, InitialProbeAttemptLimit
<1>7. Sound(d, n + 1) /\ Trying(d)
  BY <1>2, <1>6, StartSound
<1>8. /\ SameCounts(b, d) /\ d.store.rows = b.store.rows
      /\ d.generation = b.generation + 1 /\ b.generation \in Nat
      /\ d.epoch = Null /\ d.buffered = <<>> /\ d.fetches = b.fetches
      /\ b.closing \cup ({b.socket} \ {Null}) \subseteq d.closing
  <2>1. b.generation \in Nat /\ b.stream.phase # "connected"
    BY <1>1 DEF Client
  <2>2. /\ SameCounts(b, d) /\ d.store.rows = b.store.rows
        /\ d.generation = b.generation + 1
        /\ d.epoch = Null /\ d.buffered = <<>> /\ d.fetches = b.fetches
        /\ d.closing = b.closing \cup ({b.socket} \ {Null})
    BY <1>1, <1>2, <2>1, StartFields
  <2> QED BY <2>1, <2>2
<1>9. Superseded(c, d)
  BY <1>1, <1>8 DEF Superseded
<1>10. SocketsOf(c) \subseteq SocketsOf(d) /\ d.fetches = c.fetches
  BY <1>1, <1>8 DEF SocketsOf, SameBrowser, OneLive
<1> QED BY <1>1, <1>7, <1>8, <1>9, <1>10 DEF SameCounts

(* The operator's connect of a mounted page. *)
LEMMA ManualSound ==
    ASSUME NEW c, NEW n \in Nat, Sound(c, n), NEW d, d = Connect(c)
    PROVE  /\ Sound(d, n + 1) /\ d.everOpened = c.everOpened
           /\ d.stream.phase # "failed" /\ (d = c \/ Superseded(c, d))
           /\ SocketsOf(c) \subseteq SocketsOf(d) /\ d.fetches = c.fetches
<1>1. /\ c \in Client /\ OneLive(c) /\ Remembers(c) /\ Shaped(c)
      /\ Counted(c, n)
  BY DEF Sound
<1>2. c.failedAttempts \in Nat /\ c.probeFailures \in Nat
  BY <1>1 DEF Client
<1>3. CASE c.stream.phase = "connected"
  <2>1. d = c
    BY <1>3 DEF Connect
  <2>2. Counted(c, n + 1)
    BY <1>1, <1>2 DEF Counted
  <2> QED BY <1>3, <2>1, <2>2 DEF Sound
<1>4. CASE c.stream.phase # "connected"
  <2>1. ~c.everOpened => c.failedAttempts <= 3 * n
    BY <1>1, <1>2 DEF Counted, Remembers, InitialProbeAttemptLimit
  <2>2. /\ Sound(d, n + 1) /\ Trying(d) /\ d.everOpened = c.everOpened
        /\ Superseded(c, d)
        /\ SocketsOf(c) \subseteq SocketsOf(d) /\ d.fetches = c.fetches
    BY <1>1, <1>4, <2>1, ConnectSound DEF Remembers, Shaped
  <2> QED BY <2>2 DEF Trying
<1> QED BY <1>3, <1>4

(* The retry timer. *)
LEMMA RetrySound ==
    ASSUME NEW c, NEW n \in Nat, Sound(c, n), c.retry, NEW d, d = RetryFires(c)
    PROVE  /\ Sound(d, n) /\ Trying(c) /\ Trying(d)
           /\ d.everOpened = c.everOpened /\ Superseded(c, d)
           /\ SocketsOf(c) \subseteq SocketsOf(d) /\ d.fetches = c.fetches
<1>1. /\ c \in Client /\ OneLive(c) /\ Remembers(c) /\ Shaped(c)
      /\ Counted(c, n)
  BY DEF Sound
<1> DEFINE b == [c EXCEPT !.retry = FALSE]
<1>2. /\ b \in Client /\ ~b.retry /\ SameCounts(c, b)
      /\ b.stream = c.stream /\ b.socket = c.socket /\ SameBrowser(c, b)
      /\ b.generation = c.generation /\ b.store = c.store
  BY <1>1 DEF Client, SameBrowser, SameCounts
<1>3. d = StartAttempt(b)
  BY DEF RetryFires
<1> HIDE DEF b
<1>4. Trying(c)
  <2>1. c.stream.phase \in StreamPhase
    BY <1>1 DEF Client, StreamState
  <2> QED BY <1>1, <2>1 DEF Shaped, Sound, Trying, StreamPhase
<1>5. ~c.everOpened => c.probeFailures < InitialProbeAttemptLimit
  <2>1. c.stream.cause = Null /\ c.probeFailures \in Nat
    BY <1>1, <1>4 DEF Remembers, Trying, Client
  <2>2. c.stream.cause # "handshake-exhausted"
    BY <2>1, CausesAreNotNull DEF TerminalCause
  <2> QED BY <1>1, <2>1, <2>2 DEF Remembers, InitialProbeAttemptLimit
<1>6. Counted(b, n) /\ HandedOut(b)
      /\ b.opening \cup b.open = {b.socket} \ {Null}
      /\ (b.socket # Null => b.socket = b.generation)
  BY <1>1, <1>2 DEF Counted, HandedOut, OneLive, SameBrowser, SameCounts
<1>7. Startable(b, n)
  BY <1>1, <1>2, <1>4, <1>5, <1>6
  DEF Startable, Trying, Remembers, Shaped, SameCounts
<1>8. Sound(d, n) /\ Trying(d)
  BY <1>3, <1>7, StartSound
<1>9. /\ SameCounts(b, d) /\ d.store.rows = b.store.rows
      /\ d.generation = b.generation + 1 /\ b.generation \in Nat
      /\ d.epoch = Null /\ d.buffered = <<>> /\ d.fetches = b.fetches
      /\ b.closing \cup ({b.socket} \ {Null}) \subseteq d.closing
  BY <1>2, <1>3, <1>7, StartFields DEF Startable, Client
<1>10. Superseded(c, d)
  BY <1>2, <1>9 DEF Superseded
<1>11. SocketsOf(c) \subseteq SocketsOf(d) /\ d.fetches = c.fetches
  BY <1>1, <1>2, <1>9 DEF SocketsOf, SameBrowser, OneLive
<1> QED BY <1>2, <1>4, <1>8, <1>9, <1>10, <1>11 DEF SameCounts
-----------------------------------------------------------------------------
(* A network that may deliver any message at all. *)
AnyNetwork ==
    \/ \E s \in Sockets :
          \/ SocketOpens(s)
          \/ SocketCloses(s)
          \/ \E f \in Message : FrameArrives(s, f)
    \/ \E a \in client.fetches :
          \/ \E snapshot \in Message : FetchArrives(a, snapshot)
          \/ FetchFails(a)
          \/ FetchRefused(a)

AnyNext == Mount \/ Unmount \/ ManualRetry \/ RetryTimer \/ AnyNetwork

LEMMA NetworkIsAny == [Next]_vars => [AnyNext]_vars
BY TransportAssumption DEF Next, Network, AnyNext, AnyNetwork

(* A network event of a mounted page: the invariant holds on, and a failed *)
(* stream is left as it was.                                               *)
LEMMA EventSound ==
    ASSUME NEW n \in Nat, Sound(client, n), AnyNetwork
    PROVE  /\ Sound(client', n)
           /\ client.stream.phase = "failed" => client'.stream = client.stream
           /\ client.everOpened => client'.everOpened
<1> DEFINE Good(d) == /\ Sound(d, n)
                      /\ client.stream.phase = "failed" => d.stream = client.stream
                      /\ client.everOpened => d.everOpened
<1>1. client \in Client /\ OneLive(client)
  BY DEF Sound
<1>2. ASSUME NEW d \in Client, Stale(client, d)
      PROVE  Good(d)
  BY <1>1, <1>2, StaleSound DEF Stale, SameCounts
<1>3. Good(client)
  OBVIOUS
<1>4. ASSUME NEW s \in Sockets, SocketOpens(s)
      PROVE  Good(client')
  <2>1. client' = OnOpen(client, s) /\ s \in client.opening \cup client.closing
    BY <1>4 DEF SocketOpens
  <2>2. CASE s # client.generation
    BY <1>1, <1>3, <2>1, <2>2, StaleEvents
  <2>3. CASE s = client.generation
    BY <2>1, <2>3, OpenSound DEF Trying
  <2> QED BY <2>2, <2>3
<1>5. ASSUME NEW s \in Sockets, SocketCloses(s)
      PROVE  Good(client')
  <2>1. client' = OnClose(client, s)
    BY <1>5 DEF SocketCloses
  <2>2. CASE s # client.generation
    BY <1>1, <1>2, <2>1, <2>2, StaleEvents
  <2>3. CASE s = client.generation
    BY <2>1, <2>3, CloseSound DEF Sockets
  <2> QED BY <2>2, <2>3
<1>6. ASSUME NEW s \in Sockets, NEW f \in Message, FrameArrives(s, f)
      PROVE  Good(client')
  <2>1. client' = OnMessage(client, s, f) /\ s \in client.open \cup client.closing
    BY <1>6 DEF FrameArrives
  <2>2. CASE s # client.generation
    BY <1>1, <1>3, <2>1, <2>2, StaleEvents
  <2>3. CASE s = client.generation
    BY <2>1, <2>3, MessageSound
  <2> QED BY <2>2, <2>3
<1>7. ASSUME NEW a \in client.fetches, NEW m \in Message, FetchArrives(a, m)
      PROVE  Good(client')
  <2>1. client' = SnapshotArrives(client, a, m)
    BY <1>7 DEF FetchArrives
  <2>2. CASE a # client.generation
    BY <1>1, <1>2, <2>1, <2>2, StaleEvents
  <2>3. CASE a = client.generation
    <3>1. PICK d : d = client'
      OBVIOUS
    <3>2. d = SnapshotArrives(client, a, m)
      BY <2>1, <3>1
    <3>3. Sound(d, n) /\ d.everOpened /\ client.stream.phase = "connected"
      BY <2>3, <3>2, ArrivesSound
    <3> QED BY <3>1, <3>3
  <2> QED BY <2>2, <2>3
<1>8. ASSUME NEW a \in client.fetches, FetchFails(a)
      PROVE  Good(client')
  <2>1. client' = SnapshotUnreachable(client, a)
    BY <1>8 DEF FetchFails
  <2>2. CASE a # client.generation
    BY <1>1, <1>2, <2>1, <2>2, StaleEvents
  <2>3. CASE a = client.generation
    BY <2>1, <2>3, UnreachableSound
  <2> QED BY <2>2, <2>3
<1>9. ASSUME NEW a \in client.fetches, FetchRefused(a)
      PROVE  Good(client')
  <2>1. client' = SnapshotRefused(client, a)
    BY <1>9 DEF FetchRefused
  <2>2. CASE a # client.generation
    BY <1>1, <1>2, <2>1, <2>2, StaleEvents
  <2>3. CASE a = client.generation
    BY <2>1, <2>3, RefusedSound
  <2> QED BY <2>2, <2>3
<1>10. Good(client')
  BY <1>4, <1>5, <1>6, <1>7, <1>8, <1>9 DEF AnyNetwork
<1> QED BY <1>10

(* After an unmount every event still to come is of a superseded attempt.  *)
LEMMA EventFrozen ==
    ASSUME Frozen(client), AnyNetwork
    PROVE  Frozen(client') /\ Stale(client, client')
<1>1. client \in Client /\ OneLive(client)
  BY DEF Frozen
<1>2. ASSUME NEW d \in Client, Stale(client, d)
      PROVE  Frozen(d) /\ Stale(client, d)
  BY <1>1, <1>2, StaleSound
<1>3. Stale(client, client)
  BY DEF Stale, SameCounts, SameJoin
<1>4. \A s \in Sockets : s # client.generation
  BY <1>1 DEF Sockets, Frozen, OneLive
<1>5. \A a \in client.fetches : a # client.generation
  BY NullAssumption DEF Frozen, OneLive
<1>6. ASSUME NEW s \in Sockets,
             SocketOpens(s) \/ SocketCloses(s) \/ \E f \in Message : FrameArrives(s, f)
      PROVE  Frozen(client') /\ Stale(client, client')
  <2>1. s # client.generation
    BY <1>4
  <2>2. CASE SocketOpens(s)
    BY <1>1, <1>3, <2>1, <2>2, StaleEvents DEF SocketOpens
  <2>3. CASE SocketCloses(s)
    BY <1>1, <1>2, <2>1, <2>3, StaleEvents DEF SocketCloses
  <2>4. ASSUME NEW f \in Message, FrameArrives(s, f)
        PROVE  Frozen(client') /\ Stale(client, client')
    BY <1>1, <1>3, <2>1, <2>4, StaleEvents DEF FrameArrives
  <2> QED BY <1>6, <2>2, <2>3, <2>4
<1>7. ASSUME NEW a \in client.fetches,
             \/ \E m \in Message : FetchArrives(a, m)
             \/ FetchFails(a) \/ FetchRefused(a)
      PROVE  Frozen(client') /\ Stale(client, client')
  <2>1. a # client.generation
    BY <1>5
  <2>2. client' = Landed(client, a)
    BY <1>1, <1>7, <2>1, StaleEvents DEF FetchArrives, FetchFails, FetchRefused
  <2> QED BY <1>1, <1>2, <2>1, <2>2, StaleEvents
<1> QED BY <1>6, <1>7 DEF AnyNetwork

(* What a network event leaves to the page. *)
LEMMA EventKeepsPage ==
    ASSUME TransportInv, AnyNetwork
    PROVE  mounted' = mounted /\ connects' = connects /\ faults' \in Nat
BY DEF TransportInv, AnyNetwork, SocketOpens, SocketCloses, FrameArrives,
       FetchArrives, FetchFails, FetchRefused, Fault
-----------------------------------------------------------------------------
LEMMA TransportInit == Init => TransportInv
<1> SUFFICES ASSUME Init PROVE TransportInv
  OBVIOUS
<1>1. mounted \in BOOLEAN /\ ~mounted
  BY DEF Init
<1>2. faults \in Nat /\ connects = 0 /\ client = InitialClient
  BY DEF Init
<1> QED BY <1>1, <1>2 DEF TransportInv

LEMMA InitialClientShape ==
    /\ InitialClient \in Client
    /\ OneLive(InitialClient) /\ Agrees(InitialClient)
    /\ InitialClient.stream.phase = "idle"
    /\ InitialClient.stream.everConnected = InitialClient.everOpened
    /\ InitialClient.failedAttempts = 0 /\ InitialClient.stream.attempt = 0
    /\ ~InitialClient.retry /\ InitialClient.fetches = {}
    /\ InitialClient.opening = {} /\ InitialClient.open = {}
    /\ InitialClient.closing = {}
BY InitialClientType DEF InitialClient, InitialStreamState, InitialStore,
   OneLive, Agrees, Trying

(* The mounting effect, run once or as StrictMode runs it. *)
LEMMA MountSound ==
    ASSUME client = InitialClient,
           client' \in {Connect(client), Connect(Disconnect(Connect(client)))}
    PROVE  Sound(client', 1)
<1> DEFINE b == Connect(client)
           e == Disconnect(b)
<1>1. /\ Sound(b, 1) /\ Trying(b) /\ b.failedAttempts = 0
  BY InitialClientShape, ConnectSound
<1> HIDE DEF b
<1>2. /\ Frozen(e) /\ e.stream = b.stream /\ SameCounts(b, e)
  BY <1>1, DisconnectFrozen DEF Sound
<1> HIDE DEF e
<1>3. CASE client' = Connect(e)
  <2>1. /\ e \in Client /\ OneLive(e) /\ e.stream.phase # "connected"
        /\ e.stream.everConnected = e.everOpened
        /\ e.failedAttempts <= e.stream.attempt
        /\ e.failedAttempts <= 3 * 0
    BY <1>1, <1>2 DEF Frozen, Trying, Sound, Remembers, Shaped, SameCounts
  <2> QED BY <1>3, <2>1, ConnectSound
<1> QED BY <1>1, <1>3 DEF e, b

LEMMA TransportStep == TransportInv /\ [AnyNext]_vars => TransportInv'
<1> SUFFICES ASSUME TransportInv, [AnyNext]_vars
             PROVE  TransportInv'
  OBVIOUS
<1>1. mounted \in BOOLEAN /\ faults \in Nat /\ connects \in Nat
  BY DEF TransportInv
<1>2. CASE Mount
  <2>1. client = InitialClient
    BY <1>2 DEF Mount, TransportInv
  <2>2. Sound(client', 1)
    BY <1>2, <2>1, MountSound DEF Mount
  <2> QED BY <1>1, <1>2, <2>2 DEF Mount, TransportInv
<1>3. CASE Unmount
  <2>1. Sound(client, connects) /\ connects # 0
    BY <1>3 DEF Unmount, TransportInv
  <2>2. Frozen(client')
    BY <1>3, <2>1, DisconnectFrozen DEF Unmount, Sound
  <2> QED BY <1>1, <1>3, <2>1, <2>2 DEF Unmount, TransportInv
<1>4. CASE ManualRetry
  <2>1. Sound(client, connects) /\ connects # 0
    BY <1>4 DEF ManualRetry, TransportInv
  <2>2. Sound(client', connects + 1)
    BY <1>1, <1>4, <2>1, ManualSound DEF ManualRetry
  <2> QED BY <1>1, <1>4, <2>1, <2>2 DEF ManualRetry, TransportInv
<1>5. CASE RetryTimer
  <2>1. Sound(client, connects) /\ connects # 0 /\ mounted
    BY <1>5, InitialClientShape DEF RetryTimer, TransportInv, Frozen
  <2>2. Sound(client', connects)
    BY <1>1, <1>5, <2>1, RetrySound DEF RetryTimer
  <2> QED BY <1>1, <1>5, <2>1, <2>2 DEF RetryTimer, TransportInv
<1>6. CASE AnyNetwork
  <2>1. mounted' = mounted /\ connects' = connects /\ faults' \in Nat
    BY <1>6, EventKeepsPage
  <2>2. connects # 0
    BY <1>6, InitialClientShape DEF AnyNetwork, Sockets, TransportInv
  <2>3. mounted => Sound(client', connects)
    BY <1>1, <1>6, <2>2, EventSound DEF TransportInv
  <2>4. ~mounted => Frozen(client')
    BY <1>6, <2>2, EventFrozen DEF TransportInv
  <2> QED BY <1>1, <2>1, <2>2, <2>3, <2>4 DEF TransportInv
<1>7. CASE UNCHANGED vars
  BY <1>7 DEF TransportInv, vars
<1> QED BY <1>2, <1>3, <1>4, <1>5, <1>6, <1>7 DEF AnyNext

LEMMA TransportInvariant == Spec => []TransportInv
BY TransportInit, NetworkIsAny, TransportStep, PTL DEF Spec
-----------------------------------------------------------------------------
LEMMA TransportInvTypes == TransportInv => TypeOK
BY InitialClientType DEF TransportInv, TypeOK, Sound, Frozen

(* TypeOK: the state is well formed, whatever the network does.            *)
THEOREM TransportTypes == Spec => []TypeOK
BY TransportInvTypes, TransportInvariant, PTL

LEMMA InvOneAttempt == TransportInv => OneAttempt
BY InitialClientShape DEF TransportInv, OneAttempt, OneLive, Sound, Frozen

(* OneAttempt: at most one socket is alive, it is the one held and heard,  *)
(* and no retry is due while it is, in every order of closes, retries and  *)
(* late events (fleetTransport's generation guard).                        *)
THEOREM TransportOneAttempt == Spec => []OneAttempt
BY InvOneAttempt, TransportInvariant, PTL

LEMMA InvResourceAgrees == TransportInv => ResourceAgrees
<1>1. ASSUME NEW c \in {client}, Agrees(c)
      PROVE  ResourceAgrees
  BY <1>1 DEF Agrees, Trying, ResourceAgrees
<1> QED BY <1>1, InitialClientShape DEF TransportInv, Sound, Frozen

(* ResourceAgrees: the phase the pages render never disagrees with the     *)
(* stream's (useFleetTransport's onConnectionState).                       *)
THEOREM TransportResource == Spec => []ResourceAgrees
BY InvResourceAgrees, TransportInvariant, PTL

(* What the banner's sentence and number are, by phase.                    *)
LEMMA BannerByPhase ==
    ASSUME NEW s \in StreamState, s.phase # "idle",
           s.cause # Null <=> s.phase = "failed"
    PROVE  LET b == Banner(s)
           IN  /\ s.phase \in {"connecting", "reconnecting"} =>
                     /\ b.sentence = s.phase
                     /\ s.attempt >= 1 => b.attempt = s.attempt
               /\ s.phase = "connected" => b.sentence = Null
               /\ s.phase = "failed" =>
                     b.sentence = IF s.cause = "contract" THEN "disconnected"
                                  ELSE s.cause
<1>1. s.phase \in StreamPhase /\ s.cause \in TerminalCause \cup {Null}
  BY DEF StreamState
<1>2. CASE s.phase \in {"connecting", "reconnecting"}
  BY <1>2 DEF Banner, Published
<1>3. CASE s.phase = "connected"
  BY <1>3 DEF Banner, Published
<1>4. CASE s.phase = "failed"
  BY <1>1, <1>4 DEF Banner, Published, TerminalCause
<1> QED BY <1>1, <1>2, <1>3, <1>4 DEF StreamPhase

LEMMA InvBannerIsHonest == TransportInv => BannerIsHonest
<1>1. ASSUME TransportInv, mounted
      PROVE  BannerIsHonest
  <2>1. connects # 0 /\ connects \in Nat /\ Sound(client, connects)
    BY <1>1 DEF TransportInv
  <2>2. /\ client \in Client /\ OneLive(client) /\ Remembers(client)
        /\ Shaped(client) /\ Counted(client, connects)
        /\ client.stream.phase # "idle"
    BY <2>1 DEF Sound
  <2> DEFINE b == Banner(client.stream)
             p == client.stream.phase
  <2>3. client.stream \in StreamState
    BY <2>2 DEF Client
  <2>4. /\ p \in {"connecting", "reconnecting"} =>
              /\ b.sentence = p
              /\ client.stream.attempt >= 1 => b.attempt = client.stream.attempt
        /\ p = "connected" => b.sentence = Null
        /\ p = "failed" =>
              b.sentence = IF client.stream.cause = "contract"
                           THEN "disconnected" ELSE client.stream.cause
    BY <2>2, <2>3, BannerByPhase DEF Remembers
  <2>5. /\ p \in StreamPhase \ {"idle"} /\ client.stream.attempt \in Nat
        /\ client.stream.cause \in TerminalCause \cup {Null}
        /\ client.failedAttempts \in Nat /\ client.probeFailures \in Nat
        /\ client.everOpened \in BOOLEAN
    BY <2>2, <2>3 DEF StreamState, Client
  <2> HIDE DEF b
  <2>6. CASE p \in {"connecting", "reconnecting"}
    <3>1. b.sentence = p /\ b.attempt = client.stream.attempt
          /\ client.stream.attempt >= 1
      BY <2>2, <2>4, <2>6 DEF Shaped, Trying
    <3>2. /\ IF client.retry THEN client.socket = Null
             ELSE client.socket \in client.opening
          /\ b.sentence = "reconnecting" <=> client.everOpened
      BY <2>2, <2>5, <2>6, <3>1 DEF Shaped, Trying, Remembers
    <3>3. b.attempt # Null /\ b.sentence # Null /\ b.sentence # "handshake-exhausted"
      BY <2>5, <2>6, <3>1, NullAssumption DEF StreamPhase
    <3>4. client.failedAttempts + (IF client.retry THEN 0 ELSE 1) <= b.attempt
      <4>1. ~client.retry => client.socket # Null /\ client.epoch = Null
        BY <2>2, <2>6, <3>2, NullAssumption DEF Shaped, Trying, Client
      <4> QED BY <2>2, <2>5, <3>1, <4>1 DEF Shaped
    <3>5. ~(~client.everOpened /\ client.probeFailures = InitialProbeAttemptLimit)
      <4>1. client.stream.cause # "handshake-exhausted"
        BY <2>2, <2>6, CausesAreNotNull DEF Remembers, TerminalCause
      <4> QED BY <2>2, <4>1 DEF Remembers
    <3> QED BY <2>2, <2>5, <2>6, <3>1, <3>2, <3>3, <3>4, <3>5, <2>1
            DEF BannerIsHonest, b, Counted, Remembers, InitialProbeAttemptLimit
  <2>7. CASE p = "connected"
    <3>1. b.sentence = Null /\ client.everOpened
      BY <2>2, <2>4, <2>7 DEF Remembers
    <3>2. client.socket \in client.open /\ (Joined \/ client.generation \in client.fetches)
      BY <2>2, <2>7, NullAssumption DEF Shaped, Joined, Client
    <3>3. /\ b.sentence \notin {"connecting", "reconnecting"}
          /\ b.sentence # "handshake-exhausted"
      BY <3>1, NullAssumption DEF StreamPhase, TerminalCause
    <3> QED BY <3>1, <3>2, <3>3 DEF BannerIsHonest, b
  <2>8. CASE p = "failed"
    <3>1. b.sentence = IF client.stream.cause = "contract"
                       THEN "disconnected" ELSE client.stream.cause
      BY <2>4, <2>8
    <3>2. client.stream.cause \in TerminalCause
      BY <2>2, <2>5, <2>8 DEF Remembers
    <3>3. /\ b.sentence \notin {"connecting", "reconnecting", Null}
          /\ b.sentence = "handshake-exhausted" <=>
                client.stream.cause = "handshake-exhausted"
      BY <3>1, <3>2, NullAssumption DEF TerminalCause
    <3>4. client.socket = Null /\ ~client.retry
      BY <2>2, <2>8 DEF Shaped
    <3>5. client.generation \notin client.fetches
      BY <2>2, <3>4, NullAssumption DEF OneLive, Client
    <3>6. client.stream.cause = "handshake-exhausted" <=>
            ~client.everOpened /\ client.probeFailures = InitialProbeAttemptLimit
      BY <2>2 DEF Remembers
    <3>7. ~client.everOpened =>
            client.failedAttempts <= InitialProbeAttemptLimit * connects
      BY <2>1, <2>2, <2>5 DEF Counted, Remembers, InitialProbeAttemptLimit
    <3> QED BY <3>3, <3>4, <3>5, <3>6, <3>7 DEF BannerIsHonest, b
  <2> QED BY <2>5, <2>6, <2>7, <2>8 DEF StreamPhase
<1> QED BY <1>1 DEF BannerIsHonest

(* BannerIsHonest: while the page is up, what its banner says is what the  *)
(* client is doing, and the attempt it names is not behind the failures.   *)
THEOREM TransportBanner == Spec => []BannerIsHonest
BY InvBannerIsHonest, TransportInvariant, PTL

(* What a page that is up waits for when it has not joined: a retry that   *)
(* is due, a socket that is opening, or the snapshot fetch of the          *)
(* connection that is open.                                                *)
UnderWay ==
    \/ client.retry
    \/ client.socket \in client.opening
    \/ client.socket \in client.open /\ client.generation \in client.fetches

NeverAtRest ==
    mounted => Joined \/ client.stream.phase = "failed" \/ UnderWay

LEMMA InvNeverAtRest == TransportInv => NeverAtRest
<1> SUFFICES ASSUME TransportInv, mounted PROVE NeverAtRest
  BY DEF NeverAtRest
<1>1. /\ client.stream.phase \in StreamPhase \ {"idle"}
      /\ Shaped(client) /\ client \in Client
  BY DEF TransportInv, Sound, Client, StreamState
<1>2. CASE Trying(client)
  BY <1>1, <1>2 DEF Shaped, NeverAtRest, UnderWay
<1>3. CASE client.stream.phase = "connected"
  <2>1. client.socket \in client.open /\ client.socket # Null
    BY <1>1, <1>3, NullAssumption DEF Shaped, Client
  <2> QED BY <1>1, <1>3, <2>1 DEF Shaped, NeverAtRest, UnderWay, Joined
<1>4. CASE client.stream.phase = "failed"
  BY <1>4 DEF NeverAtRest
<1> QED BY <1>1, <1>2, <1>3, <1>4 DEF Trying, StreamPhase

(* NeverAtRest: while the page is up, a client that has neither joined nor *)
(* stopped has something under way that it will hear of, whatever closes,  *)
(* fails or comes late (fleetTransport's failure always ends in a retry or *)
(* a stop).  Recovers rests on it.                                         *)
THEOREM TransportNeverAtRest == Spec => []NeverAtRest
BY InvNeverAtRest, TransportInvariant, PTL

(* StopsAsDocumented: only the operator leaves "failed", faults alone do   *)
(* not end a stream that has reached its server, and an unmounted client   *)
(* neither reports nor shows nor schedules anything more.                  *)
THEOREM TransportStops == Spec => StopsAsDocumented
<1> DEFINE Stops ==
        LET was == client.stream.phase
            is == client'.stream.phase
        IN  /\ was = "failed" /\ is # "failed"
                  => mounted /\ connects' = connects + 1
            /\ client.everOpened /\ was # "failed" /\ is = "failed"
                  => client'.stream.cause \in {"contract", "session-mismatch"}
            /\ connects > 0 /\ ~mounted =>
                  /\ client'.stream = client.stream
                  /\ client'.store = client.store
                  /\ client'.retry = FALSE
<1>1. ASSUME NEW n \in Nat, Sound(client', n), client'.everOpened,
             client'.stream.phase = "failed"
      PROVE  client'.stream.cause \in {"contract", "session-mismatch"}
  BY <1>1 DEF Sound, Remembers, Client, StreamState, TerminalCause
<1>2. ASSUME TransportInv, AnyNext
      PROVE  Stops
  <2>1. connects \in Nat
    BY <1>2 DEF TransportInv
  <2>2. CASE Mount
    <3>1. client.stream.phase = "idle" /\ ~client.everOpened /\ connects = 0
      BY <1>2, <2>2 DEF Mount, TransportInv, InitialClient
    <3> QED BY <3>1
  <2>3. CASE Unmount
    <3>1. Sound(client, connects) /\ mounted
      BY <1>2, <2>3 DEF Unmount, TransportInv
    <3>2. client'.stream = client.stream
      BY <2>3, <3>1, DisconnectFrozen DEF Unmount, Sound
    <3> QED BY <3>1, <3>2
  <2>4. CASE ManualRetry
    <3>1. Sound(client, connects) /\ mounted /\ connects' = connects + 1
      BY <1>2, <2>4 DEF ManualRetry, TransportInv
    <3>2. client'.stream.phase # "failed"
      BY <2>1, <2>4, <3>1, ManualSound DEF ManualRetry
    <3> QED BY <3>1, <3>2
  <2>5. CASE RetryTimer
    <3>1. Sound(client, connects) /\ mounted
      BY <1>2, <2>5, InitialClientShape DEF RetryTimer, TransportInv, Frozen
    <3>2. Trying(client) /\ Trying(client')
      BY <2>1, <2>5, <3>1, RetrySound DEF RetryTimer
    <3> QED BY <3>1, <3>2 DEF Trying
  <2>6. CASE AnyNetwork
    <3>1. connects # 0
      BY <1>2, <2>6, InitialClientShape DEF AnyNetwork, Sockets, TransportInv
    <3>2. CASE mounted
      <4>1. Sound(client, connects)
        BY <1>2, <3>1, <3>2 DEF TransportInv
      <4>2. /\ Sound(client', connects)
            /\ client.stream.phase = "failed" => client'.stream = client.stream
            /\ client.everOpened => client'.everOpened
        BY <2>1, <2>6, <4>1, EventSound
      <4> QED BY <1>1, <2>1, <3>2, <4>2
    <3>3. CASE ~mounted
      <4>1. Frozen(client)
        BY <1>2, <3>1, <3>3 DEF TransportInv
      <4>2. Frozen(client') /\ Stale(client, client')
        BY <2>6, <4>1, EventFrozen
      <4>3. client'.retry = FALSE
        BY <4>2 DEF Frozen, Client
      <4> QED BY <4>2, <4>3 DEF Stale
    <3> QED BY <3>2, <3>3
  <2> QED BY <1>2, <2>2, <2>3, <2>4, <2>5, <2>6 DEF AnyNext
<1>3. TransportInv /\ [AnyNext]_vars => [Stops]_vars
  BY <1>2
<1> QED BY <1>3, NetworkIsAny, TransportInvariant, PTL DEF Spec, StopsAsDocumented
-----------------------------------------------------------------------------
(* The stream. *)

(* What a step of the console is to the stream: the same view of it, or a  *)
(* superseded attempt.                                                     *)
SameView(c, d) ==
    /\ d.store.rows = c.store.rows /\ d.epoch = c.epoch
    /\ d.buffered = c.buffered
    /\ d.generation = c.generation /\ d.socket = c.socket

Moves(c, d) == SameView(c, d) \/ Superseded(c, d)

LEMMA StaleMoves ==
    ASSUME NEW c, NEW d, Stale(c, d)
    PROVE  SameView(c, d)
BY DEF Stale, SameView, SameJoin

(* The client of a page that is up, or of one that is gone. *)
LEMMA ClientStages ==
    ASSUME TransportInv
    PROVE  /\ client \in Client /\ OneLive(client)
           /\ connects = 0 => client = InitialClient
           /\ client.socket # Null => connects # 0 /\ mounted
           /\ client.retry => connects # 0 /\ mounted
           /\ client.generation \in client.fetches => connects # 0 /\ mounted
           /\ connects # 0 /\ mounted => Sound(client, connects)
           /\ connects # 0 /\ ~mounted => Frozen(client)
<1>1. client \in Client /\ OneLive(client)
  BY InitialClientShape DEF TransportInv, Sound, Frozen
<1>2. connects = 0 => client.socket = Null /\ ~client.retry
  BY DEF TransportInv, InitialClient
<1>3. connects # 0 /\ ~mounted => client.socket = Null /\ ~client.retry
  BY DEF TransportInv, Frozen
<1>4. client.generation \in client.fetches => client.socket # Null
  BY <1>1, NullAssumption DEF OneLive, Client
<1> QED BY <1>1, <1>2, <1>3, <1>4 DEF TransportInv

(* The page and the timer. *)
LEMMA PageMoves ==
    ASSUME TransportInv, Mount \/ Unmount \/ ManualRetry \/ RetryTimer
    PROVE  /\ Moves(client, client')
           /\ Sockets \subseteq Sockets' /\ client'.fetches = client.fetches
<1>0. connects \in Nat /\ client \in Client /\ OneLive(client)
  BY ClientStages DEF TransportInv
<1>1. CASE Mount
  <2> DEFINE b == Connect(client)
             e == Disconnect(b)
             f == Connect(e)
  <2>1. client = InitialClient
    BY <1>1 DEF Mount, TransportInv
  <2>2. /\ Sound(b, 1) /\ Trying(b) /\ b.failedAttempts = 0
        /\ Superseded(client, b)
        /\ SocketsOf(client) \subseteq SocketsOf(b) /\ b.fetches = client.fetches
    BY <2>1, InitialClientShape, ConnectSound
  <2> HIDE DEF b
  <2>3. /\ Frozen(e) /\ e.stream = b.stream /\ SameCounts(b, e)
        /\ Superseded(b, e)
        /\ SocketsOf(b) \subseteq SocketsOf(e) /\ e.fetches = b.fetches
    BY <2>2, DisconnectFrozen DEF Sound
  <2> HIDE DEF e
  <2>4. /\ e \in Client /\ OneLive(e) /\ e.stream.phase # "connected"
        /\ e.stream.everConnected = e.everOpened
        /\ e.failedAttempts <= e.stream.attempt
        /\ e.failedAttempts <= 3 * 0
    BY <2>2, <2>3 DEF Frozen, Trying, Sound, Remembers, Shaped, SameCounts
  <2>5. /\ f \in Client /\ Superseded(e, f)
        /\ SocketsOf(e) \subseteq SocketsOf(f) /\ f.fetches = e.fetches
    <3>1. 0 \in Nat /\ (~e.everOpened => e.failedAttempts <= 3 * 0)
      BY <2>4
    <3>2. Sound(f, 0 + 1) /\ Superseded(e, f)
          /\ SocketsOf(e) \subseteq SocketsOf(f) /\ f.fetches = e.fetches
      BY <2>4, <3>1, ConnectSound
    <3> QED BY <3>2 DEF Sound
  <2> HIDE DEF f
  <2>6. /\ client.generation \in Nat /\ b.generation \in Nat
        /\ e.generation \in Nat /\ f.generation \in Nat
        /\ f.socket # Null => f.epoch = Null /\ f.buffered = <<>>
        /\ client.buffered = <<>>
    BY <1>0, <2>1, <2>2, <2>4, <2>5 DEF Client, Sound, Superseded, InitialClient
  <2>7. Superseded(client, f)
    BY <2>2, <2>3, <2>5, <2>6 DEF Superseded
  <2>8. client' \in {b, f}
    BY <1>1 DEF Mount, b, e, f
  <2> QED BY <2>2, <2>3, <2>5, <2>7, <2>8 DEF Moves, SocketsOf, Sockets
<1>2. CASE Unmount
  BY <1>0, <1>2, ClientStages, DisconnectFrozen
  DEF Unmount, Moves, SocketsOf, Sockets, TransportInv, Sound
<1>3. CASE ManualRetry
  <2>1. Sound(client, connects)
    BY <1>3 DEF ManualRetry, TransportInv
  <2>2. /\ client' = client \/ Superseded(client, client')
        /\ SocketsOf(client) \subseteq SocketsOf(client')
        /\ client'.fetches = client.fetches
    BY <1>0, <1>3, <2>1, ManualSound DEF ManualRetry
  <2> QED BY <2>2 DEF Moves, SameView, SocketsOf, Sockets
<1>4. CASE RetryTimer
  <2>1. Sound(client, connects)
    BY <1>4, ClientStages DEF RetryTimer
  <2>2. /\ Superseded(client, client')
        /\ SocketsOf(client) \subseteq SocketsOf(client')
        /\ client'.fetches = client.fetches
    BY <1>0, <1>4, <2>1, RetrySound DEF RetryTimer
  <2> QED BY <2>2 DEF Moves, SocketsOf, Sockets
<1> QED BY <1>1, <1>2, <1>3, <1>4

(* The network. *)
LEMMA OpenMoves ==
    ASSUME TransportInv, NEW s, SocketOpens(s)
    PROVE  /\ SameView(client, client')
           /\ Sockets \subseteq Sockets' /\ client.fetches \subseteq client'.fetches
           /\ client.generation \in client'.fetches =>
                 \/ client.generation \in client.fetches
                 \/ s = client.generation
<1>1. /\ client' = OnOpen(client, s) /\ s \in client.opening \cup client.closing
      /\ connects \in Nat /\ client \in Client /\ OneLive(client)
  BY ClientStages DEF SocketOpens, TransportInv
<1>2. CASE s # client.generation
  <2>1. client' = client
    BY <1>1, <1>2, StaleEvents
  <2> QED BY <2>1 DEF SameView, Sockets
<1>3. CASE s = client.generation
  <2>1. client.socket = s /\ client.socket # Null
    BY <1>1, <1>3, NullAssumption DEF OneLive, Client
  <2>2. Sound(client, connects)
    BY <2>1, ClientStages
  <2>3. /\ client'.store = client.store /\ client.epoch = Null
        /\ client'.epoch = Null /\ client'.buffered = client.buffered
        /\ client'.socket = client.socket
        /\ client'.fetches = client.fetches \cup {s} /\ client'.generation = s
        /\ SocketsOf(client) \subseteq SocketsOf(client')
    BY <1>1, <1>3, <2>2, OpenSound
  <2> QED BY <1>3, <2>3 DEF SameView, Sockets, SocketsOf
<1> QED BY <1>2, <1>3
LEMMA CloseMoves ==
    ASSUME TransportInv, NEW s, SocketCloses(s)
    PROVE  /\ Moves(client, client')
           /\ Sockets \ {s} \subseteq Sockets' /\ client'.fetches = client.fetches
           /\ s = client.generation => client'.generation > s
<1>1. /\ client' = OnClose(client, s) /\ s \in Sockets
      /\ connects \in Nat /\ client \in Client /\ OneLive(client)
  BY ClientStages DEF SocketCloses, TransportInv
<1>2. CASE s # client.generation
  <2>1. Stale(client, client')
    BY <1>1, <1>2, StaleEvents
  <2>2. /\ client' = [client EXCEPT !.opening = @ \ {s}, !.open = @ \ {s},
                                    !.closing = @ \ {s}]
    BY <1>1, <1>2 DEF OnClose
  <2>3. /\ client'.opening = client.opening \ {s}
        /\ client'.open = client.open \ {s}
        /\ client'.closing = client.closing \ {s}
        /\ client'.fetches = client.fetches
    BY <1>1, <2>2 DEF Client
  <2> QED BY <1>2, <2>1, <2>3, StaleMoves DEF Moves, Sockets
<1>3. CASE s = client.generation
  <2>1. s \in client.opening \cup client.open
    BY <1>1, <1>3 DEF OneLive, Sockets
  <2>2. client.socket = s /\ client.socket # Null
    BY <1>1, <2>1 DEF OneLive
  <2>3. Sound(client, connects)
    BY <2>2, ClientStages
  <2>4. /\ Superseded(client, client') /\ client'.fetches = client.fetches
        /\ SocketsOf(client) \ {s} \subseteq SocketsOf(client')
    BY <1>1, <1>3, <2>3, CloseSound DEF Sockets
  <2> QED BY <1>3, <2>4 DEF Moves, SocketsOf, Sockets, Superseded
<1> QED BY <1>2, <1>3

LEMMA LostMoves ==
    ASSUME TransportInv, NEW a, FetchFails(a)
    PROVE  /\ Moves(client, client')
           /\ Sockets \subseteq Sockets' /\ client'.fetches = client.fetches \ {a}
<1>1. /\ client' = SnapshotUnreachable(client, a) /\ a \in client.fetches
      /\ connects \in Nat /\ client \in Client /\ OneLive(client)
  BY ClientStages DEF FetchFails, TransportInv
<1>2. CASE a # client.generation
  <2>1. client' = Landed(client, a) /\ Stale(client, client')
    BY <1>1, <1>2, StaleEvents
  <2>2. /\ client'.opening = client.opening /\ client'.open = client.open
        /\ client'.closing = client.closing
        /\ client'.fetches = client.fetches \ {a}
    BY <1>1, <2>1 DEF Landed, Client
  <2> QED BY <2>1, <2>2, StaleMoves DEF Moves, Sockets
<1>3. CASE a = client.generation
  <2>1. Sound(client, connects)
    BY <1>1, <1>3, ClientStages
  <2>2. /\ Superseded(client, client')
        /\ SocketsOf(client) \subseteq SocketsOf(client')
        /\ client'.fetches = client.fetches \ {a}
    BY <1>1, <1>3, <2>1, UnreachableSound
  <2> QED BY <2>2 DEF Moves, SocketsOf, Sockets
<1> QED BY <1>2, <1>3

(* A frame: of a superseded attempt, buffered, covered, applied, or the    *)
(* end of the session.                                                     *)
LEMMA FrameMoves ==
    ASSUME TransportInv, NEW s, NEW m \in Message, FrameArrives(s, m)
    PROVE  /\ Sockets \subseteq Sockets' /\ client'.fetches = client.fetches
           /\ \/ s # client.generation /\ client' = client
              \/ /\ s = client.generation /\ client.socket = s
                 /\ client.epoch = Null /\ client'.epoch = Null
                 /\ client'.store = client.store
                 /\ client'.buffered = Append(client.buffered, m)
                 /\ client'.generation = s /\ client'.socket = s
              \/ /\ s = client.generation /\ client.socket = s
                 /\ client.epoch # Null /\ Reconcile(client.epoch, m) = "covered"
                 /\ client' = client
              \/ /\ s = client.generation /\ client.socket = s
                 /\ client.epoch # Null /\ Reconcile(client.epoch, m) = "apply"
                 /\ client'.store.rows = Overlay(client.store.rows, <<m>>, {1})
                 /\ client'.epoch = client.epoch
                 /\ client'.buffered = client.buffered
                 /\ client'.generation = s /\ client'.socket = s
              \/ s = client.generation /\ Superseded(client, client')
<1>1. /\ client' = OnMessage(client, s, m)
      /\ s \in client.open \cup client.closing
      /\ connects \in Nat /\ client \in Client /\ OneLive(client)
  BY ClientStages DEF FrameArrives, TransportInv
<1>2. CASE s # client.generation
  <2>1. client' = client
    BY <1>1, <1>2, StaleEvents
  <2> QED BY <1>2, <2>1 DEF Sockets
<1>3. CASE s = client.generation
  <2>1. s \in client.open
    BY <1>1, <1>3 DEF OneLive
  <2>2. client.socket = s /\ client.socket # Null
    BY <1>1, <2>1 DEF OneLive
  <2>3. Sound(client, connects)
    BY <2>2, ClientStages
  <2>4. /\ SocketsOf(client) \subseteq SocketsOf(client')
        /\ client'.fetches = client.fetches
        /\ \/ /\ client.epoch = Null /\ client'.epoch = Null
              /\ client'.store = client.store
              /\ client'.buffered = Append(client.buffered, m)
              /\ client'.generation = client.generation
              /\ client'.socket = client.socket
           \/ /\ client.epoch # Null /\ Reconcile(client.epoch, m) = "covered"
              /\ client' = client
           \/ /\ client.epoch # Null /\ Reconcile(client.epoch, m) = "apply"
              /\ client'.store.rows = Overlay(client.store.rows, <<m>>, {1})
              /\ client'.epoch = client.epoch
              /\ client'.buffered = client.buffered
              /\ client'.generation = client.generation
              /\ client'.socket = client.socket
           \/ Superseded(client, client')
    BY <1>1, <1>3, <2>3, MessageSound
  <2> QED BY <1>3, <2>2, <2>4 DEF SocketsOf, Sockets
<1> QED BY <1>2, <1>3

(* A snapshot: of a superseded attempt, or the join, which the buffer may  *)
(* end at once.                                                            *)
LEMMA SnapshotMoves ==
    ASSUME TransportInv, NEW a, NEW m \in Message, FetchArrives(a, m)
    PROVE  /\ Sockets \subseteq Sockets' /\ client'.fetches = client.fetches \ {a}
           /\ \/ a # client.generation /\ SameView(client, client')
              \/ /\ a = client.generation
                 /\ client.socket = a /\ client.socket # Null /\ client.epoch = Null
                 /\ client'.buffered = <<>>
                 /\ client'.store.rows =
                      Overlay(m.rows, client.buffered,
                              Replay([session |-> m.session, seq |-> m.seq],
                                     client.buffered))
                 /\ \/ client'.generation > a /\ client'.socket = Null
                    \/ /\ client'.generation = a /\ client'.socket = a
                       /\ client'.epoch = [session |-> m.session, seq |-> m.seq]
<1>1. /\ client' = SnapshotArrives(client, a, m) /\ a \in client.fetches
      /\ connects \in Nat /\ client \in Client /\ OneLive(client)
  BY ClientStages DEF FetchArrives, TransportInv
<1>2. CASE a # client.generation
  <2>1. client' = Landed(client, a) /\ Stale(client, client')
    BY <1>1, <1>2, StaleEvents
  <2>2. /\ client'.opening = client.opening /\ client'.open = client.open
        /\ client'.closing = client.closing
        /\ client'.fetches = client.fetches \ {a}
    BY <1>1, <2>1 DEF Landed, Client
  <2> QED BY <1>2, <2>1, <2>2, StaleMoves DEF Sockets
<1>3. CASE a = client.generation
  <2>1. Sound(client, connects)
    BY <1>1, <1>3, ClientStages
  <2>2. client.socket = a /\ client.socket # Null /\ client.epoch = Null
    BY <1>1, <1>3, NullAssumption DEF OneLive, Client
  <2>3. PICK d : d = client' /\ d = SnapshotArrives(client, a, m)
    BY <1>1
  <2>4. SnapshotTaken(client, d, a, m)
    BY <1>1, <1>3, <2>1, <2>3, ArrivesSound
  <2> QED BY <1>3, <2>2, <2>3, <2>4 DEF SnapshotTaken, SocketsOf, Sockets
<1> QED BY <1>2, <1>3
-----------------------------------------------------------------------------
(* Removing a key. *)
LEMMA WithoutFields ==
    ASSUME NEW f, NEW x
    PROVE  /\ DOMAIN Without(f, x) = DOMAIN f \ {x}
           /\ \A y \in DOMAIN f \ {x} : Without(f, x)[y] = f[y]
BY DEF Without

(* No socket and no response is newer than the live attempt. *)
LEMMA NoneNewer ==
    ASSUME TransportInv, StreamTypeOK
    PROVE  /\ client.generation \in Nat
           /\ \A s \in DOMAIN wire : s \in Nat /\ s <= client.generation
           /\ \A a \in DOMAIN replies : a \in Nat /\ a <= client.generation
<1>1. client \in Client /\ OneLive(client)
  BY ClientStages
<1>2. client.generation \in Nat
  BY <1>1 DEF Client
<1>3. \A s \in client.opening \cup client.open : s = client.generation
  BY <1>1 DEF OneLive
<1>4. \A s \in client.closing \cup client.fetches :
         s \in Nat /\ s <= client.generation
  BY <1>1 DEF OneLive, Client
<1>5. DOMAIN wire \subseteq Sockets /\ DOMAIN replies \subseteq client.fetches
  BY DEF StreamTypeOK
<1> QED BY <1>2, <1>3, <1>4, <1>5 DEF Sockets

(* Each step of the composition is a step of the client in some network.   *)
LEMMA StreamIsTransport ==
    ASSUME StreamTypeOK, StreamNext
    PROVE  [AnyNext]_vars
<1>1. CASE \/ \E r \in Robot : Change(r)
           \/ Flush \/ Restart
           \/ \E s \in DOMAIN pending : Deregister(s)
           \/ \E s \in Sockets : Accept(s) \/ Rejects(s)
           \/ \E a \in client.fetches : ReadFleet(a)
  BY <1>1 DEF Change, Flush, Restart, Deregister, Accept, Rejects, ReadFleet
<1>2. CASE Page \/ Timer
  BY <1>2 DEF Page, Timer, AnyNext
<1>3. ASSUME NEW s \in Sockets, Opens(s) \/ Delivers(s) \/ Closes(s)
      PROVE  AnyNetwork
  <2>1. CASE Opens(s)
    BY <2>1 DEF Opens, AnyNetwork
  <2>2. CASE Closes(s)
    BY <2>2 DEF Closes, AnyNetwork
  <2>3. CASE Delivers(s)
    <3>1. wire[s] \in Seq(Message) /\ wire[s] # <<>>
      BY <2>3 DEF Delivers, StreamTypeOK
    <3>2. Head(wire[s]) \in Message
      BY <3>1, HeadTailProperties
    <3> QED BY <2>3, <3>2 DEF Delivers, AnyNetwork
  <2> QED BY <1>3, <2>1, <2>2, <2>3
<1>4. ASSUME NEW a \in client.fetches, Responds(a) \/ FetchLost(a)
      PROVE  AnyNetwork
  BY <1>4 DEF Responds, FetchLost, AnyNetwork, StreamTypeOK
<1> QED BY <1>1, <1>2, <1>3, <1>4 DEF StreamNext, AnyNext

LEMMA StreamTypesInit == StreamInit => TransportInv /\ StreamTypeOK
<1> SUFFICES ASSUME StreamInit PROVE TransportInv /\ StreamTypeOK
  OBVIOUS
<1>1. TransportInv
  BY TransportInit DEF StreamInit
<1>2. TypeOK
  BY <1>1, TransportInvTypes
<1>3. DOMAIN pending = {} /\ DOMAIN wire = {} /\ DOMAIN replies = {}
  BY DEF StreamInit
<1> QED BY <1>1, <1>2, <1>3, StreamAssumption
        DEF StreamInit, StreamTypeOK, Unmarked, Rows

(* The server's steps keep their types. *)
LEMMA ServerTypes ==
    ASSUME TransportInv, StreamTypeOK,
           \/ \E r \in Robot : Change(r)
           \/ Flush \/ Restart
           \/ \E s \in DOMAIN pending : Deregister(s)
           \/ \E s \in Sockets : Accept(s)
           \/ \E a \in client.fetches : ReadFleet(a)
    PROVE  StreamTypeOK'
<1>0. Unmarked \in Rows
  BY DEF Unmarked, Rows
<1>1. ASSUME NEW r \in Robot, Change(r)
      PROVE  StreamTypeOK'
  <2>1. newest' \in [Robot -> Nat] /\ newest'[r] \in Nat
    BY <1>1 DEF Change, StreamTypeOK
  <2>2. stored' \in Rows
    BY <1>1, <2>1 DEF Change, StreamTypeOK, Rows
  <2>3. /\ DOMAIN pending' = DOMAIN pending
        /\ \A s \in DOMAIN pending : pending'[s] \in Rows
    BY <1>1, <2>1 DEF Change, StreamTypeOK, Rows
  <2> QED BY <1>1, <2>1, <2>2, <2>3
          DEF Change, StreamTypeOK, vars, TypeOK, Sockets
<1>2. CASE Flush
  <2>1. /\ DOMAIN pending' = DOMAIN pending
        /\ \A s \in DOMAIN pending : pending'[s] = Unmarked
        /\ sequence' \in Nat
    BY <1>2 DEF Flush, StreamTypeOK
  <2>2. /\ DOMAIN wire' = DOMAIN wire
        /\ \A s \in DOMAIN wire : wire'[s] \in Seq(Message)
    <3>1. DOMAIN wire' = DOMAIN wire
      BY <1>2 DEF Flush
    <3>2. ASSUME NEW s \in DOMAIN wire
          PROVE  wire'[s] \in Seq(Message)
      <4>1. wire[s] \in Seq(Message)
        BY DEF StreamTypeOK
      <4>2. CASE s \in Sending
        <5>1. Frame(s) \in Message
          BY <2>1, <4>2 DEF Frame, Sending, Message, StreamTypeOK
        <5>2. wire'[s] = Append(wire[s], Frame(s))
          BY <1>2, <4>2 DEF Flush
        <5> QED BY <4>1, <5>1, <5>2, AppendProperties
      <4>3. CASE s \notin Sending
        BY <1>2, <4>1, <4>3 DEF Flush
      <4> QED BY <4>2, <4>3
    <3> QED BY <3>1, <3>2
  <2> QED BY <1>0, <1>2, <2>1, <2>2 DEF Flush, StreamTypeOK, vars, TypeOK, Sockets
<1>3. CASE Restart
  <2>1. session' \in Session /\ DOMAIN pending' = {}
    BY <1>3 DEF Restart
  <2> QED BY <1>0, <1>3, <2>1 DEF Restart, StreamTypeOK, vars, TypeOK, Sockets
<1>4. ASSUME NEW s \in DOMAIN pending, Deregister(s)
      PROVE  StreamTypeOK'
  <2>1. /\ DOMAIN pending' = DOMAIN pending \ {s}
        /\ \A q \in DOMAIN pending' : pending'[q] = pending[q]
    BY <1>4, WithoutFields DEF Deregister
  <2> QED BY <1>4, <2>1 DEF Deregister, StreamTypeOK, vars, TypeOK, Sockets
<1>5. ASSUME NEW s \in Sockets, Accept(s)
      PROVE  StreamTypeOK'
  <2>1. /\ DOMAIN pending' = DOMAIN pending \cup {s}
        /\ pending'[s] = Unmarked
        /\ \A q \in DOMAIN pending \ {s} : pending'[q] = pending[q]
    BY <1>5 DEF Accept, With
  <2>2. /\ DOMAIN wire' = DOMAIN wire \cup {s}
        /\ wire'[s] = <<>>
        /\ \A q \in DOMAIN wire \ {s} : wire'[q] = wire[q]
    BY <1>5 DEF Accept, With
  <2>3. <<>> \in Seq(Message) /\ s \in Nat
    <3>1. client \in Client
      BY ClientStages
    <3> QED BY <3>1, EmptySeq DEF Sockets, Client
  <2> QED BY <1>0, <1>5, <2>1, <2>2, <2>3
          DEF Accept, StreamTypeOK, vars, TypeOK, Sockets
<1>6. ASSUME NEW a \in client.fetches, ReadFleet(a)
      PROVE  StreamTypeOK'
  <2> DEFINE m == [session |-> session, seq |-> sequence, rows |-> stored]
  <2>1. m \in Message
    BY DEF StreamTypeOK, Message
  <2> HIDE DEF m
  <2>2. replies' = With(replies, a, m)
    BY <1>6 DEF ReadFleet, m
  <2>3. /\ DOMAIN replies' = DOMAIN replies \cup {a}
        /\ replies'[a] = m
        /\ \A q \in DOMAIN replies \ {a} : replies'[q] = replies[q]
    BY <2>2 DEF With
  <2> QED BY <1>6, <2>1, <2>3
          DEF ReadFleet, StreamTypeOK, vars, serverVars, TypeOK, Sockets
<1> QED BY <1>1, <1>2, <1>3, <1>4, <1>5, <1>6
(* What the wire and the responses keep when the network takes from them.  *)
Drained(w, v) ==
    /\ DOMAIN w \subseteq DOMAIN v
    /\ \A s \in DOMAIN w :
          w[s] = v[s] \/ (v[s] # <<>> /\ w[s] = Tail(v[s]))

Kept(w, v) == DOMAIN w \subseteq DOMAIN v /\ \A a \in DOMAIN w : w[a] = v[a]

NetworkStep ==
    \/ Page \/ Timer
    \/ \E s \in Sockets : Opens(s) \/ Delivers(s) \/ Rejects(s) \/ Closes(s)
    \/ \E a \in client.fetches : Responds(a) \/ FetchLost(a)

LEMMA NetworkTakes ==
    ASSUME TransportInv, StreamTypeOK, NetworkStep
    PROVE  /\ UNCHANGED serverVars
           /\ Drained(wire', wire) /\ Kept(replies', replies)
           /\ DOMAIN wire' \subseteq Sockets'
           /\ DOMAIN replies' \subseteq client'.fetches
           /\ drops' \in Nat /\ rejected' \in Nat
<1>0. /\ DOMAIN wire \subseteq Sockets /\ DOMAIN replies \subseteq client.fetches
      /\ drops \in Nat /\ rejected \in Nat
  BY DEF StreamTypeOK
<1>1. Drained(wire, wire) /\ Kept(replies, replies)
  BY DEF Drained, Kept
<1>2. CASE Page \/ Timer
  <2>1. Sockets \subseteq Sockets' /\ client'.fetches = client.fetches
    BY <1>2, PageMoves DEF Page, Timer
  <2> QED BY <1>0, <1>1, <1>2, <2>1 DEF Page, Timer
<1>3. ASSUME NEW s \in Sockets, Opens(s)
      PROVE  /\ UNCHANGED <<serverVars, wire, replies, drops, rejected>>
             /\ Sockets \subseteq Sockets' /\ client.fetches \subseteq client'.fetches
  BY <1>3, OpenMoves DEF Opens
<1>4. ASSUME NEW s \in Sockets, Delivers(s)
      PROVE  /\ UNCHANGED <<serverVars, replies, drops, rejected>>
             /\ Drained(wire', wire) /\ DOMAIN wire' = DOMAIN wire
             /\ Sockets \subseteq Sockets' /\ client'.fetches = client.fetches
  <2>1. Head(wire[s]) \in Message
    BY <1>4, HeadTailProperties DEF Delivers, StreamTypeOK
  <2>2. Sockets \subseteq Sockets' /\ client'.fetches = client.fetches
    BY <1>4, <2>1, FrameMoves DEF Delivers
  <2> QED BY <1>4, <2>2 DEF Delivers, Drained
<1>5. ASSUME NEW s \in Sockets, Rejects(s)
      PROVE  /\ UNCHANGED <<serverVars, client, replies, drops>>
             /\ Drained(wire', wire) /\ DOMAIN wire' = DOMAIN wire
             /\ rejected' \in Nat
  BY <1>0, <1>5 DEF Rejects, Drained, vars
<1>6. ASSUME NEW s \in Sockets, Closes(s)
      PROVE  /\ UNCHANGED <<serverVars, replies, rejected>>
             /\ Drained(wire', wire) /\ DOMAIN wire' = DOMAIN wire \ {s}
             /\ Sockets \ {s} \subseteq Sockets' /\ client'.fetches = client.fetches
             /\ drops' \in Nat
  <2>1. Sockets \ {s} \subseteq Sockets' /\ client'.fetches = client.fetches
    BY <1>6, CloseMoves DEF Closes
  <2>2. Drained(wire', wire) /\ DOMAIN wire' = DOMAIN wire \ {s}
    BY <1>6, WithoutFields DEF Closes, Drained
  <2> QED BY <1>0, <1>6, <2>1, <2>2 DEF Closes, Drop
<1>7. ASSUME NEW a \in client.fetches, Responds(a) \/ FetchLost(a)
      PROVE  /\ UNCHANGED <<serverVars, wire, rejected>>
             /\ Kept(replies', replies) /\ DOMAIN replies' = DOMAIN replies \ {a}
             /\ Sockets \subseteq Sockets' /\ client'.fetches = client.fetches \ {a}
             /\ drops' \in Nat
  <2>1. Sockets \subseteq Sockets' /\ client'.fetches = client.fetches \ {a}
    <3>1. CASE Responds(a)
      <4>1. replies[a] \in Message
        BY <3>1 DEF Responds, StreamTypeOK
      <4> QED BY <3>1, <4>1, SnapshotMoves DEF Responds
    <3>2. CASE FetchLost(a)
      BY <3>2, LostMoves DEF FetchLost
    <3> QED BY <1>7, <3>1, <3>2
  <2>2. Kept(replies', replies) /\ DOMAIN replies' = DOMAIN replies \ {a}
    <3>1. replies' = Without(replies, a)
      BY <1>7 DEF Responds, FetchLost
    <3> QED BY <3>1, WithoutFields DEF Kept
  <2> QED BY <1>0, <1>7, <2>1, <2>2 DEF Responds, FetchLost, Drop
<1>8. \/ Page \/ Timer
      \/ \E s \in Sockets : Opens(s) \/ Delivers(s) \/ Rejects(s) \/ Closes(s)
      \/ \E a \in client.fetches : Responds(a) \/ FetchLost(a)
  BY DEF NetworkStep
<1>9. client' = client => Sockets' = Sockets
  BY DEF Sockets
<1> QED BY <1>0, <1>1, <1>2, <1>3, <1>4, <1>5, <1>6, <1>7, <1>8, <1>9

(* Every step keeps the types. *)
LEMMA StreamTypeStep ==
    ASSUME TransportInv, TransportInv', StreamTypeOK, StreamNext
    PROVE  StreamTypeOK'
<1>1. CASE NetworkStep
  <2>1. TypeOK'
    BY TransportInvTypes, PTL
  <2>2. /\ UNCHANGED serverVars
        /\ Drained(wire', wire) /\ Kept(replies', replies)
        /\ DOMAIN wire' \subseteq Sockets'
        /\ DOMAIN replies' \subseteq client'.fetches
        /\ drops' \in Nat /\ rejected' \in Nat
    BY <1>1, NetworkTakes
  <2>3. \A s \in DOMAIN wire' : wire'[s] \in Seq(Message)
    <3> TAKE s \in DOMAIN wire'
    <3>1. wire[s] \in Seq(Message)
      BY <2>2 DEF Drained, StreamTypeOK
    <3>2. wire[s] # <<>> => Tail(wire[s]) \in Seq(Message)
      BY <3>1, HeadTailProperties
    <3> QED BY <2>2, <3>1, <3>2 DEF Drained
  <2>4. \A a \in DOMAIN replies' : replies'[a] \in Message
    BY <2>2 DEF Kept, StreamTypeOK
  <2> QED BY <2>1, <2>2, <2>3, <2>4 DEF StreamTypeOK, serverVars
<1>2. CASE \/ \E r \in Robot : Change(r)
           \/ Flush \/ Restart
           \/ \E s \in DOMAIN pending : Deregister(s)
           \/ \E s \in Sockets : Accept(s)
           \/ \E a \in client.fetches : ReadFleet(a)
  BY <1>2, ServerTypes
<1> QED BY <1>1, <1>2 DEF StreamNext, NetworkStep
-----------------------------------------------------------------------------
(* Rows within what the server has stored, and one row not behind another. *)
Known(rows) == \A r \in Robot : rows[r] # Null => rows[r] \in 1..newest[r]

Before(x, y) == \A r \in Robot : x[r] # Null /\ y[r] # Null => x[r] <= y[r]

Stamped(f) == f.session <= session /\ (f.session = session => f.seq <= sequence)

Ordered(q) == \A i, j \in DOMAIN q : i < j => Before(q[i].rows, q[j].rows)

Newer(epoch, f) == Reconcile(epoch, f) = "apply"

(* The server: what is stored is the newest of its runtime, what is        *)
(* pending is stored.                                                      *)
ServerInv ==
    /\ \A r \in Robot :
          stored[r] # Null => stored[r] = newest[r] /\ newest[r] >= 1
    /\ \A s \in DOMAIN pending : \A r \in Robot :
          pending[s][r] # Null => pending[s][r] = stored[r]

(* What travels: frames of one socket carry a robot's states in order.     *)
TravelInv ==
    /\ \A s \in DOMAIN wire :
          /\ Ordered(wire[s])
          /\ \A i \in DOMAIN wire[s] :
                Known(wire[s][i].rows) /\ Stamped(wire[s][i])
    /\ \A i \in DOMAIN client.buffered :
          Known(client.buffered[i].rows) /\ Stamped(client.buffered[i])
    /\ \A a \in DOMAIN replies : Known(replies[a].rows)

LiveWire == IF client.generation \in DOMAIN wire
            THEN {wire[client.generation][i] : i \in DOMAIN wire[client.generation]}
            ELSE {}
Held == {client.buffered[i] : i \in DOMAIN client.buffered}

(* Before the join: nothing coming on the live socket is behind the rows   *)
(* shown or behind what came before it.                                    *)
UnjoinedInv ==
    client.socket # Null /\ client.epoch = Null =>
        /\ Ordered(client.buffered)
        /\ \A f \in Held \cup LiveWire : Before(client.store.rows, f.rows)
        /\ \A f \in Held, g \in LiveWire : Before(f.rows, g.rows)

(* The snapshot of the live attempt is not behind the rows shown, and no   *)
(* frame it lets in is behind it.                                          *)
ReplyInv ==
    LET a == client.generation
    IN  a \in DOMAIN replies =>
            /\ Before(client.store.rows, replies[a].rows)
            /\ \A f \in Held \cup LiveWire :
                  Newer(replies[a], f) => Before(replies[a].rows, f.rows)

(* After the join: no frame that will be let in is behind the rows shown.  *)
JoinedInv ==
    client.socket # Null /\ client.epoch # Null =>
        \A f \in LiveWire :
            Newer(client.epoch, f) => Before(client.store.rows, f.rows)

MirrorInv ==
    /\ ServerInv /\ TravelInv /\ Known(client.store.rows)
    /\ UnjoinedInv /\ ReplyInv /\ JoinedInv
-----------------------------------------------------------------------------
Told(q) == {q[i] : i \in DOMAIN q}

(* What is left of a socket's frames once the first is taken.              *)
LEMMA TailFacts ==
    ASSUME NEW q \in Seq(Message), q # <<>>
    PROVE  /\ Head(q) \in Told(q) /\ Told(Tail(q)) \subseteq Told(q)
           /\ Ordered(q) => /\ Ordered(Tail(q))
                            /\ \A f \in Told(Tail(q)) :
                                  Before(Head(q).rows, f.rows)
<1>1. /\ Len(q) \in Nat /\ DOMAIN q = 1..Len(q) /\ Len(q) # 0
      /\ Tail(q) \in Seq(Message) /\ Len(Tail(q)) = Len(q) - 1
      /\ DOMAIN Tail(q) = 1..Len(Tail(q))
      /\ \A i \in 1..Len(Tail(q)) : Tail(q)[i] = q[i+1]
  BY HeadTailProperties, LenProperties, EmptySeq
<1>2. Head(q) = q[1]
  OBVIOUS
<1>3. /\ 1 \in DOMAIN q
      /\ \A i \in DOMAIN Tail(q) :
            /\ i \in Int /\ i + 1 \in DOMAIN q /\ 1 < i + 1
            /\ Tail(q)[i] = q[i+1]
  BY <1>1
<1>4. Head(q) \in Told(q) /\ Told(Tail(q)) \subseteq Told(q)
  BY <1>2, <1>3 DEF Told
<1>5. ASSUME Ordered(q)
      PROVE  \A f \in Told(Tail(q)) : Before(Head(q).rows, f.rows)
  BY <1>2, <1>3, <1>5 DEF Told, Ordered
<1>6. ASSUME Ordered(q), NEW i \in DOMAIN Tail(q), NEW j \in DOMAIN Tail(q), i < j
      PROVE  Before(Tail(q)[i].rows, Tail(q)[j].rows)
  <2>1. i + 1 < j + 1
    BY <1>3, <1>6
  <2> QED BY <1>3, <1>6, <2>1 DEF Ordered
<1> QED BY <1>4, <1>5, <1>6 DEF Ordered

LEMMA DrainedFacts ==
    ASSUME StreamTypeOK, Drained(wire', wire)
    PROVE  /\ \A s \in DOMAIN wire' : /\ s \in DOMAIN wire
                                      /\ Told(wire'[s]) \subseteq Told(wire[s])
                                      /\ Ordered(wire[s]) => Ordered(wire'[s])
           /\ client'.generation = client.generation => LiveWire' \subseteq LiveWire
<1>1. ASSUME NEW s \in DOMAIN wire'
      PROVE  /\ s \in DOMAIN wire
             /\ Told(wire'[s]) \subseteq Told(wire[s])
             /\ Ordered(wire[s]) => Ordered(wire'[s])
  <2>1. s \in DOMAIN wire /\ wire[s] \in Seq(Message)
    BY DEF Drained, StreamTypeOK
  <2>2. CASE wire'[s] = wire[s]
    BY <2>1, <2>2
  <2>3. CASE wire[s] # <<>> /\ wire'[s] = Tail(wire[s])
    BY <2>1, <2>3, TailFacts
  <2> QED BY <2>2, <2>3 DEF Drained
<1>2. client'.generation = client.generation => LiveWire' \subseteq LiveWire
  BY <1>1 DEF LiveWire, Told
<1> QED BY <1>1, <1>2

(* A step of the network that shows nothing new.                           *)
LEMMA QuietMirror ==
    ASSUME TransportInv, StreamTypeOK, MirrorInv, UNCHANGED serverVars,
           Drained(wire', wire), Kept(replies', replies),
           Moves(client, client')
    PROVE  MirrorInv'
<1>1. /\ \A s \in DOMAIN wire' : /\ s \in DOMAIN wire
                                 /\ Told(wire'[s]) \subseteq Told(wire[s])
                                 /\ Ordered(wire[s]) => Ordered(wire'[s])
      /\ client'.generation = client.generation => LiveWire' \subseteq LiveWire
  BY DrainedFacts
<1>2. ServerInv'
  BY DEF MirrorInv, ServerInv, serverVars
<1>3. client'.buffered \in {client.buffered, <<>>}
  BY DEF Moves, SameView, Superseded
<1>4. TravelInv'
  <2>1. ASSUME NEW s \in DOMAIN wire', NEW i \in DOMAIN wire'[s]
        PROVE  Known(wire[s][i].rows)' /\ Stamped(wire[s][i])'
    <3>1. PICK j \in DOMAIN wire[s] : wire'[s][i] = wire[s][j]
      BY <1>1 DEF Told
    <3> QED BY <1>1, <3>1 DEF MirrorInv, TravelInv, Known, Stamped, serverVars
  <2>2. \A s \in DOMAIN wire' : Ordered(wire'[s])
    BY <1>1 DEF MirrorInv, TravelInv
  <2>3. ASSUME NEW i \in DOMAIN client'.buffered
        PROVE  Known(client.buffered[i].rows)' /\ Stamped(client.buffered[i])'
    <3>1. client'.buffered = client.buffered
      BY <1>3, <2>3
    <3> QED BY <2>3, <3>1 DEF MirrorInv, TravelInv, Known, Stamped, serverVars
  <2>4. \A a \in DOMAIN replies' : Known(replies[a].rows)'
    BY DEF MirrorInv, TravelInv, Known, Kept, serverVars
  <2> QED BY <2>1, <2>2, <2>3, <2>4 DEF TravelInv
<1>5. Known(client.store.rows)'
  BY DEF MirrorInv, Known, serverVars, Moves, SameView, Superseded
<1>6. CASE SameView(client, client')
  <2>1. Held' = Held /\ LiveWire' \subseteq LiveWire
    BY <1>1, <1>6 DEF SameView, Held
  <2> HIDE DEF Held, LiveWire
  <2>2. UnjoinedInv'
    BY <1>6, <2>1 DEF MirrorInv, UnjoinedInv, SameView
  <2>3. ReplyInv'
    BY <1>6, <2>1 DEF MirrorInv, ReplyInv, SameView, Kept
  <2>4. JoinedInv'
    BY <1>6, <2>1 DEF MirrorInv, JoinedInv, SameView
  <2> QED BY <1>2, <1>4, <1>5, <2>2, <2>3, <2>4 DEF MirrorInv
<1>7. CASE Superseded(client, client')
  <2>1. /\ client'.generation \notin DOMAIN wire'
        /\ client'.generation \notin DOMAIN replies'
    BY <1>7, NoneNewer DEF Superseded, Drained, Kept
  <2>2. LiveWire' = {}
    BY <2>1 DEF LiveWire
  <2>3. client'.socket # Null => client'.epoch = Null /\ client'.buffered = <<>>
    BY <1>7 DEF Superseded
  <2>4. client'.buffered = <<>> => Held' = {} /\ Ordered(client'.buffered)
    BY DEF Held, Ordered
  <2> QED BY <1>2, <1>4, <1>5, <2>1, <2>2, <2>3, <2>4
          DEF MirrorInv, UnjoinedInv, ReplyInv, JoinedInv
<1> QED BY <1>6, <1>7 DEF Moves
(* Rows the server has stored are not behind what anyone was ever told.    *)
LEMMA StoredIsNewest ==
    ASSUME StreamTypeOK, ServerInv, NEW x \in Rows, Known(x), NEW y,
           \A r \in Robot : y[r] # Null => y[r] = stored[r]
    PROVE  Known(y) /\ Before(x, y)
<1>1. ASSUME NEW r \in Robot, y[r] # Null
      PROVE  y[r] = newest[r] /\ newest[r] \in Nat /\ newest[r] >= 1
  BY <1>1 DEF ServerInv, StreamTypeOK
<1>2. Known(y)
  BY <1>1 DEF Known
<1>3. Before(x, y)
  <2> SUFFICES ASSUME NEW r \in Robot, x[r] # Null, y[r] # Null
               PROVE  x[r] <= y[r]
    BY DEF Before
  <2>1. x[r] \in 1..newest[r]
    BY DEF Known
  <2> QED BY <1>1, <2>1
<1> QED BY <1>2, <1>3

(* The rows of everything held or coming.                                  *)
LEMMA FramesAreKnown ==
    ASSUME TransportInv, StreamTypeOK, TravelInv
    PROVE  /\ \A f \in Held \cup LiveWire :
                 f \in Message /\ Known(f.rows) /\ Stamped(f)
           /\ client.store.rows \in Rows
<1>1. client.store.rows \in Rows /\ client.buffered \in Seq(Message)
  BY ClientStages DEF Client, StoreState
<1>2. \A f \in Held : f \in Message /\ Known(f.rows) /\ Stamped(f)
  BY <1>1, LenProperties DEF Held, TravelInv
<1>3. \A f \in LiveWire : f \in Message /\ Known(f.rows) /\ Stamped(f)
  <2>1. CASE client.generation \in DOMAIN wire
    <3>1. wire[client.generation] \in Seq(Message)
      BY <2>1 DEF StreamTypeOK
    <3> QED BY <2>1, <3>1, LenProperties DEF LiveWire, TravelInv
  <2>2. CASE client.generation \notin DOMAIN wire
    BY <2>2 DEF LiveWire
  <2> QED BY <2>1, <2>2
<1> QED BY <1>1, <1>2, <1>3

LEMMA ChangeMirror ==
    ASSUME StreamTypeOK, MirrorInv, NEW r \in Robot, Change(r)
    PROVE  MirrorInv'
<1>1. /\ newest' = [newest EXCEPT ![r] = newest[r] + 1]
      /\ stored' = [stored EXCEPT ![r] = newest[r] + 1]
      /\ newest \in [Robot -> Nat] /\ stored \in Rows
  <2>1. newest \in [Robot -> Nat] /\ stored \in Rows
    BY DEF StreamTypeOK
  <2>2. newest' = [newest EXCEPT ![r] = newest[r] + 1]
    BY DEF Change
  <2> QED BY <2>1, <2>2 DEF Change
<1>2. /\ \A q \in Robot : newest[q] \in Nat /\ newest'[q] >= newest[q]
      /\ \A q \in Robot : newest'[q] \in Nat
  BY <1>1
<1>3. ServerInv'
  <2>1. /\ newest'[r] = newest[r] + 1 /\ stored'[r] = newest[r] + 1
        /\ \A q \in Robot \ {r} : newest'[q] = newest[q] /\ stored'[q] = stored[q]
    BY <1>1 DEF Rows
  <2>2. \A q \in Robot : stored'[q] # Null =>
                stored'[q] = newest'[q] /\ newest'[q] >= 1
    BY <1>2, <2>1 DEF MirrorInv, ServerInv
  <2>3. ASSUME NEW s \in DOMAIN pending', NEW q \in Robot, pending'[s][q] # Null
        PROVE  pending'[s][q] = stored'[q]
    <3>1. /\ s \in DOMAIN pending /\ pending[s] \in [Robot -> Nat \cup {Null}]
          /\ pending'[s] = [pending[s] EXCEPT ![r] = newest'[r]]
      BY DEF Change, StreamTypeOK, Rows
    <3>2. CASE q = r
      BY <2>1, <3>1, <3>2
    <3>3. CASE q # r
      <4>1. pending'[s][q] = pending[s][q]
        BY <3>1, <3>3
      <4> QED BY <2>1, <2>3, <3>1, <3>3, <4>1 DEF MirrorInv, ServerInv
    <3> QED BY <3>2, <3>3
  <2> QED BY <2>2, <2>3 DEF ServerInv
<1>4. ASSUME NEW x, Known(x)
      PROVE  \A q \in Robot : x[q] # Null => x[q] \in 1..newest'[q]
  BY <1>2, <1>4 DEF Known
<1>5. UNCHANGED <<vars, session, sequence, wire, replies>>
  BY DEF Change
<1>6. TravelInv' /\ Known(client.store.rows)'
  BY <1>4, <1>5 DEF MirrorInv, TravelInv, Known, Stamped, vars
<1>7. Held' = Held /\ LiveWire' = LiveWire
  BY <1>5 DEF Held, LiveWire, vars
<1>8. UnjoinedInv' /\ ReplyInv' /\ JoinedInv'
  BY <1>5, <1>7 DEF MirrorInv, UnjoinedInv, ReplyInv, JoinedInv, vars
<1> QED BY <1>3, <1>6, <1>8 DEF MirrorInv

(* A sequence with one frame more.                                         *)
LEMMA AppendFacts ==
    ASSUME NEW q \in Seq(Message), NEW m \in Message
    PROVE  /\ Append(q, m) \in Seq(Message)
           /\ Told(Append(q, m)) = Told(q) \cup {m}
           /\ Ordered(q) /\ (\A f \in Told(q) : Before(f.rows, m.rows)) =>
                 Ordered(Append(q, m))
<1> DEFINE t == Append(q, m)
<1>1. /\ Len(q) \in Nat /\ DOMAIN q = 1..Len(q) /\ t \in Seq(Message)
      /\ Len(t) = Len(q) + 1 /\ DOMAIN t = 1..Len(t)
      /\ \A i \in 1..Len(q) : t[i] = q[i]
      /\ t[Len(q)+1] = m
  BY AppendProperties, LenProperties
<1> HIDE DEF t
<1>2. /\ DOMAIN t = DOMAIN q \cup {Len(q)+1}
      /\ \A i \in DOMAIN q : i < Len(q) + 1 /\ t[i] = q[i] /\ i \in Int
      /\ \A i \in DOMAIN q : ~(Len(q) + 1 < i)
  BY <1>1
<1>3. Told(t) = Told(q) \cup {m}
  BY <1>1, <1>2 DEF Told
<1>4. ASSUME Ordered(q), \A f \in Told(q) : Before(f.rows, m.rows)
      PROVE  Ordered(t)
  <2> SUFFICES ASSUME NEW i \in DOMAIN t, NEW j \in DOMAIN t, i < j
               PROVE  Before(t[i].rows, t[j].rows)
    BY DEF Ordered
  <2>1. i \in DOMAIN q
    BY <1>1, <1>2
  <2>2. CASE j \in DOMAIN q
    BY <1>2, <1>4, <2>1, <2>2 DEF Ordered
  <2>3. CASE j = Len(q) + 1
    BY <1>1, <1>2, <1>4, <2>1, <2>3 DEF Told
  <2> QED BY <1>2, <2>2, <2>3
<1> QED BY <1>1, <1>3, <1>4 DEF t

LEMMA FlushMirror ==
    ASSUME TransportInv, StreamTypeOK, MirrorInv, Flush
    PROVE  MirrorInv'
<1>0. /\ sequence \in Nat /\ sequence' = sequence + 1
      /\ UNCHANGED <<vars, session, stored, newest, replies>>
      /\ Unmarked \in Rows
  BY DEF Flush, StreamTypeOK, Unmarked, Rows
<1>1. ASSUME NEW s \in Sending
      PROVE  /\ Frame(s) \in Message /\ Known(Frame(s).rows)
             /\ \A x \in Rows : Known(x) => Before(x, Frame(s).rows)
             /\ Frame(s).session = session /\ Frame(s).seq = sequence + 1
  <2>1. /\ Frame(s) = [session |-> session, seq |-> sequence + 1,
                       rows |-> pending[s]]
        /\ pending[s] \in Rows /\ session \in Session
        /\ \A r \in Robot : pending[s][r] # Null => pending[s][r] = stored[r]
    BY <1>0 DEF Frame, Sending, StreamTypeOK, MirrorInv, ServerInv
  <2>2. Known(Unmarked) /\ ServerInv
    BY DEF Known, Unmarked, MirrorInv
  <2>3. Known(pending[s]) /\ \A x \in Rows : Known(x) => Before(x, pending[s])
    BY <1>0, <2>1, <2>2, StoredIsNewest
  <2> QED BY <1>0, <2>1, <2>3 DEF Message
<1> DEFINE Grown(s) == IF s \in Sending THEN {Frame(s)} ELSE {}
<1>2. ASSUME NEW s \in DOMAIN wire
      PROVE  /\ s \in DOMAIN wire' /\ Told(wire'[s]) = Told(wire[s]) \cup Grown(s)
             /\ Ordered(wire'[s])
  <2>1. wire[s] \in Seq(Message) /\ Ordered(wire[s])
    BY DEF StreamTypeOK, MirrorInv, TravelInv
  <2>2. \A f \in Told(wire[s]) : f.rows \in Rows /\ Known(f.rows)
    <3>1. \A i \in DOMAIN wire[s] : wire[s][i] \in Message
      BY <2>1, LenProperties
    <3>2. \A i \in DOMAIN wire[s] : Known(wire[s][i].rows)
      BY DEF MirrorInv, TravelInv
    <3> QED BY <3>1, <3>2 DEF Told, Message
  <2>3. CASE s \in Sending
    <3>1. wire'[s] = Append(wire[s], Frame(s)) /\ s \in DOMAIN wire'
      BY <2>3 DEF Flush
    <3>2. \A f \in Told(wire[s]) : Before(f.rows, Frame(s).rows)
      BY <1>1, <2>2, <2>3
    <3> QED BY <1>1, <2>1, <2>3, <3>1, <3>2, AppendFacts
  <2>4. CASE s \notin Sending
    BY <2>1, <2>4 DEF Flush
  <2> QED BY <2>3, <2>4
<1>3. ServerInv'
  BY <1>0 DEF Flush, MirrorInv, ServerInv, Unmarked
<1>4. TravelInv'
  <2>1. ASSUME NEW f, Stamped(f), f.seq \in Nat
        PROVE  f.session <= session /\ (f.session = session => f.seq <= sequence + 1)
    BY <1>0, <2>1 DEF Stamped
  <2>2. ASSUME NEW s \in DOMAIN wire', NEW i \in DOMAIN wire'[s]
        PROVE  Known(wire[s][i].rows)' /\ Stamped(wire[s][i])'
    <3>1. s \in DOMAIN wire
      BY DEF Flush
    <3>2. wire'[s][i] \in Told(wire[s]) \cup Grown(s)
      BY <1>2, <3>1 DEF Told
    <3>3. CASE wire'[s][i] \in Told(wire[s])
      <4>1. PICK j \in DOMAIN wire[s] : wire'[s][i] = wire[s][j]
        BY <3>3 DEF Told
      <4>2. wire[s] \in Seq(Message) /\ wire[s][j] \in Message
        BY <3>1, <4>1, LenProperties DEF StreamTypeOK
      <4>3. Known(wire[s][j].rows) /\ Stamped(wire[s][j])
        BY <3>1 DEF MirrorInv, TravelInv
      <4> QED BY <1>0, <2>1, <4>1, <4>2, <4>3 DEF Known, Stamped, Message
    <3>4. CASE wire'[s][i] \in Grown(s)
      <4>1. s \in Sending /\ wire'[s][i] = Frame(s)
        BY <3>4
      <4>2. session \in Nat
        BY StreamAssumption DEF StreamTypeOK
      <4> QED BY <1>0, <1>1, <4>1, <4>2 DEF Known, Stamped
    <3> QED BY <3>2, <3>3, <3>4
  <2>3. ASSUME NEW i \in DOMAIN client.buffered
        PROVE  Known(client.buffered[i].rows)' /\ Stamped(client.buffered[i])'
    <3>1. client.buffered[i] \in Message
      BY ClientStages, LenProperties DEF Client
    <3> QED BY <1>0, <2>1, <2>3, <3>1
            DEF MirrorInv, TravelInv, Known, Stamped, vars, Message
  <2>4. \A s \in DOMAIN wire' : Ordered(wire'[s])
    BY <1>2 DEF Flush
  <2> QED BY <1>0, <2>2, <2>3, <2>4 DEF MirrorInv, TravelInv, Known, vars
<1>5. Known(client.store.rows)'
  BY <1>0 DEF MirrorInv, Known, vars
<1>6. /\ Held' = Held
      /\ \A g \in LiveWire' : g \in LiveWire
            \/ (g.session = session /\ \A x \in Rows : Known(x) => Before(x, g.rows))
  <2>1. LiveWire' = IF client.generation \in DOMAIN wire
                    THEN Told(wire[client.generation]) \cup Grown(client.generation)
                    ELSE {}
    <3>1. client'.generation = client.generation /\ DOMAIN wire' = DOMAIN wire
      BY <1>0 DEF vars, Flush
    <3> QED BY <1>2, <3>1 DEF LiveWire, Told
  <2> QED BY <1>0, <1>1, <2>1 DEF Held, LiveWire, Told, vars
<1> HIDE DEF Grown
<1>7. /\ client.store.rows \in Rows /\ Known(client.store.rows)
      /\ \A f \in Held : f.rows \in Rows /\ Known(f.rows)
      /\ \A a \in DOMAIN replies : replies[a].rows \in Rows /\ Known(replies[a].rows)
  <2>1. TravelInv /\ Known(client.store.rows)
    BY DEF MirrorInv
  <2>2. /\ client.store.rows \in Rows
        /\ \A f \in Held : f \in Message /\ Known(f.rows)
    BY <2>1, FramesAreKnown
  <2>3. \A a \in DOMAIN replies : replies[a] \in Message /\ Known(replies[a].rows)
    BY <2>1 DEF TravelInv, StreamTypeOK
  <2> QED BY <2>1, <2>2, <2>3 DEF Message
<1>8. UnjoinedInv' /\ ReplyInv' /\ JoinedInv'
  BY <1>0, <1>6, <1>7 DEF MirrorInv, UnjoinedInv, ReplyInv, JoinedInv, vars
<1> QED BY <1>3, <1>4, <1>5, <1>8 DEF MirrorInv
(* A console registers or leaves, a process ends, a snapshot is read.      *)
LEMMA ServerMirror ==
    ASSUME TransportInv, StreamTypeOK, MirrorInv,
           \/ \E s \in Sockets : Accept(s)
           \/ \E s \in DOMAIN pending : Deregister(s)
           \/ Restart
           \/ \E a \in client.fetches : ReadFleet(a)
    PROVE  MirrorInv'
<1>1. ASSUME NEW s \in Sockets, Accept(s)
      PROVE  MirrorInv'
  <2>1. /\ DOMAIN wire' = DOMAIN wire \cup {s} /\ s \notin DOMAIN wire
        /\ wire'[s] = <<>>
        /\ \A q \in DOMAIN wire : wire'[q] = wire[q]
        /\ DOMAIN pending' = DOMAIN pending \cup {s}
        /\ pending'[s] = Unmarked
        /\ \A q \in DOMAIN pending \ {s} : pending'[q] = pending[q]
    BY <1>1 DEF Accept, With
  <2>2. UNCHANGED <<client, session, stored, newest, sequence, replies>>
    BY <1>1 DEF Accept, vars
  <2>3. ServerInv'
    <3>1. \A q \in DOMAIN pending', r \in Robot :
             pending'[q][r] = Null \/ (q \in DOMAIN pending /\ pending'[q] = pending[q])
      BY <2>1 DEF Unmarked
    <3> QED BY <2>2, <3>1 DEF MirrorInv, ServerInv
  <2>4. Ordered(<<>>) /\ Told(<<>>) = {} /\ DOMAIN <<>> = {}
    BY DEF Ordered, Told
  <2>5. TravelInv' /\ Known(client.store.rows)'
    BY <2>1, <2>2, <2>4 DEF MirrorInv, TravelInv, Known, Stamped
  <2>6. Held' = Held /\ LiveWire' \subseteq LiveWire
    BY <2>1, <2>2, <2>4 DEF Held, LiveWire, Told
  <2>7. UnjoinedInv' /\ ReplyInv' /\ JoinedInv'
    BY <2>2, <2>6 DEF MirrorInv, UnjoinedInv, ReplyInv, JoinedInv
  <2> QED BY <2>3, <2>5, <2>7 DEF MirrorInv
<1>2. ASSUME NEW s \in DOMAIN pending, Deregister(s)
      PROVE  MirrorInv'
  <2>1. /\ DOMAIN pending' = DOMAIN pending \ {s}
        /\ \A q \in DOMAIN pending' : pending'[q] = pending[q]
    BY <1>2, WithoutFields DEF Deregister
  <2>2. UNCHANGED <<client, session, stored, newest, sequence, wire, replies>>
    BY <1>2 DEF Deregister, vars
  <2>3. ServerInv'
    BY <2>1, <2>2 DEF MirrorInv, ServerInv
  <2>4. TravelInv' /\ Known(client.store.rows)'
    BY <2>2 DEF MirrorInv, TravelInv, Known, Stamped
  <2>5. Held' = Held /\ LiveWire' = LiveWire
    BY <2>2 DEF Held, LiveWire
  <2>6. UnjoinedInv' /\ ReplyInv' /\ JoinedInv'
    BY <2>2, <2>5 DEF MirrorInv, UnjoinedInv, ReplyInv, JoinedInv
  <2> QED BY <2>3, <2>4, <2>6 DEF MirrorInv
<1>3. CASE Restart
  <2>1. /\ UNCHANGED <<client, newest, wire, replies>>
        /\ session' = session + 1 /\ session \in Nat
        /\ stored' = Unmarked /\ DOMAIN pending' = {}
    BY <1>3, StreamAssumption DEF Restart, vars, StreamTypeOK
  <2>2. ServerInv'
    BY <2>1 DEF ServerInv, Unmarked
  <2>3. ASSUME NEW f \in Message, Stamped(f)
        PROVE  f.session <= session + 1 /\ f.session # session + 1
    <3>1. f.session \in Nat
      BY StreamAssumption DEF Message
    <3>2. f.session <= session
      BY <2>3 DEF Stamped
    <3> QED BY <2>1, <3>1, <3>2
  <2>4. ASSUME NEW s \in DOMAIN wire, NEW i \in DOMAIN wire[s]
        PROVE  Known(wire[s][i].rows)' /\ Stamped(wire[s][i])'
    <3>1. wire[s] \in Seq(Message)
      BY DEF StreamTypeOK
    <3>2. wire[s][i] \in Message
      BY <3>1, LenProperties
    <3>3. Known(wire[s][i].rows) /\ Stamped(wire[s][i])
      BY DEF MirrorInv, TravelInv
    <3> QED BY <2>1, <2>3, <3>2, <3>3 DEF Known, Stamped
  <2>5. ASSUME NEW i \in DOMAIN client.buffered
        PROVE  Known(client.buffered[i].rows)' /\ Stamped(client.buffered[i])'
    <3>1. client.buffered[i] \in Message
      BY ClientStages, LenProperties DEF Client
    <3>2. Known(client.buffered[i].rows) /\ Stamped(client.buffered[i])
      BY DEF MirrorInv, TravelInv
    <3> QED BY <2>1, <2>3, <3>1, <3>2 DEF Known, Stamped
  <2>6. TravelInv' /\ Known(client.store.rows)'
    BY <2>1, <2>4, <2>5 DEF MirrorInv, TravelInv, Known
  <2>7. Held' = Held /\ LiveWire' = LiveWire
    BY <2>1 DEF Held, LiveWire
  <2>8. UnjoinedInv' /\ ReplyInv' /\ JoinedInv'
    BY <2>1, <2>7 DEF MirrorInv, UnjoinedInv, ReplyInv, JoinedInv
  <2> QED BY <2>2, <2>6, <2>8 DEF MirrorInv
<1>4. ASSUME NEW a \in client.fetches, ReadFleet(a)
      PROVE  MirrorInv'
  <2> DEFINE m == [session |-> session, seq |-> sequence, rows |-> stored]
  <2>1. /\ DOMAIN replies' = DOMAIN replies \cup {a} /\ replies'[a] = m
        /\ \A q \in DOMAIN replies : replies'[q] = replies[q]
    BY <1>4 DEF ReadFleet, With
  <2>2. UNCHANGED <<client, session, stored, newest, sequence, pending, wire>>
    BY <1>4 DEF ReadFleet, vars, serverVars
  <2>3. m.rows = stored /\ m.session = session /\ m.seq = sequence
    OBVIOUS
  <2> HIDE DEF m
  <2>4. /\ ServerInv /\ TravelInv /\ Known(client.store.rows)
        /\ client.store.rows \in Rows
        /\ \A f \in Held \cup LiveWire : f \in Message /\ Stamped(f)
    BY FramesAreKnown DEF MirrorInv
  <2>5. Known(stored) /\ Before(client.store.rows, stored)
    BY <2>4, StoredIsNewest
  <2>6. ServerInv' /\ TravelInv' /\ Known(client.store.rows)'
    BY <2>1, <2>2, <2>3, <2>4, <2>5
       DEF ServerInv, TravelInv, Known, Stamped
  <2>7. Held' = Held /\ LiveWire' = LiveWire
    BY <2>2 DEF Held, LiveWire
  <2>8. \A f \in Held \cup LiveWire : ~Newer(m, f)
    <3>1. ASSUME NEW f \in Message, Stamped(f), f.session = session
          PROVE  f.seq <= sequence
      BY <3>1 DEF Stamped
    <3> QED BY <2>3, <2>4, <3>1 DEF Newer, Reconcile, Message, StreamTypeOK
  <2>9. ReplyInv'
    <3>1. CASE client.generation = a
      BY <2>1, <2>2, <2>3, <2>5, <2>7, <2>8, <3>1 DEF ReplyInv
    <3>2. CASE client.generation # a
      BY <2>1, <2>2, <2>7, <3>2 DEF MirrorInv, ReplyInv
    <3> QED BY <3>1, <3>2
  <2>10. UnjoinedInv' /\ JoinedInv'
    BY <2>2, <2>7 DEF MirrorInv, UnjoinedInv, JoinedInv
  <2> QED BY <2>6, <2>9, <2>10 DEF MirrorInv
<1> QED BY <1>1, <1>2, <1>3, <1>4

(* A row after frames are laid over rows: as it was, or as one of them     *)
(* says.                                                                   *)
LEMMA OverlayRow ==
    ASSUME NEW x \in Rows, NEW q \in Seq(Message),
           NEW at \in SUBSET (DOMAIN q), NEW r \in Robot
    PROVE  \/ Overlay(x, q, at)[r] = x[r]
           \/ \E i \in at : /\ q[i].rows[r] # Null
                            /\ Overlay(x, q, at)[r] = q[i].rows[r]
<1> DEFINE N == Naming(q, at, r)
<1>1. Overlay(x, q, at)[r] = IF N = {} THEN x[r] ELSE q[Max(N)].rows[r]
  BY DEF Overlay
<1>2. CASE N = {}
  BY <1>1, <1>2
<1>3. CASE N # {}
  <2>1. N \in SUBSET (0..Len(q)) /\ Len(q) \in Nat
    BY LenProperties DEF Naming
  <2>2. Max(N) \in N
    BY <1>3, <2>1, MaxIsGreatest
  <2> QED BY <1>1, <1>3, <2>2 DEF Naming
<1> QED BY <1>2, <1>3

(* A frame is delivered.                                                   *)
LEMMA DeliverMirror ==
    ASSUME TransportInv, StreamTypeOK, MirrorInv, NEW s \in Sockets, Delivers(s)
    PROVE  MirrorInv' /\ Before(client.store.rows, client'.store.rows)
<1> DEFINE m == Head(wire[s])
           q == Tail(wire[s])
<1>1. /\ s \in DOMAIN wire /\ wire[s] \in Seq(Message) /\ wire[s] # <<>>
      /\ FrameArrives(s, m) /\ wire' = [wire EXCEPT ![s] = q]
      /\ UNCHANGED <<serverVars, replies>>
  BY DEF Delivers, StreamTypeOK
<1>2. /\ m \in Message /\ q \in Seq(Message)
      /\ m \in Told(wire[s]) /\ Told(q) \subseteq Told(wire[s])
      /\ Ordered(wire[s]) /\ Ordered(q)
      /\ \A f \in Told(q) : Before(m.rows, f.rows)
  BY <1>1, TailFacts, HeadTailProperties DEF MirrorInv, TravelInv
<1>3. /\ DOMAIN wire' = DOMAIN wire /\ wire'[s] = q
      /\ \A t \in DOMAIN wire \ {s} : wire'[t] = wire[t]
  BY <1>1
<1>4. Drained(wire', wire) /\ Kept(replies', replies)
  BY <1>1, <1>3 DEF Drained, Kept
<1>5. Known(m.rows) /\ Stamped(m)
  BY <1>1, <1>2 DEF Told, MirrorInv, TravelInv
<1>6. client \in Client /\ OneLive(client)
  BY ClientStages
<1> HIDE DEF m, q
<1>0. Before(client.store.rows, client.store.rows)
  BY <1>6 DEF Before, Client, StoreState, Rows
<1>7. CASE client' = client
  BY <1>0, <1>1, <1>4, <1>7, QuietMirror DEF Moves, SameView
<1>8. CASE Superseded(client, client')
  <2>1. MirrorInv'
    BY <1>1, <1>4, <1>8, QuietMirror DEF Moves
  <2> QED BY <1>0, <1>8, <2>1 DEF Superseded
<1>9. ASSUME s = client.generation, client'.generation = s
      PROVE  LiveWire = Told(wire[s]) /\ LiveWire' = Told(q)
  BY <1>1, <1>3, <1>9 DEF LiveWire, Told
<1>10. ServerInv'
  BY <1>1 DEF MirrorInv, ServerInv, serverVars
<1>11. /\ \A t \in DOMAIN wire' :
             /\ Ordered(wire'[t])
             /\ \A i \in DOMAIN wire'[t] :
                   Known(wire[t][i].rows)' /\ Stamped(wire[t][i])'
       /\ \A a \in DOMAIN replies' : Known(replies[a].rows)'
  <2>1. ASSUME NEW t \in DOMAIN wire', NEW i \in DOMAIN wire'[t]
        PROVE  Known(wire[t][i].rows)' /\ Stamped(wire[t][i])'
    <3>1. wire'[t][i] \in Told(wire[t]) /\ t \in DOMAIN wire
      BY <1>2, <1>3 DEF Told
    <3>2. PICK j \in DOMAIN wire[t] : wire'[t][i] = wire[t][j]
      BY <3>1 DEF Told
    <3> QED BY <1>1, <3>1, <3>2 DEF MirrorInv, TravelInv, Known, Stamped, serverVars
  <2>2. \A t \in DOMAIN wire' : Ordered(wire'[t])
    BY <1>2, <1>3 DEF MirrorInv, TravelInv
  <2>3. \A a \in DOMAIN replies' : Known(replies[a].rows)'
    BY <1>1 DEF MirrorInv, TravelInv, Known, serverVars
  <2> QED BY <2>1, <2>2, <2>3
<1>12. CASE /\ s = client.generation /\ client.socket = s
            /\ client.epoch = Null /\ client'.epoch = Null
            /\ client'.store = client.store
            /\ client'.buffered = Append(client.buffered, m)
            /\ client'.generation = s /\ client'.socket = s
  <2>1. client.buffered \in Seq(Message) /\ client.socket # Null
    BY <1>6, <1>12, NullAssumption DEF Client
  <2>2. LiveWire = Told(wire[s]) /\ LiveWire' = Told(q)
    BY <1>9, <1>12
  <2>3. /\ Ordered(client.buffered)
        /\ \A f \in Held \cup LiveWire : Before(client.store.rows, f.rows)
        /\ \A f \in Held, g \in LiveWire : Before(f.rows, g.rows)
    BY <1>12, <2>1 DEF MirrorInv, UnjoinedInv
  <2>4. Held = Told(client.buffered) /\ Held' = Told(client'.buffered)
    BY DEF Held, Told
  <2>5. /\ client'.buffered \in Seq(Message) /\ Ordered(client'.buffered)
        /\ Held' = Held \cup {m}
    BY <1>2, <1>12, <2>1, <2>2, <2>3, <2>4, AppendFacts
  <2>6. UnjoinedInv'
    <3>1. \A f \in Held' \cup LiveWire' : Before(client'.store.rows, f.rows)
      BY <1>2, <1>12, <2>2, <2>3, <2>5
    <3>2. \A f \in Held', g \in LiveWire' : Before(f.rows, g.rows)
      BY <1>2, <2>2, <2>3, <2>5
    <3> QED BY <2>5, <3>1, <3>2 DEF UnjoinedInv
  <2>7. ReplyInv'
    BY <1>1, <1>2, <1>12, <2>2, <2>5 DEF MirrorInv, ReplyInv
  <2>8. JoinedInv'
    BY <1>12 DEF JoinedInv
  <2>9. \A i \in DOMAIN client'.buffered :
            Known(client.buffered[i].rows)' /\ Stamped(client.buffered[i])'
    <3> TAKE i \in DOMAIN client'.buffered
    <3>1. client'.buffered[i] \in Held \cup {m}
      BY <2>4, <2>5 DEF Told
    <3>2. Known(client'.buffered[i].rows) /\ Stamped(client'.buffered[i])
      BY <1>5, <3>1 DEF Held, MirrorInv, TravelInv
    <3> QED BY <1>1, <3>2 DEF Known, Stamped, serverVars
  <2>10. Known(client.store.rows)'
    BY <1>1, <1>12 DEF MirrorInv, Known, serverVars
  <2>11. Before(client.store.rows, client'.store.rows)
    BY <1>0, <1>12
  <2> QED BY <1>10, <1>11, <2>6, <2>7, <2>8, <2>9, <2>10, <2>11
          DEF MirrorInv, TravelInv
<1>13. CASE /\ s = client.generation /\ client.socket = s
            /\ client.epoch # Null /\ Reconcile(client.epoch, m) = "apply"
            /\ client'.store.rows = Overlay(client.store.rows, <<m>>, {1})
            /\ client'.epoch = client.epoch
            /\ client'.buffered = client.buffered
            /\ client'.generation = s /\ client'.socket = s
  <2>1. client.socket # Null /\ client.store.rows \in Rows
    BY <1>6, <1>13, NullAssumption DEF Client, StoreState
  <2>2. LiveWire = Told(wire[s]) /\ LiveWire' = Told(q)
    BY <1>9, <1>13
  <2>3. \A r \in Robot : client'.store.rows[r] \in {client.store.rows[r], m.rows[r]}
    <3>1. <<m>> \in Seq(Message) /\ 1 \in DOMAIN <<m>> /\ <<m>>[1] = m
      BY <1>2
    <3>2. {1} \in SUBSET (DOMAIN <<m>>)
      BY <3>1
    <3>3. ASSUME NEW r \in Robot
          PROVE  Overlay(client.store.rows, <<m>>, {1})[r]
                    \in {client.store.rows[r], m.rows[r]}
      <4>1. \/ Overlay(client.store.rows, <<m>>, {1})[r] = client.store.rows[r]
            \/ \E i \in {1} :
                  /\ <<m>>[i].rows[r] # Null
                  /\ Overlay(client.store.rows, <<m>>, {1})[r] = <<m>>[i].rows[r]
        BY <2>1, <3>1, <3>2, OverlayRow
      <4> QED BY <3>1, <4>1
    <3> QED BY <1>13, <3>3
  <2>4. Known(client.store.rows)'
    BY <1>1, <1>5, <2>3 DEF MirrorInv, Known, serverVars
  <2>5. JoinedInv'
    <3>1. ASSUME NEW f \in LiveWire', Newer(client.epoch, f)
          PROVE  Before(client'.store.rows, f.rows)
      <4>1. Before(client.store.rows, f.rows) /\ Before(m.rows, f.rows)
        BY <1>2, <1>13, <2>1, <2>2, <3>1 DEF MirrorInv, JoinedInv
      <4> QED BY <2>3, <4>1 DEF Before
    <3> QED BY <1>13, <3>1 DEF JoinedInv
  <2>6. UnjoinedInv'
    BY <1>13 DEF UnjoinedInv
  <2>7. s \notin DOMAIN replies'
    BY <1>1, <1>6, <1>13 DEF OneLive, StreamTypeOK
  <2>8. ReplyInv'
    BY <1>13, <2>7 DEF ReplyInv
  <2>9. \A i \in DOMAIN client'.buffered :
            Known(client.buffered[i].rows)' /\ Stamped(client.buffered[i])'
    BY <1>1, <1>13 DEF MirrorInv, TravelInv, Known, Stamped, serverVars
  <2>10. Before(client.store.rows, client'.store.rows)
    <3>1. Before(client.store.rows, m.rows)
      BY <1>2, <1>13, <2>1, <2>2 DEF MirrorInv, JoinedInv, Newer
    <3> QED BY <1>0, <2>3, <3>1 DEF Before
  <2> QED BY <1>10, <1>11, <2>4, <2>5, <2>6, <2>8, <2>9, <2>10
          DEF MirrorInv, TravelInv
<1> QED BY <1>1, <1>2, <1>7, <1>8, <1>12, <1>13, FrameMoves
(* A snapshot lands: the join shows it with what the buffer adds.          *)
LEMMA RespondMirror ==
    ASSUME TransportInv, StreamTypeOK, MirrorInv,
           NEW a \in client.fetches, Responds(a)
    PROVE  MirrorInv' /\ Before(client.store.rows, client'.store.rows)
<1> DEFINE m == replies[a]
           e == [session |-> m.session, seq |-> m.seq]
           buf == client.buffered
<1>1. /\ a \in DOMAIN replies /\ m \in Message /\ m.rows \in Rows
      /\ FetchArrives(a, m) /\ Known(m.rows)
      /\ UNCHANGED <<serverVars, wire>>
  BY DEF Responds, StreamTypeOK, MirrorInv, TravelInv, Message
<1>2. Drained(wire', wire)
  BY <1>1 DEF Drained
<1>3. /\ Kept(replies', replies) /\ DOMAIN replies' = DOMAIN replies \ {a}
  <2>1. replies' = Without(replies, a)
    BY DEF Responds
  <2> QED BY <2>1, WithoutFields DEF Kept
<1>4. /\ client \in Client /\ OneLive(client)
      /\ client.store.rows \in Rows /\ buf \in Seq(Message)
  BY ClientStages DEF Client, StoreState
<1>5. Before(client.store.rows, client.store.rows)
  BY <1>4 DEF Before, Rows
<1>6. \/ a # client.generation /\ SameView(client, client')
      \/ /\ a = client.generation
         /\ client.socket = a /\ client.socket # Null /\ client.epoch = Null
         /\ client'.buffered = <<>>
         /\ client'.store.rows = Overlay(m.rows, buf, Replay(e, buf))
         /\ \/ client'.generation > a /\ client'.socket = Null
            \/ /\ client'.generation = a /\ client'.socket = a
               /\ client'.epoch = e
  <2> HIDE DEF m
  <2> QED BY <1>1, SnapshotMoves
<1>7. CASE SameView(client, client')
  <2>1. MirrorInv'
    BY <1>1, <1>2, <1>3, <1>7, QuietMirror DEF Moves
  <2> QED BY <1>5, <1>7, <2>1 DEF SameView
<1>8. CASE /\ a = client.generation
           /\ client.socket = a /\ client.socket # Null /\ client.epoch = Null
           /\ client'.buffered = <<>>
           /\ client'.store.rows = Overlay(m.rows, buf, Replay(e, buf))
           /\ \/ client'.generation > a /\ client'.socket = Null
              \/ /\ client'.generation = a /\ client'.socket = a
                 /\ client'.epoch = e
  <2> DEFINE x == client.store.rows
             y == client'.store.rows
  <2>1. /\ Before(x, m.rows)
        /\ \A f \in Held \cup LiveWire : Newer(m, f) => Before(m.rows, f.rows)
        /\ \A f \in Held : Before(x, f.rows)
        /\ \A f \in Held, g \in LiveWire : Before(f.rows, g.rows)
    BY <1>1, <1>8 DEF MirrorInv, ReplyInv, UnjoinedInv
  <2>2. ASSUME NEW r \in Robot
        PROVE  y[r] = m.rows[r] \/ \E f \in Held : y[r] = f.rows[r]
    <3>1. Replay(e, buf) \in SUBSET (DOMAIN buf)
      BY DEF Replay
    <3> HIDE DEF m, e, buf
    <3>2. \/ y[r] = m.rows[r]
          \/ \E i \in Replay(e, buf) : y[r] = buf[i].rows[r]
      BY <1>1, <1>4, <1>8, <3>1, OverlayRow
    <3>3. \A i \in DOMAIN buf : buf[i] \in Held
      BY DEF Held, buf
    <3> QED BY <3>1, <3>2, <3>3
  <2>3. \A f \in Held : Known(f.rows)
    BY DEF MirrorInv, TravelInv, Held
  <2>4. Before(x, y)
    BY <2>1, <2>2 DEF Before
  <2>5. Known(client.store.rows)'
    BY <1>1, <2>2, <2>3 DEF Known, serverVars
  <2>6. client'.buffered = <<>> /\ DOMAIN <<>> = {}
    BY <1>8
  <2>7. Ordered(client'.buffered) /\ Held' = {}
    BY <2>6 DEF Ordered, Held
  <2>8. ServerInv'
    BY <1>1 DEF MirrorInv, ServerInv, serverVars
  <2>9. TravelInv'
    BY <1>1, <1>3, <2>6 DEF MirrorInv, TravelInv, Kept, Known, Stamped, serverVars
  <2>10. UnjoinedInv'
    <3>1. e \in Epoch
      BY <1>1 DEF Message, Epoch
    <3> QED BY <1>8, <3>1, EpochAssumption DEF UnjoinedInv
  <2>11. client'.generation \notin DOMAIN replies'
    BY <1>3, <1>8, NoneNewer
  <2>12. ReplyInv'
    BY <2>11 DEF ReplyInv
  <2>13. JoinedInv'
    <3>1. ASSUME client'.generation = a, client'.epoch = e,
                 NEW f \in LiveWire', Newer(e, f)
          PROVE  Before(y, f.rows)
      <4>1. LiveWire' = LiveWire
        BY <1>1, <1>8, <3>1 DEF LiveWire
      <4>2. Newer(m, f)
        BY <3>1 DEF Newer, Reconcile
      <4>3. Before(m.rows, f.rows) /\ \A g \in Held : Before(g.rows, f.rows)
        BY <2>1, <3>1, <4>1, <4>2
      <4> QED BY <2>2, <4>3 DEF Before
    <3> QED BY <1>8, <3>1 DEF JoinedInv
  <2> QED BY <2>4, <2>5, <2>8, <2>9, <2>10, <2>12, <2>13 DEF MirrorInv
<1> QED BY <1>6, <1>7, <1>8

(* Everything else the network and the page do.                            *)
LEMMA RestMirror ==
    ASSUME TransportInv, StreamTypeOK, MirrorInv,
           \/ Page \/ Timer
           \/ \E s \in Sockets : Opens(s) \/ Rejects(s) \/ Closes(s)
           \/ \E a \in client.fetches : FetchLost(a)
    PROVE  MirrorInv' /\ Before(client.store.rows, client'.store.rows)
<1>1. Before(client.store.rows, client.store.rows)
  BY ClientStages DEF Before, Client, StoreState, Rows
<1>2. Moves(client, client')
  <2>1. CASE Page \/ Timer
    BY <2>1, PageMoves DEF Page, Timer
  <2>2. ASSUME NEW s \in Sockets, Opens(s)
        PROVE  Moves(client, client')
    BY <2>2, OpenMoves DEF Opens, Moves
  <2>3. ASSUME NEW s \in Sockets, Rejects(s)
        PROVE  Moves(client, client')
    BY <2>3 DEF Rejects, vars, Moves, SameView
  <2>4. ASSUME NEW s \in Sockets, Closes(s)
        PROVE  Moves(client, client')
    BY <2>4, CloseMoves DEF Closes
  <2>5. ASSUME NEW a \in client.fetches, FetchLost(a)
        PROVE  Moves(client, client')
    BY <2>5, LostMoves DEF FetchLost
  <2> QED BY <2>1, <2>2, <2>3, <2>4, <2>5
<1>3. UNCHANGED serverVars /\ Drained(wire', wire) /\ Kept(replies', replies)
  BY NetworkTakes DEF NetworkStep
<1>4. MirrorInv'
  BY <1>2, <1>3, QuietMirror
<1> QED BY <1>1, <1>2, <1>4 DEF Moves, SameView, Superseded
LEMMA MirrorStep ==
    ASSUME TransportInv, StreamTypeOK, MirrorInv, StreamNext
    PROVE  /\ MirrorInv'
           /\ \/ /\ newest' = newest
                 /\ Before(client.store.rows, client'.store.rows)
              \/ \E r \in Robot : Change(r)
<1>0. Before(client.store.rows, client.store.rows)
  BY ClientStages DEF Before, Client, StoreState, Rows
<1>1. CASE \E r \in Robot : Change(r)
  BY <1>1, ChangeMirror
<1>2. CASE Flush
  <2>1. client' = client /\ newest' = newest
    BY <1>2 DEF Flush, vars
  <2> QED BY <1>0, <1>2, <2>1, FlushMirror
<1>3. CASE \/ \E s \in Sockets : Accept(s)
           \/ \E s \in DOMAIN pending : Deregister(s)
           \/ Restart
           \/ \E a \in client.fetches : ReadFleet(a)
  <2>1. client' = client /\ newest' = newest
    BY <1>3 DEF Accept, Deregister, Restart, ReadFleet, vars, serverVars
  <2> QED BY <1>0, <1>3, <2>1, ServerMirror
<1>4. ASSUME NetworkStep
      PROVE  MirrorInv' /\ Before(client.store.rows, client'.store.rows)
  BY <1>4, DeliverMirror, RespondMirror, RestMirror DEF NetworkStep
<1>5. NetworkStep => newest' = newest
  BY NetworkTakes DEF serverVars
<1> QED BY <1>1, <1>2, <1>3, <1>4, <1>5 DEF StreamNext, NetworkStep

LEMMA MirrorInit == StreamInit => MirrorInv
<1> SUFFICES ASSUME StreamInit PROVE MirrorInv
  OBVIOUS
<1>1. /\ client = InitialClient /\ stored = Unmarked
      /\ DOMAIN pending = {} /\ DOMAIN wire = {} /\ DOMAIN replies = {}
  BY DEF StreamInit, Init
<1>2. /\ client.store.rows = [r \in Robot |-> Null] /\ client.socket = Null
      /\ client.buffered = <<>>
  BY <1>1 DEF InitialClient, InitialStore
<1>3. DOMAIN client.buffered = {}
  BY <1>2
<1>4. ServerInv /\ TravelInv /\ Known(client.store.rows)
  BY <1>1, <1>2, <1>3 DEF ServerInv, TravelInv, Known, Unmarked
<1>5. UnjoinedInv /\ ReplyInv /\ JoinedInv
  BY <1>1, <1>2 DEF UnjoinedInv, ReplyInv, JoinedInv
<1> QED BY <1>4, <1>5 DEF MirrorInv
(* The inductive invariant of the composition: the console's own, the      *)
(* types, and who is behind whom.                                          *)
StreamInv == TransportInv /\ StreamTypeOK /\ MirrorInv

LEMMA StreamStep == StreamInv /\ [StreamNext]_streamVars => StreamInv'
<1> SUFFICES ASSUME StreamInv, [StreamNext]_streamVars
             PROVE  StreamInv'
  OBVIOUS
<1>1. CASE StreamNext
  <2>1. TransportInv'
    BY <1>1, StreamIsTransport, TransportStep DEF StreamInv
  <2>2. StreamTypeOK' /\ MirrorInv'
    BY <1>1, <2>1, StreamTypeStep, MirrorStep DEF StreamInv
  <2> QED BY <2>1, <2>2 DEF StreamInv
<1>2. CASE UNCHANGED streamVars
  <2>1. UNCHANGED <<vars, serverVars, wire, replies, drops, rejected>>
    BY <1>2 DEF streamVars
  <2>2. TransportInv'
    BY <2>1, TransportStep DEF StreamInv
  <2>3. StreamTypeOK'
    BY <2>1 DEF StreamInv, StreamTypeOK, TypeOK, Sockets, vars, serverVars
  <2>4. MirrorInv'
    <3>1. client' = client
      BY <2>1 DEF vars
    <3>2. Drained(wire', wire) /\ Kept(replies', replies) /\ Moves(client, client')
      BY <2>1, <3>1 DEF Drained, Kept, Moves, SameView
    <3> QED BY <2>1, <3>2, QuietMirror DEF StreamInv
  <2> QED BY <2>2, <2>3, <2>4 DEF StreamInv
<1> QED BY <1>1, <1>2

LEMMA StreamInvariant == StreamSpec => []StreamInv
<1>1. StreamInit => StreamInv
  BY StreamTypesInit, MirrorInit DEF StreamInv
<1> QED BY <1>1, StreamStep, PTL DEF StreamSpec
-----------------------------------------------------------------------------
(* StreamTypeOK: the composition is well formed; no frame and no response  *)
(* travels for a socket or a fetch the browser has forgotten.              *)
THEOREM StreamTypes == StreamSpec => []StreamTypeOK
<1>1. StreamInv => StreamTypeOK
  BY DEF StreamInv
<1> QED BY <1>1, StreamInvariant, PTL

(* OneAttempt, BannerIsHonest and ResourceAgrees hold of the console with  *)
(* its real server as they do in any network.                              *)
THEOREM StreamKeepsTransport ==
    StreamSpec => [](OneAttempt /\ BannerIsHonest /\ ResourceAgrees)
<1>1. StreamInv => OneAttempt /\ BannerIsHonest /\ ResourceAgrees
  BY InvOneAttempt, InvBannerIsHonest, InvResourceAgrees DEF StreamInv
<1> QED BY <1>1, StreamInvariant, PTL

(* MirrorsFleet: every step of the console, the server and the network is  *)
(* one of the abstract mirror: the rows shown are states the server had    *)
(* and a row never goes back to an older one (server/src/fanout,           *)
(* web/src/shared/lib/coldStart).                                          *)
THEOREM StreamMirrorsFleet == StreamSpec => MirrorsFleet
<1>1. StreamInit => Mirror!Init
  BY DEF StreamInit, Init, Mirror!Init, InitialClient, InitialStore
<1>2. StreamInv /\ [StreamNext]_streamVars => [Mirror!Next]_(Mirror!vars)
  <2> SUFFICES ASSUME StreamInv, [StreamNext]_streamVars
               PROVE  [Mirror!Next]_(Mirror!vars)
    OBVIOUS
  <2>1. CASE UNCHANGED streamVars
    BY <2>1 DEF streamVars, serverVars, vars, Mirror!vars
  <2>2. ASSUME NEW r \in Robot, Change(r)
        PROVE  Mirror!Next
    <3>1. newest' = [newest EXCEPT ![r] = @ + 1] /\ client' = client
      BY <2>2 DEF Change, vars
    <3> QED BY <3>1 DEF Mirror!Next, Mirror!Report
  <2>3. ASSUME StreamNext, newest' = newest,
               Before(client.store.rows, client'.store.rows)
        PROVE  Mirror!Show
    <3>1. /\ client'.store.rows \in Rows /\ client.store.rows \in Rows
          /\ newest \in [Robot -> Nat]
      <4>1. StreamTypeOK' /\ StreamTypeOK
        BY StreamStep DEF StreamInv
      <4>2. client' \in Client /\ client \in Client
        BY <4>1 DEF StreamTypeOK, TypeOK
      <4> QED BY <4>1, <4>2 DEF Client, StoreState, StreamTypeOK
    <3>2. Known(client.store.rows)' /\ Known(client.store.rows)
      BY StreamStep DEF StreamInv, MirrorInv
    <3>3. ASSUME NEW r \in Robot, client'.store.rows[r] # Null
          PROVE  /\ client'.store.rows[r] \in 1..newest[r]
                 /\ client'.store.rows[r] \in
                       (IF client.store.rows[r] = Null THEN 0
                        ELSE client.store.rows[r])..newest[r]
      <4>1. client'.store.rows[r] \in 1..newest[r]
        BY <2>3, <3>2, <3>3 DEF Known
      <4>2. client.store.rows[r] # Null =>
               /\ client.store.rows[r] <= client'.store.rows[r]
               /\ client.store.rows[r] \in 1..newest[r]
        BY <2>3, <3>2, <3>3 DEF Before, Known
      <4> QED BY <3>1, <4>1, <4>2
    <3>4. client'.store.rows \in
             [Robot -> (UNION {1..newest[r] : r \in Robot}) \cup {Null}]
      BY <3>1, <3>3 DEF Rows
    <3> QED BY <2>3, <3>3, <3>4 DEF Mirror!Show, Mirror!Shown
  <2> QED BY <2>1, <2>2, <2>3, MirrorStep DEF StreamInv, Mirror!Next
<1> QED BY <1>1, <1>2, StreamInvariant, PTL
        DEF StreamSpec, MirrorsFleet, Mirror!Spec
-----------------------------------------------------------------------------
(* Rows after a sequence of frames, each laid over them if the epoch's     *)
(* reconciliation lets it in.                                              *)
Carried(base, e, q) == Overlay(base, q, Replay(e, q))

LEMMA MaxIs ==
    ASSUME NEW n \in Nat, NEW S \in SUBSET (0..n), NEW m \in S,
           \A y \in S : y <= m
    PROVE  Max(S) = m
<1>1. Max(S) \in S /\ \A y \in S : y <= Max(S)
  BY MaxIsGreatest
<1> DEFINE x == Max(S)
<1> HIDE DEF x
<1>2. m <= x /\ x <= m
  BY <1>1 DEF x
<1>3. m \in 0..n /\ x \in 0..n
  BY <1>1 DEF x
<1> QED BY <1>2, <1>3 DEF x

LEMMA CarriedType ==
    ASSUME NEW base \in Rows, NEW e, NEW q \in Seq(Message)
    PROVE  /\ Replay(e, q) \in SUBSET (DOMAIN q)
           /\ Carried(base, e, q) \in Rows
<1>1. Replay(e, q) \in SUBSET (DOMAIN q)
  BY DEF Replay
<1> QED BY <1>1, OverlayType DEF Carried

(* Frames that say nothing to this epoch leave the rows alone.             *)
LEMMA CarriedNothing ==
    ASSUME NEW base \in Rows, NEW e, NEW q,
           \A f \in Told(q) : ~Newer(e, f)
    PROVE  Carried(base, e, q) = base
<1>1. Replay(e, q) = {}
  BY DEF Told, Replay, Newer
<1>2. \A r \in Robot : Naming(q, {}, r) = {}
  BY DEF Naming
<1> QED BY <1>1, <1>2 DEF Carried, Overlay, Rows

(* One frame.                                                              *)
LEMMA CarriedOne ==
    ASSUME NEW base \in Rows, NEW e, NEW f \in Message
    PROVE  /\ ~Newer(e, f) => Carried(base, e, <<f>>) = base
           /\ Newer(e, f) => Carried(base, e, <<f>>) = Overlay(base, <<f>>, {1})
           /\ \A r \in Robot :
                 Overlay(base, <<f>>, {1})[r] =
                    IF f.rows[r] = Null THEN base[r] ELSE f.rows[r]
<1>1. DOMAIN <<f>> = {1} /\ <<f>>[1] = f
  OBVIOUS
<1>2. ~Newer(e, f) => Carried(base, e, <<f>>) = base
  BY <1>1, CarriedNothing DEF Told
<1>3. Newer(e, f) => Carried(base, e, <<f>>) = Overlay(base, <<f>>, {1})
  <2>1. Newer(e, f) => Replay(e, <<f>>) = {1}
    BY <1>1 DEF Replay, Newer
  <2> QED BY <2>1 DEF Carried
<1>4. ASSUME NEW r \in Robot
      PROVE  Overlay(base, <<f>>, {1})[r] =
                IF f.rows[r] = Null THEN base[r] ELSE f.rows[r]
  <2>1. Naming(<<f>>, {1}, r) = IF f.rows[r] = Null THEN {} ELSE {1}
    BY <1>1 DEF Naming
  <2>2. Max({1}) = 1
    <3>1. {1} \in SUBSET (0..1) /\ 1 \in {1} /\ \A y \in {1} : y <= 1
      OBVIOUS
    <3> QED BY <3>1, MaxIs
  <2> QED BY <1>1, <2>1, <2>2 DEF Overlay
<1> QED BY <1>2, <1>3, <1>4

(* Frames in two parts: the later part goes over what the earlier gave.    *)
LEMMA CarriedInTurn ==
    ASSUME NEW base \in Rows, NEW e, NEW p \in Seq(Message), NEW q \in Seq(Message)
    PROVE  Carried(base, e, p \o q) = Carried(Carried(base, e, p), e, q)
<1> DEFINE t == p \o q
           k == Len(p)
           n == Len(q)
           x == Carried(base, e, p)
<1>1. /\ k \in Nat /\ n \in Nat /\ DOMAIN p = 1..k /\ DOMAIN q = 1..n
      /\ t \in Seq(Message) /\ DOMAIN t = 1..(k + n)
      /\ \A i \in 1..k : t[i] = p[i]
      /\ \A i \in 1..n : t[k + i] = q[i]
  <2>1. /\ k \in Nat /\ n \in Nat /\ DOMAIN p = 1..k /\ DOMAIN q = 1..n
    BY LenProperties
  <2>2. /\ t \in Seq(Message) /\ Len(t) = k + n
        /\ \A i \in 1..k+n : t[i] = IF i <= k THEN p[i] ELSE q[i - k]
    BY ConcatProperties
  <2>3. DOMAIN t = 1..(k + n)
    BY <2>2, LenProperties
  <2> HIDE DEF t
  <2>4. \A i \in 1..k : t[i] = p[i]
    BY <2>1, <2>2
  <2>5. \A i \in 1..n : t[k + i] = q[i]
    <3> TAKE i \in 1..n
    <3>1. k + i \in 1..k+n /\ ~(k + i <= k) /\ (k + i) - k = i
      BY <2>1
    <3> QED BY <2>2, <3>1
  <2> QED BY <2>1, <2>2, <2>3, <2>4, <2>5
<1>2. x \in Rows
  BY CarriedType
<1> HIDE DEF t, k, n
<1> SUFFICES ASSUME NEW r \in Robot
             PROVE  Carried(base, e, t)[r] = Carried(x, e, q)[r]
  BY DEF Carried, Overlay, t
<1> DEFINE P == Naming(p, Replay(e, p), r)
           Q == Naming(q, Replay(e, q), r)
           T == Naming(t, Replay(e, t), r)
<1>3. /\ \A i \in 1..k : i \in T <=> i \in P
      /\ \A i \in 1..n : k + i \in T <=> i \in Q
      /\ P \subseteq 1..k /\ Q \subseteq 1..n /\ T \subseteq 1..(k + n)
  <2>1. P \subseteq 1..k /\ Q \subseteq 1..n /\ T \subseteq 1..(k + n)
    BY <1>1 DEF Naming, Replay
  <2>2. \A i \in 1..k : i \in 1..(k+n) /\ i \in DOMAIN t /\ i \in DOMAIN p
    BY <1>1
  <2>3. \A i \in 1..n : k + i \in DOMAIN t /\ i \in DOMAIN q
    BY <1>1
  <2>4. \A i \in 1..k : i \in T <=> i \in P
    BY <1>1, <2>2 DEF Naming, Replay
  <2>5. \A i \in 1..n : k + i \in T <=> i \in Q
    BY <1>1, <2>3 DEF Naming, Replay
  <2> QED BY <2>1, <2>4, <2>5
<1>4. /\ Carried(base, e, t)[r] = IF T = {} THEN base[r] ELSE t[Max(T)].rows[r]
      /\ Carried(x, e, q)[r] = IF Q = {} THEN x[r] ELSE q[Max(Q)].rows[r]
      /\ x[r] = IF P = {} THEN base[r] ELSE p[Max(P)].rows[r]
  BY DEF Carried, Overlay
<1> HIDE DEF P, Q, T, x
<1>5. CASE Q # {}
  <2>1. Q \in SUBSET (0..n) /\ T \in SUBSET (0..(k + n)) /\ k + n \in Nat
    BY <1>1, <1>3
  <2>2. Max(Q) \in Q /\ \A y \in Q : y <= Max(Q)
    BY <1>1, <1>5, <2>1, MaxIsGreatest
  <2>3. Max(Q) \in 1..n /\ k + Max(Q) \in T
    BY <1>3, <2>2
  <2>4. \A y \in T : y <= k + Max(Q)
    <3> TAKE y \in T
    <3>1. CASE y <= k
      BY <1>1, <1>3, <2>3, <3>1
    <3>2. CASE ~(y <= k)
      <4>1. y - k \in 1..n /\ y = k + (y - k)
        BY <1>1, <1>3, <3>2
      <4>2. y - k \in Q
        BY <1>3, <4>1
      <4> QED BY <1>1, <2>2, <2>3, <4>1, <4>2
    <3> QED BY <3>1, <3>2
  <2>5. Max(T) = k + Max(Q)
    BY <2>1, <2>3, <2>4, MaxIs
  <2> QED BY <1>1, <1>4, <1>5, <2>3, <2>5
<1>6. CASE Q = {}
  <2>1. T = P
    <3>1. ASSUME NEW i \in T
          PROVE  i \in P
      <4>1. i \in 1..k \/ (i - k \in 1..n /\ i = k + (i - k))
        BY <1>1, <1>3
      <4> QED BY <1>3, <1>6, <4>1
    <3>2. ASSUME NEW i \in P
          PROVE  i \in T
      BY <1>3
    <3> QED BY <3>1, <3>2
  <2>2. P # {} => Max(P) \in 1..k
    <3>1. P \in SUBSET (0..k)
      BY <1>1, <1>3
    <3> QED BY <1>1, <1>3, <3>1, MaxIsGreatest
  <2> QED BY <1>1, <1>4, <1>6, <2>1, <2>2
<1> QED BY <1>5, <1>6
-----------------------------------------------------------------------------
(* What the console will have once everything held and coming is in, robot *)
(* by robot, for the robots the next flush will not mention.               *)
Caught(base, e, s) ==
    \A r \in Robot :
        pending[s][r] = Null =>
            Carried(base, e, client.buffered \o wire[s])[r] = stored[r]

RegisteredInv ==
    /\ \A s \in DOMAIN pending : s <= client.generation
    /\ client.generation \in DOMAIN pending => client.generation \in DOMAIN wire

EpochInv ==
    /\ \A a \in DOMAIN replies : Stamped(replies[a])
    /\ client.socket # Null /\ client.epoch # Null =>
          Stamped(client.epoch) /\ client.buffered = <<>>

(* The joined console on a socket of the running server, and the one whose *)
(* snapshot is on its way, once nothing was dropped undecoded.             *)
JoinedCaught ==
    /\ rejected = 0 /\ client.socket # Null /\ client.epoch # Null
    /\ client.epoch.session = session /\ client.generation \in DOMAIN pending
    => Caught(client.store.rows, client.epoch, client.generation)

JoiningCaught ==
    LET a == client.generation
    IN  /\ rejected = 0 /\ a \in DOMAIN replies /\ a \in DOMAIN pending
        /\ replies[a].session = session
        => Caught(replies[a].rows, replies[a], a)

CatchInv == RegisteredInv /\ EpochInv /\ JoinedCaught /\ JoiningCaught

(* A joined console, and one that waits for its snapshot, have an open     *)
(* socket.                                                                 *)
LEMMA LiveIsOpen ==
    ASSUME TransportInv,
           \/ client.socket # Null /\ client.epoch # Null
           \/ client.generation \in client.fetches
    PROVE  /\ client.socket = client.generation /\ client.socket # Null
           /\ client.generation \in client.open
           /\ client.generation \notin client.opening \cup client.closing
<1>1. client \in Client /\ OneLive(client)
  BY ClientStages
<1>2. CASE client.generation \in client.fetches
  BY <1>1, <1>2, NullAssumption DEF OneLive, Client
<1>3. CASE client.socket # Null /\ client.epoch # Null
  <2>1. Sound(client, connects)
    BY <1>3, ClientStages
  <2>2. client.stream.phase = "connected"
    BY <1>1, <1>3, <2>1
       DEF Sound, Shaped, Trying, Client, StreamState, StreamPhase
  <2>3. client.socket \in client.open /\ client.socket = client.generation
    BY <1>1, <1>3, <2>1, <2>2 DEF Sound, Shaped, OneLive
  <2> QED BY <1>1, <1>3, <2>3 DEF OneLive
<1> QED BY <1>2, <1>3

(* The bases and epochs Caught speaks of are well formed, and current.     *)
LEMMA CatchTypes ==
    ASSUME TransportInv, StreamTypeOK
    PROVE  /\ session \in Nat /\ sequence \in Nat /\ client.generation \in Nat
           /\ client.buffered \in Seq(Message) /\ client.store.rows \in Rows
           /\ client.epoch # Null =>
                 client.epoch.session \in Nat /\ client.epoch.seq \in Nat
           /\ \A a \in DOMAIN replies :
                 /\ replies[a] \in Message /\ replies[a].rows \in Rows
                 /\ replies[a].session \in Nat /\ replies[a].seq \in Nat
<1>1. session \in Nat /\ sequence \in Nat
  BY StreamAssumption DEF StreamTypeOK
<1>2. client \in Client
  BY ClientStages
<1>3. /\ client.generation \in Nat /\ client.buffered \in Seq(Message)
      /\ client.store.rows \in Rows /\ client.epoch \in Epoch \cup {Null}
  BY <1>2 DEF Client, StoreState
<1>4. client.epoch # Null => client.epoch.session \in Nat /\ client.epoch.seq \in Nat
  BY <1>3, StreamAssumption DEF Epoch
<1>5. \A a \in DOMAIN replies :
         /\ replies[a] \in Message /\ replies[a].rows \in Rows
         /\ replies[a].session \in Nat /\ replies[a].seq \in Nat
  BY StreamAssumption DEF StreamTypeOK, Message
<1> QED BY <1>1, <1>3, <1>4, <1>5

(* A step that takes nothing from the live socket and shows nothing new.   *)
LEMMA QuietCatch ==
    ASSUME TransportInv, StreamTypeOK, StreamTypeOK', CatchInv,
           UNCHANGED serverVars, rejected' = rejected, Kept(replies', replies), Moves(client, client'),
           SameView(client, client') /\ client.generation \in DOMAIN wire =>
              /\ client.generation \in DOMAIN wire'
              /\ wire'[client.generation] = wire[client.generation]
    PROVE  CatchInv'
<1>1. CASE SameView(client, client')
  <2>1. RegisteredInv' /\ EpochInv'
    BY <1>1 DEF CatchInv, RegisteredInv, EpochInv, Stamped, SameView, Kept,
                serverVars
  <2>2. ASSUME NEW base, NEW e, client.generation \in DOMAIN pending,
               Caught(base, e, client.generation)
        PROVE  \A r \in Robot : pending'[client.generation][r] = Null =>
                  Carried(base, e, client'.buffered \o wire'[client.generation])[r]
                     = stored'[r]
    BY <1>1, <2>2 DEF CatchInv, RegisteredInv, Caught, SameView, serverVars
  <2>3. JoinedCaught'
    BY <1>1, <2>2 DEF CatchInv, JoinedCaught, Caught, SameView, serverVars
  <2>4. JoiningCaught'
    BY <1>1, <2>2 DEF CatchInv, JoiningCaught, Caught, SameView, Kept, serverVars
  <2> QED BY <2>1, <2>3, <2>4 DEF CatchInv
<1>2. CASE Superseded(client, client')
  <2>1. client'.generation > client.generation /\ client.generation \in Nat
    BY <1>2, CatchTypes DEF Superseded
  <2>2. TypeOK /\ DOMAIN pending \subseteq Nat
    BY DEF StreamTypeOK
  <2>3. client'.generation \notin DOMAIN pending'
    BY <2>1, <2>2 DEF CatchInv, RegisteredInv, serverVars
  <2>4. \A s \in DOMAIN pending' : s <= client'.generation
    <3> TAKE s \in DOMAIN pending'
    <3>1. s <= client.generation /\ s \in Nat
      BY <2>2 DEF CatchInv, RegisteredInv, serverVars
    <3>2. client'.generation \in Nat
      BY DEF StreamTypeOK, TypeOK, Client
    <3> QED BY <2>1, <3>1, <3>2
  <2>5. client'.socket # Null => client'.epoch = Null
    BY <1>2 DEF Superseded
  <2>6. \A a \in DOMAIN replies' : Stamped(replies[a])'
    BY DEF CatchInv, EpochInv, Stamped, Kept, serverVars
  <2> QED BY <2>3, <2>4, <2>5, <2>6
          DEF CatchInv, RegisteredInv, EpochInv, JoinedCaught, JoiningCaught
<1> QED BY <1>1, <1>2 DEF Moves
LEMMA FramesAssociate ==
    ASSUME NEW p \in Seq(Message), NEW q \in Seq(Message), NEW s \in Seq(Message)
    PROVE  (p \o q) \o s = p \o (q \o s)
BY ConcatAssociative

LEMMA ToldOfBoth ==
    ASSUME NEW p \in Seq(Message), NEW q \in Seq(Message)
    PROVE  Told(p \o q) \subseteq Told(p) \cup Told(q)
<1> DEFINE t == p \o q
           k == Len(p)
           n == Len(q)
<1>1. /\ k \in Nat /\ n \in Nat /\ DOMAIN p = 1..k /\ DOMAIN q = 1..n
  BY LenProperties
<1>2. /\ t \in Seq(Message) /\ Len(t) = k + n
      /\ \A i \in 1..k+n : t[i] = IF i <= k THEN p[i] ELSE q[i - k]
  BY ConcatProperties
<1>3. DOMAIN t = 1..(k + n)
  BY <1>2, LenProperties
<1> HIDE DEF t, k, n
<1>4. ASSUME NEW i \in 1..(k + n)
      PROVE  t[i] \in Told(p) \cup Told(q)
  <2>1. CASE i <= k
    <3>1. i \in DOMAIN p
      BY <1>1, <2>1
    <3> QED BY <1>2, <2>1, <3>1 DEF Told
  <2>2. CASE ~(i <= k)
    <3>1. i - k \in 1..n
      BY <1>1, <2>2
    <3> QED BY <1>1, <1>2, <2>2, <3>1 DEF Told
  <2> QED BY <2>1, <2>2
<1>5. Told(t) \subseteq Told(p) \cup Told(q)
  BY <1>3, <1>4 DEF Told
<1> QED BY <1>5 DEF t

(* The server's steps.                                                     *)
LEMMA ChangeCatch ==
    ASSUME TransportInv, StreamTypeOK, CatchInv, NEW q \in Robot, Change(q)
    PROVE  CatchInv'
<1> DEFINE g == client.generation
<1>1. /\ UNCHANGED <<client, session, sequence, wire, replies, rejected>>
      /\ DOMAIN pending' = DOMAIN pending
  BY DEF Change, vars
<1>2. RegisteredInv' /\ EpochInv'
  BY <1>1 DEF CatchInv, RegisteredInv, EpochInv, Stamped
<1>3. ASSUME NEW base, NEW e, g \in DOMAIN pending, Caught(base, e, g),
             NEW r \in Robot, pending'[g][r] = Null
      PROVE  Carried(base, e, client.buffered \o wire[g])[r] = stored'[r]
  <2>1. /\ pending[g] \in [Robot -> Nat \cup {Null}] /\ newest \in [Robot -> Nat]
        /\ stored \in [Robot -> Nat \cup {Null}]
    BY <1>3 DEF StreamTypeOK, Rows
  <2>2. newest'[q] \in Nat
    BY <2>1 DEF Change
  <2>3. /\ pending'[g] = [pending[g] EXCEPT ![q] = newest'[q]]
        /\ stored' = [stored EXCEPT ![q] = newest'[q]]
    BY <1>3 DEF Change
  <2>4. r # q
    BY <1>3, <2>1, <2>2, <2>3, NullAssumption
  <2>5. pending[g][r] = Null /\ stored'[r] = stored[r]
    BY <1>3, <2>1, <2>3, <2>4
  <2> QED BY <1>3, <2>5 DEF Caught
<1>4. JoinedCaught' /\ JoiningCaught'
  BY <1>1, <1>3 DEF CatchInv, JoinedCaught, JoiningCaught, Caught
<1> QED BY <1>2, <1>4 DEF CatchInv

(* A flush moves what is pending onto the wire, under a number no epoch    *)
(* has reached.                                                            *)
LEMMA FlushCatch ==
    ASSUME TransportInv, StreamTypeOK, ServerInv, CatchInv, Flush
    PROVE  CatchInv'
<1> DEFINE g == client.generation
           b == client.buffered
<1>1. /\ UNCHANGED <<client, session, stored, newest, replies, rejected>>
      /\ sequence' = sequence + 1 /\ DOMAIN pending' = DOMAIN pending
      /\ DOMAIN wire' = DOMAIN wire
  BY DEF Flush, vars
<1>2. /\ sequence \in Nat /\ session \in Nat /\ b \in Seq(Message)
      /\ client.store.rows \in Rows
      /\ client.epoch # Null => client.epoch.seq \in Nat
      /\ \A a \in DOMAIN replies : replies[a].rows \in Rows /\ replies[a].seq \in Nat
  BY CatchTypes
<1>3. RegisteredInv'
  BY <1>1 DEF CatchInv, RegisteredInv
<1>4. EpochInv'
  <2>1. ASSUME NEW f, Stamped(f), f.seq \in Nat
        PROVE  f.session <= session /\ (f.session = session => f.seq <= sequence + 1)
    BY <1>2, <2>1 DEF Stamped
  <2> QED BY <1>1, <1>2, <2>1 DEF CatchInv, EpochInv, Stamped
<1>5. ASSUME NEW base \in Rows, NEW e, e.session = session, e.seq \in Nat,
             e.seq <= sequence, g \in DOMAIN pending, Caught(base, e, g),
             NEW r \in Robot
      PROVE  Carried(base, e, b \o wire'[g])[r] = stored[r]
  <2>1. g \in DOMAIN wire /\ wire[g] \in Seq(Message) /\ pending[g] \in Rows
    BY <1>5 DEF CatchInv, RegisteredInv, StreamTypeOK
  <2>2. CASE g \in Sending
    <3> DEFINE f == Frame(g)
               x == Carried(base, e, b \o wire[g])
    <3>1. f = [session |-> session, seq |-> sequence + 1, rows |-> pending[g]]
      BY <1>1 DEF Frame
    <3>2. f \in Message
      BY <1>2, <2>1, <3>1 DEF Message, StreamTypeOK
    <3>3. Newer(e, f)
      BY <1>2, <1>5, <3>1 DEF Newer, Reconcile
    <3>4. wire'[g] = Append(wire[g], f)
      BY <2>1, <2>2 DEF Flush
    <3>5. f.rows = pending[g]
      BY <3>1
    <3> DEFINE w == wire[g]
               p == b \o w
               l == <<f>>
    <3> HIDE DEF f
    <3>6. /\ w \in Seq(Message) /\ l \in Seq(Message)
          /\ wire'[g] = w \o l
      BY <2>1, <3>2, <3>4, AppendIsConcat
    <3> HIDE DEF w, l
    <3>7. b \o wire'[g] = p \o l /\ p \in Seq(Message)
      <4>1. (b \o w) \o l = b \o (w \o l)
        BY <1>2, <3>6, FramesAssociate
      <4>2. b \o w \in Seq(Message)
        BY <1>2, <3>6, ConcatProperties
      <4> QED BY <3>6, <4>1, <4>2
    <3>8. x \in Rows
      BY <1>5, <3>7, CarriedType DEF w
    <3> HIDE DEF p
    <3>9. Carried(base, e, b \o wire'[g]) = Carried(x, e, <<f>>)
      <4>1. Carried(base, e, p \o l) = Carried(Carried(base, e, p), e, l)
        BY <1>5, <3>6, <3>7, CarriedInTurn
      <4> QED BY <3>7, <4>1 DEF p, w, l
    <3> HIDE DEF x
    <3>10. Carried(x, e, <<f>>)[r] = IF f.rows[r] = Null THEN x[r] ELSE f.rows[r]
      BY <3>2, <3>3, <3>8, CarriedOne
    <3>11. pending[g][r] = Null => x[r] = stored[r]
      BY <1>5 DEF Caught, x
    <3>12. pending[g][r] # Null => pending[g][r] = stored[r]
      BY <1>5 DEF ServerInv
    <3> QED BY <3>5, <3>9, <3>10, <3>11, <3>12
  <2>3. CASE g \notin Sending
    <3>1. pending[g] = Unmarked /\ wire'[g] = wire[g]
      BY <1>5, <2>1, <2>3 DEF Sending, Flush
    <3> QED BY <1>5, <3>1 DEF Caught, Unmarked
  <2> QED BY <2>2, <2>3
<1> HIDE DEF g, b
<1>6. JoinedCaught'
  <2>1. ASSUME rejected = 0, client.socket # Null, client.epoch # Null,
               client.epoch.session = session, g \in DOMAIN pending
        PROVE  \A r \in Robot :
                  Carried(client.store.rows, client.epoch, b \o wire'[g])[r] = stored[r]
    <3>1. Caught(client.store.rows, client.epoch, g)
      BY <2>1 DEF CatchInv, JoinedCaught, g
    <3>2. client.epoch.seq <= sequence
      BY <2>1 DEF CatchInv, EpochInv, Stamped
    <3> QED BY <1>2, <1>5, <2>1, <3>1, <3>2
  <2> QED BY <1>1, <2>1 DEF JoinedCaught, Caught, g, b
<1>7. JoiningCaught'
  <2>1. ASSUME rejected = 0, g \in DOMAIN replies, g \in DOMAIN pending,
               replies[g].session = session
        PROVE  \A r \in Robot :
                  Carried(replies[g].rows, replies[g], b \o wire'[g])[r] = stored[r]
    <3>1. Caught(replies[g].rows, replies[g], g)
      BY <2>1 DEF CatchInv, JoiningCaught, g
    <3>2. replies[g].seq <= sequence
      BY <2>1 DEF CatchInv, EpochInv, Stamped
    <3> QED BY <1>2, <1>5, <2>1, <3>1, <3>2
  <2> QED BY <1>1, <2>1 DEF JoiningCaught, Caught, g, b
<1> QED BY <1>3, <1>4, <1>6, <1>7 DEF CatchInv

LEMMA AcceptCatch ==
    ASSUME TransportInv, StreamTypeOK, CatchInv, NEW s \in Sockets, Accept(s)
    PROVE  CatchInv'
<1> DEFINE g == client.generation
<1>1. /\ UNCHANGED <<client, session, stored, newest, sequence, replies, rejected>>
      /\ s \in client.opening \cup client.closing /\ s \notin DOMAIN wire
      /\ DOMAIN pending' = DOMAIN pending \cup {s}
      /\ DOMAIN wire' = DOMAIN wire \cup {s}
      /\ \A q \in DOMAIN pending \ {s} : pending'[q] = pending[q]
      /\ \A q \in DOMAIN wire : wire'[q] = wire[q]
  BY DEF Accept, With, vars
<1>2. s <= g
  <2>1. client \in Client /\ OneLive(client)
    BY ClientStages
  <2>2. s \in client.opening => s = g
    BY <2>1 DEF OneLive
  <2>3. s \in client.closing => s <= g
    BY <2>1 DEF OneLive
  <2> QED BY <1>1, <2>1, <2>2, <2>3 DEF Client
<1>3. RegisteredInv' /\ EpochInv'
  BY <1>1, <1>2 DEF CatchInv, RegisteredInv, EpochInv, Stamped
<1>4. \/ client.socket # Null /\ client.epoch # Null
      \/ g \in DOMAIN replies
      => s # g
  BY <1>1, LiveIsOpen DEF StreamTypeOK
<1>5. ASSUME s # g, g \in DOMAIN pending'
      PROVE  /\ g \in DOMAIN pending /\ pending'[g] = pending[g]
             /\ wire'[g] = wire[g]
  BY <1>1, <1>5 DEF CatchInv, RegisteredInv
<1> HIDE DEF g
<1>6. JoinedCaught'
  BY <1>1, <1>4, <1>5 DEF CatchInv, JoinedCaught, Caught, g
<1>7. JoiningCaught'
  BY <1>1, <1>4, <1>5 DEF CatchInv, JoiningCaught, Caught, g
<1> QED BY <1>3, <1>6, <1>7 DEF CatchInv

LEMMA DeregisterCatch ==
    ASSUME StreamTypeOK, CatchInv, NEW s \in DOMAIN pending, Deregister(s)
    PROVE  CatchInv'
<1>1. /\ DOMAIN pending' = DOMAIN pending \ {s}
      /\ \A q \in DOMAIN pending' : pending'[q] = pending[q]
  BY WithoutFields DEF Deregister
<1>2. UNCHANGED <<client, session, stored, newest, sequence, wire, replies,
                  rejected>>
  BY DEF Deregister, vars
<1>3. RegisteredInv' /\ EpochInv'
  BY <1>1, <1>2 DEF CatchInv, RegisteredInv, EpochInv, Stamped
<1>4. JoinedCaught'
  BY <1>1, <1>2 DEF CatchInv, JoinedCaught, Caught
<1>5. JoiningCaught'
  BY <1>1, <1>2 DEF CatchInv, JoiningCaught, Caught
<1> QED BY <1>3, <1>4, <1>5 DEF CatchInv

(* A new process knows nobody, and no epoch is its own.                    *)
LEMMA RestartCatch ==
    ASSUME TransportInv, StreamTypeOK, CatchInv, Restart
    PROVE  CatchInv'
<1>1. /\ UNCHANGED <<client, wire, replies>> /\ session' = session + 1
      /\ DOMAIN pending' = {}
  BY DEF Restart, vars
<1>2. ASSUME NEW f, Stamped(f), f.session \in Nat
      PROVE  f.session <= session + 1 /\ f.session # session + 1
  <2>1. session \in Nat /\ f.session <= session
    BY <1>2, CatchTypes DEF Stamped
  <2> QED BY <1>2, <2>1
<1>3. EpochInv'
  <2>1. ASSUME NEW a \in DOMAIN replies
        PROVE  Stamped(replies[a])'
    <3>1. Stamped(replies[a]) /\ replies[a].session \in Nat
      BY CatchTypes DEF CatchInv, EpochInv
    <3> QED BY <1>1, <1>2, <3>1 DEF Stamped
  <2>2. ASSUME client.socket # Null, client.epoch # Null
        PROVE  Stamped(client.epoch)' /\ client.buffered = <<>>
    <3>1. Stamped(client.epoch) /\ client.epoch.session \in Nat
      BY <2>2, CatchTypes DEF CatchInv, EpochInv
    <3> QED BY <1>1, <1>2, <2>2, <3>1 DEF Stamped, CatchInv, EpochInv
  <2> QED BY <1>1, <2>1, <2>2 DEF EpochInv
<1>4. RegisteredInv' /\ JoinedCaught' /\ JoiningCaught'
  BY <1>1 DEF RegisteredInv, JoinedCaught, JoiningCaught
<1> QED BY <1>3, <1>4 DEF CatchInv

(* A snapshot is the whole fleet, and every frame of its process already   *)
(* sent says nothing to it.                                                *)
LEMMA ReadFleetCatch ==
    ASSUME TransportInv, StreamTypeOK, TravelInv, CatchInv,
           NEW a \in client.fetches, ReadFleet(a)
    PROVE  CatchInv'
<1> DEFINE m == [session |-> session, seq |-> sequence, rows |-> stored]
           g == client.generation
           q == client.buffered \o wire[g]
<1>1. /\ UNCHANGED <<client, session, stored, newest, sequence, pending, wire,
                     rejected>>
      /\ DOMAIN replies' = DOMAIN replies \cup {a} /\ replies'[a] = m
      /\ \A b \in DOMAIN replies \ {a} : replies'[b] = replies[b]
  BY DEF ReadFleet, With, vars, serverVars
<1>2. /\ session \in Nat /\ sequence \in Nat /\ stored \in Rows
      /\ client.buffered \in Seq(Message)
      /\ m.session = session /\ m.seq = sequence /\ m.rows = stored
  BY CatchTypes DEF StreamTypeOK
<1> HIDE DEF m
<1>3. RegisteredInv' /\ JoinedCaught'
  BY <1>1 DEF CatchInv, RegisteredInv, JoinedCaught, Caught
<1>4. EpochInv'
  BY <1>1, <1>2 DEF CatchInv, EpochInv, Stamped
<1>5. ASSUME g \in DOMAIN pending
      PROVE  \A r \in Robot : Carried(stored, m, q)[r] = stored[r]
  <2>1. wire[g] \in Seq(Message) /\ g \in DOMAIN wire
    BY <1>5 DEF CatchInv, RegisteredInv, StreamTypeOK
  <2>2. \A f \in Told(q) : f \in Held \cup LiveWire
    BY <1>2, <2>1, ToldOfBoth DEF Told, Held, LiveWire
  <2>3. \A f \in Held \cup LiveWire : ~Newer(m, f)
    <3>1. ASSUME NEW f \in Message, Stamped(f), f.session = session
          PROVE  f.seq <= sequence
      BY <3>1 DEF Stamped
    <3>2. \A f \in Held \cup LiveWire : f \in Message /\ Stamped(f)
      BY FramesAreKnown
    <3> QED BY <1>2, <3>1, <3>2 DEF Newer, Reconcile, Message
  <2> HIDE DEF q
  <2>4. Carried(stored, m, q) = stored
    BY <1>2, <2>2, <2>3, CarriedNothing
  <2> QED BY <2>4
<1>6. JoiningCaught'
  <2>1. CASE g = a
    BY <1>1, <1>2, <1>5, <2>1 DEF JoiningCaught, Caught
  <2>2. CASE g # a
    BY <1>1, <2>2 DEF CatchInv, JoiningCaught, Caught
  <2> QED BY <2>1, <2>2
<1> QED BY <1>3, <1>4, <1>6 DEF CatchInv
LEMMA ConcatFrames ==
    ASSUME NEW p \in Seq(Message), NEW q \in Seq(Message)
    PROVE  /\ p \o q \in Seq(Message) /\ Len(p \o q) = Len(p) + Len(q)
           /\ \A i \in 1..Len(p) + Len(q) :
                 (p \o q)[i] = IF i <= Len(p) THEN p[i] ELSE q[i - Len(p)]
BY ConcatProperties

LEMMA HeadFirst ==
    ASSUME NEW w \in Seq(Message), w # <<>>
    PROVE  /\ <<Head(w)>> \in Seq(Message) /\ Tail(w) \in Seq(Message)
           /\ <<Head(w)>> \o Tail(w) = w
<1> DEFINE h == <<Head(w)>>
           t == Tail(w)
<1>1. /\ Head(w) \in Message /\ t \in Seq(Message) /\ Len(t) = Len(w) - 1
      /\ \A i \in 1..Len(t) : t[i] = w[i + 1]
      /\ Len(w) \in Nat /\ Len(w) # 0
  BY HeadTailProperties, EmptySeq, LenProperties
<1>2. h \in Seq(Message) /\ Len(h) = 1 /\ h[1] = w[1]
  BY <1>1
<1> HIDE DEF h, t
<1>3. /\ h \o t \in Seq(Message) /\ Len(h \o t) = Len(w)
      /\ \A i \in 1..Len(w) : (h \o t)[i] = IF i <= 1 THEN h[i] ELSE t[i - 1]
  <2>1. /\ h \o t \in Seq(Message) /\ Len(h \o t) = Len(h) + Len(t)
        /\ \A i \in 1..Len(h) + Len(t) :
              (h \o t)[i] = IF i <= Len(h) THEN h[i] ELSE t[i - Len(h)]
    BY <1>1, <1>2, ConcatFrames
  <2>2. Len(h) + Len(t) = Len(w)
    BY <1>1, <1>2
  <2> QED BY <1>2, <2>1, <2>2
<1>4. \A i \in 1..Len(w) : (h \o t)[i] = w[i]
  <2> TAKE i \in 1..Len(w)
  <2>1. CASE i = 1
    BY <1>2, <1>3, <2>1
  <2>2. CASE i # 1
    <3>1. i - 1 \in 1..Len(t) /\ ~(i <= 1) /\ (i - 1) + 1 = i
      BY <1>1, <2>2
    <3> QED BY <1>1, <1>3, <3>1
  <2> QED BY <2>1, <2>2
<1>5. h \o t = w
  BY <1>3, <1>4, SeqEqual
<1> QED BY <1>1, <1>2, <1>5 DEF h, t

LEMMA NothingFirst ==
    ASSUME NEW w \in Seq(Message)
    PROVE  <<>> \o w = w
BY ConcatEmptySeq

(* A frame is delivered: what was coming is now held, or shown.            *)
LEMMA DeliverCatch ==
    ASSUME TransportInv, StreamTypeOK, StreamTypeOK', CatchInv,
           NEW s \in Sockets, Delivers(s)
    PROVE  CatchInv'
<1> DEFINE w == wire[s]
           m == Head(w)
           t == Tail(w)
           b == client.buffered
<1>1. /\ s \in DOMAIN wire /\ w \in Seq(Message) /\ w # <<>>
      /\ FrameArrives(s, m) /\ wire' = [wire EXCEPT ![s] = t]
      /\ UNCHANGED <<serverVars, replies, rejected>>
  BY DEF Delivers, StreamTypeOK
<1>2. /\ m \in Message /\ <<m>> \in Seq(Message) /\ t \in Seq(Message)
      /\ <<m>> \o t = w
  BY <1>1, HeadFirst, HeadTailProperties
<1>3. /\ DOMAIN wire' = DOMAIN wire /\ wire'[s] = t
      /\ \A q \in DOMAIN wire \ {s} : wire'[q] = wire[q]
      /\ Kept(replies', replies)
  BY <1>1 DEF Kept
<1>4. /\ client.generation \in Nat /\ b \in Seq(Message)
      /\ client.store.rows \in Rows
  BY CatchTypes
<1> HIDE DEF m, t
<1>5. CASE s # client.generation /\ client' = client
  BY <1>1, <1>3, <1>5, QuietCatch DEF Moves, SameView
<1>6. CASE Superseded(client, client')
  <2>1. ~SameView(client, client')
    BY <1>4, <1>6 DEF SameView, Superseded
  <2> QED BY <1>1, <1>3, <1>6, <2>1, QuietCatch DEF Moves
<1>7. CASE /\ s = client.generation /\ client.socket = s
           /\ client.epoch = Null /\ client'.epoch = Null
           /\ client'.store = client.store
           /\ client'.buffered = Append(b, m)
           /\ client'.generation = s /\ client'.socket = s
  <2>1. client'.buffered \o wire'[s] = b \o w
    <3>1. client'.buffered = b \o <<m>>
      BY <1>2, <1>4, <1>7, AppendIsConcat
    <3>2. (b \o <<m>>) \o t = b \o (<<m>> \o t)
      <4> DEFINE l == <<m>>
      <4>1. l \in Seq(Message)
        BY <1>2
      <4> HIDE DEF l
      <4>2. (b \o l) \o t = b \o (l \o t)
        BY <1>2, <1>4, <4>1, FramesAssociate
      <4> QED BY <4>2 DEF l
    <3> QED BY <1>2, <1>3, <3>1, <3>2
  <2>2. RegisteredInv' /\ EpochInv' /\ JoinedCaught'
    BY <1>1, <1>3, <1>7
       DEF CatchInv, RegisteredInv, EpochInv, Stamped, JoinedCaught, serverVars
  <2>3. JoiningCaught'
    <3>1. ASSUME rejected = 0, s \in DOMAIN replies, s \in DOMAIN pending,
                 replies[s].session = session
          PROVE  \A r \in Robot : pending[s][r] = Null =>
                    Carried(replies[s].rows, replies[s], b \o w)[r] = stored[r]
      BY <1>7, <3>1 DEF CatchInv, JoiningCaught, Caught
    <3> HIDE DEF b, w
    <3> QED BY <1>1, <1>7, <2>1, <3>1 DEF JoiningCaught, Caught, serverVars
  <2> QED BY <2>2, <2>3 DEF CatchInv
<1>8. CASE /\ s = client.generation /\ client.socket = s
           /\ client.epoch # Null /\ client'.epoch = client.epoch
           /\ client'.buffered = b
           /\ client'.generation = s /\ client'.socket = s
           /\ client'.store.rows = Carried(client.store.rows, client.epoch, <<m>>)
  <2>1. b = <<>> /\ s \notin DOMAIN replies /\ client.socket # Null
    <3>1. client.socket # Null
      BY <1>4, <1>8, NullAssumption
    <3>2. client \in Client /\ OneLive(client)
      BY ClientStages
    <3> QED BY <1>8, <3>1, <3>2 DEF CatchInv, EpochInv, OneLive, StreamTypeOK
  <2>2. RegisteredInv' /\ EpochInv' /\ JoiningCaught'
    BY <1>1, <1>3, <1>8, <2>1
       DEF CatchInv, RegisteredInv, EpochInv, Stamped, JoiningCaught, serverVars
  <2>3. /\ b \o w = <<m>> \o t /\ client'.buffered \o wire'[s] = t
    BY <1>1, <1>2, <1>3, <1>8, <2>1, NothingFirst
  <2>4. Carried(client.store.rows, client.epoch, <<m>> \o t)
           = Carried(client'.store.rows, client.epoch, t)
    <3> DEFINE l == <<m>>
    <3>1. l \in Seq(Message)
      BY <1>2
    <3> HIDE DEF l
    <3>2. Carried(client.store.rows, client.epoch, l \o t)
             = Carried(Carried(client.store.rows, client.epoch, l), client.epoch, t)
      BY <1>2, <1>4, <3>1, CarriedInTurn
    <3> QED BY <1>8, <3>2 DEF l
  <2>5. JoinedCaught'
    BY <1>1, <1>8, <2>1, <2>3, <2>4
       DEF CatchInv, JoinedCaught, Caught, serverVars
  <2> QED BY <2>2, <2>5 DEF CatchInv
<1>9. CASE /\ s = client.generation /\ client.socket = s
           /\ client.epoch # Null /\ Reconcile(client.epoch, m) = "covered"
           /\ client' = client
  <2>1. ~Newer(client.epoch, m)
    BY <1>9 DEF Newer
  <2>2. Carried(client.store.rows, client.epoch, <<m>>) = client.store.rows
    BY <1>2, <1>4, <2>1, CarriedOne
  <2> QED BY <1>8, <1>9, <2>2
<1>10. CASE /\ s = client.generation /\ client.socket = s
            /\ client.epoch # Null /\ Reconcile(client.epoch, m) = "apply"
            /\ client'.store.rows = Overlay(client.store.rows, <<m>>, {1})
            /\ client'.epoch = client.epoch
            /\ client'.buffered = client.buffered
            /\ client'.generation = s /\ client'.socket = s
  <2>1. Newer(client.epoch, m)
    BY <1>10 DEF Newer
  <2>2. Carried(client.store.rows, client.epoch, <<m>>)
           = Overlay(client.store.rows, <<m>>, {1})
    BY <1>2, <1>4, <2>1, CarriedOne
  <2> QED BY <1>8, <1>10, <2>2
<1> QED BY <1>1, <1>2, <1>5, <1>6, <1>7, <1>9, <1>10, FrameMoves

(* The join: what the snapshot in flight promised, the rows now shown do.  *)
LEMMA RespondCatch ==
    ASSUME TransportInv, StreamTypeOK, StreamTypeOK', CatchInv,
           NEW a \in client.fetches, Responds(a)
    PROVE  CatchInv'
<1> DEFINE m == replies[a]
           e == [session |-> m.session, seq |-> m.seq]
           b == client.buffered
<1>1. /\ a \in DOMAIN replies /\ FetchArrives(a, m)
      /\ UNCHANGED <<serverVars, wire, rejected>>
  BY DEF Responds
<1>2. /\ client.generation \in Nat /\ b \in Seq(Message)
      /\ m \in Message /\ m.rows \in Rows
  BY <1>1, CatchTypes
<1>3. Kept(replies', replies) /\ DOMAIN replies' = DOMAIN replies \ {a}
  <2>1. replies' = Without(replies, a)
    BY DEF Responds
  <2> QED BY <2>1, WithoutFields DEF Kept
<1>4. \/ a # client.generation /\ SameView(client, client')
      \/ /\ a = client.generation
         /\ client.socket = a /\ client.socket # Null /\ client.epoch = Null
         /\ client'.buffered = <<>>
         /\ client'.store.rows = Overlay(m.rows, b, Replay(e, b))
         /\ \/ client'.generation > a /\ client'.socket = Null
            \/ /\ client'.generation = a /\ client'.socket = a
               /\ client'.epoch = e
  <2> HIDE DEF m
  <2> QED BY <1>1, <1>2, SnapshotMoves
<1>5. CASE SameView(client, client')
  BY <1>1, <1>3, <1>5, QuietCatch DEF Moves
<1>6. ASSUME a = client.generation, client'.generation > a, client'.socket = Null
      PROVE  CatchInv'
  <2>1. DOMAIN pending \subseteq Nat /\ client'.generation \in Nat
    BY DEF StreamTypeOK, TypeOK, Client
  <2>2. \A s \in DOMAIN pending' : s < client'.generation
    <3> TAKE s \in DOMAIN pending'
    <3>1. s \in Nat /\ s <= client.generation
      BY <1>1, <2>1 DEF CatchInv, RegisteredInv, serverVars
    <3> QED BY <1>2, <1>6, <2>1, <3>1
  <2>3. RegisteredInv' /\ EpochInv'
    <3>1. client'.generation \notin DOMAIN pending'
      BY <2>1, <2>2
    <3>2. \A s \in DOMAIN pending' : s <= client'.generation
      BY <1>1, <2>1, <2>2 DEF serverVars
    <3> QED BY <1>1, <1>3, <1>6, <3>1, <3>2
            DEF CatchInv, RegisteredInv, EpochInv, Stamped, Kept, serverVars
  <2>4. JoinedCaught' /\ JoiningCaught'
    BY <1>6, <2>1, <2>2 DEF JoinedCaught, JoiningCaught
  <2> QED BY <2>3, <2>4 DEF CatchInv
<1>7. CASE /\ a = client.generation /\ client'.buffered = <<>>
           /\ client'.store.rows = Overlay(m.rows, b, Replay(e, b))
           /\ client'.generation = a /\ client'.socket = a
           /\ client'.epoch = e
  <2>1. \A f : Reconcile(e, f) = Reconcile(m, f)
    BY DEF Reconcile
  <2>2. \A base, q : Carried(base, e, q) = Carried(base, m, q)
    BY <2>1 DEF Carried, Replay
  <2>3. RegisteredInv' /\ EpochInv'
    BY <1>1, <1>3, <1>7
       DEF CatchInv, RegisteredInv, EpochInv, Stamped, Kept, serverVars
  <2>4. JoiningCaught'
    BY <1>3, <1>7 DEF JoiningCaught
  <2>5. JoinedCaught'
    <3>1. ASSUME rejected = 0, m.session = session, a \in DOMAIN pending
          PROVE  \A r \in Robot : pending[a][r] = Null =>
                    Carried(client'.store.rows, e, <<>> \o wire[a])[r] = stored[r]
      <4>1. a \in DOMAIN wire /\ wire[a] \in Seq(Message)
        BY <1>7, <3>1 DEF CatchInv, RegisteredInv, StreamTypeOK
      <4>2. Caught(m.rows, m, a)
        BY <1>1, <1>7, <3>1 DEF CatchInv, JoiningCaught
      <4>3. client'.store.rows = Carried(m.rows, e, b)
        BY <1>7 DEF Carried
      <4> HIDE DEF m, e
      <4>4. Carried(m.rows, e, b \o wire[a])
               = Carried(client'.store.rows, e, <<>> \o wire[a])
        BY <1>2, <4>1, <4>3, CarriedInTurn, NothingFirst
      <4> QED BY <2>2, <4>2, <4>4 DEF Caught
    <3> QED BY <1>1, <1>7, <3>1 DEF JoinedCaught, Caught, serverVars
  <2> QED BY <2>3, <2>4, <2>5 DEF CatchInv
<1> QED BY <1>4, <1>5, <1>6, <1>7

(* Everything else the network and the page do.                            *)
LEMMA RestCatch ==
    ASSUME TransportInv, StreamTypeOK, StreamTypeOK', CatchInv,
           \/ Page \/ Timer
           \/ \E s \in Sockets : Opens(s) \/ Closes(s)
           \/ \E a \in client.fetches : FetchLost(a)
    PROVE  CatchInv'
<1>1. UNCHANGED serverVars /\ Kept(replies', replies) /\ rejected' = rejected
  <2>1. UNCHANGED serverVars /\ Kept(replies', replies)
    BY NetworkTakes DEF NetworkStep
  <2>2. rejected' = rejected
    BY DEF Page, Timer, Opens, Closes, FetchLost
  <2> QED BY <2>1, <2>2
<1>2. CASE Page \/ Timer
  <2>1. Moves(client, client') /\ wire' = wire
    BY <1>2, PageMoves DEF Page, Timer
  <2> QED BY <1>1, <2>1, QuietCatch
<1>3. ASSUME NEW s \in Sockets, Opens(s)
      PROVE  CatchInv'
  <2>1. Moves(client, client') /\ wire' = wire
    BY <1>3, OpenMoves DEF Opens, Moves
  <2> QED BY <1>1, <2>1, QuietCatch
<1>4. ASSUME NEW s \in Sockets, Closes(s)
      PROVE  CatchInv'
  <2>1. /\ Moves(client, client')
        /\ s = client.generation => client'.generation > s
    BY <1>4, CloseMoves DEF Closes
  <2>2. /\ DOMAIN wire' = DOMAIN wire \ {s}
        /\ \A q \in DOMAIN wire' : wire'[q] = wire[q]
    BY <1>4, WithoutFields DEF Closes
  <2>3. SameView(client, client') => s # client.generation
    BY <2>1, CatchTypes DEF SameView
  <2> QED BY <1>1, <2>1, <2>2, <2>3, QuietCatch
<1>5. ASSUME NEW a \in client.fetches, FetchLost(a)
      PROVE  CatchInv'
  <2>1. Moves(client, client') /\ wire' = wire
    BY <1>5, LostMoves DEF FetchLost
  <2> QED BY <1>1, <2>1, QuietCatch
<1> QED BY <1>2, <1>3, <1>4, <1>5

(* A frame dropped undecoded ends the promise: EventuallyCurrent's own     *)
(* exception.                                                              *)
LEMMA RejectCatch ==
    ASSUME TransportInv, StreamTypeOK, CatchInv, NEW s \in Sockets, Rejects(s)
    PROVE  CatchInv'
<1>1. /\ UNCHANGED <<client, serverVars, replies>> /\ DOMAIN wire' = DOMAIN wire
      /\ rejected' # 0
  BY DEF Rejects, vars, StreamTypeOK
<1> QED BY <1>1 DEF CatchInv, RegisteredInv, EpochInv, Stamped, JoinedCaught,
                    JoiningCaught, serverVars
-----------------------------------------------------------------------------
LEMMA CatchStep ==
    ASSUME StreamInv, StreamTypeOK', CatchInv, StreamNext
    PROVE  CatchInv'
<1>1. TransportInv /\ StreamTypeOK /\ ServerInv /\ TravelInv
  BY DEF StreamInv, MirrorInv
<1>2. ASSUME NEW s \in Sockets,
             Accept(s) \/ Opens(s) \/ Delivers(s) \/ Rejects(s) \/ Closes(s)
      PROVE  CatchInv'
  BY <1>1, <1>2, AcceptCatch, DeliverCatch, RejectCatch, RestCatch
<1>3. ASSUME NEW a \in client.fetches, ReadFleet(a) \/ Responds(a) \/ FetchLost(a)
      PROVE  CatchInv'
  BY <1>1, <1>3, ReadFleetCatch, RespondCatch, RestCatch
<1> QED BY <1>1, <1>2, <1>3, ChangeCatch, FlushCatch, RestartCatch,
           DeregisterCatch, RestCatch DEF StreamNext

LEMMA CatchInvariant == StreamSpec => []CatchInv
<1>1. StreamInit => CatchInv
  <2> SUFFICES ASSUME StreamInit PROVE CatchInv
    OBVIOUS
  <2>1. /\ client.socket = Null
        /\ DOMAIN pending = {} /\ DOMAIN replies = {}
    BY DEF StreamInit, Init, InitialClient
  <2> QED BY <2>1 DEF CatchInv, RegisteredInv, EpochInv, JoinedCaught,
                      JoiningCaught
<1>2. StreamInv /\ StreamInv' /\ CatchInv /\ [StreamNext]_streamVars => CatchInv'
  <2>1. ASSUME StreamInv, CatchInv, UNCHANGED streamVars
        PROVE  CatchInv'
    <3>1. UNCHANGED <<client, serverVars, wire, replies, rejected>>
      BY <2>1 DEF streamVars, vars
    <3> QED BY <2>1, <3>1
            DEF CatchInv, RegisteredInv, EpochInv, Stamped, JoinedCaught,
                JoiningCaught, Caught, serverVars
  <2> QED BY <2>1, CatchStep DEF StreamInv
<1> QED BY <1>1, <1>2, StreamInvariant, PTL DEF StreamSpec

(* NoUpdateLost: whatever interleaving of changes, flushes, handshake,     *)
(* snapshot, buffer and restarts brought a console to its join, or is      *)
(* about to, what it shows and what is on its way are together the fleet   *)
(* as the server has it (server/src/fanout, web/src/shared/lib/coldStart). *)
THEOREM StreamLosesNoUpdate == StreamSpec => []NoUpdateLost
<1>1. ASSUME StreamInv, CatchInv
      PROVE  NoUpdateLost
  <2> DEFINE g == client.generation
             b == client.buffered
  <2>1. /\ TransportInv /\ StreamTypeOK /\ ServerInv
        /\ sequence \in Nat /\ session \in Session
        /\ b \in Seq(Message) /\ client.store.rows \in Rows
        /\ client.epoch # Null => client.epoch.seq \in Nat
        /\ \A a \in DOMAIN replies : replies[a].rows \in Rows /\ replies[a].seq \in Nat
    BY <1>1, CatchTypes DEF StreamInv, MirrorInv, StreamTypeOK
  <2>2. client.socket \in DOMAIN pending => client.socket = g /\ client.socket # Null
    BY <2>1, ClientStages, NullAssumption DEF OneLive, StreamTypeOK
  <2>3. ASSUME NEW base \in Rows, NEW e, e.session = session, e.seq \in Nat,
               e.seq <= sequence, g \in DOMAIN pending, Caught(base, e, g)
        PROVE  Outcome(base, e, g) = stored
    <3> DEFINE f == [session |-> session, seq |-> sequence + 1,
                     rows |-> pending[g]]
               l == <<f>>
               w == wire[g]
               p == b \o w
               x == Carried(base, e, p)
    <3>1. f \in Message /\ Newer(e, f) /\ f.rows = pending[g]
      BY <2>1, <2>3 DEF Message, StreamTypeOK, Newer, Reconcile
    <3>2. w \in Seq(Message)
      BY <1>1, <2>1, <2>3 DEF CatchInv, RegisteredInv, StreamTypeOK
    <3>3. Outcome(base, e, g) = Carried(base, e, b \o w \o l)
      BY DEF Outcome, Carried
    <3> HIDE DEF f, w
    <3>4. l \in Seq(Message)
      BY <3>1
    <3> HIDE DEF l
    <3>5. p \in Seq(Message)
      BY <2>1, <3>2, ConcatProperties
    <3>6. Caught(base, e, g) => \A r \in Robot : pending[g][r] = Null => x[r] = stored[r]
      BY DEF Caught, w
    <3> HIDE DEF p
    <3>7. x \in Rows
      BY <3>5, CarriedType
    <3>8. Carried(base, e, p \o l) = Carried(x, e, l)
      BY <2>3, <3>4, <3>5, CarriedInTurn
    <3>9. Carried(base, e, b \o w \o l) = Carried(x, e, l)
      BY <3>8 DEF p
    <3> HIDE DEF x
    <3>10. /\ Carried(x, e, l) \in Rows
           /\ \A r \in Robot : Carried(x, e, l)[r] =
                  IF pending[g][r] = Null THEN x[r] ELSE pending[g][r]
      <4>1. Carried(x, e, l) \in Rows
        BY <3>4, <3>7, CarriedType
      <4> QED BY <3>1, <3>7, <4>1, CarriedOne DEF l
    <3>11. \A r \in Robot : pending[g][r] # Null => pending[g][r] = stored[r]
      BY <2>1, <2>3 DEF ServerInv
    <3>12. stored \in Rows
      BY <2>1 DEF StreamTypeOK
    <3>13. \A r \in Robot : Carried(x, e, l)[r] = stored[r]
      BY <2>3, <3>6, <3>10, <3>11
    <3>14. Carried(x, e, l) = stored
      BY <3>10, <3>12, <3>13 DEF Rows
    <3> QED BY <3>3, <3>9, <3>14
  <2> HIDE DEF g, b
  <2>4. JoinedCatchesUp
    <3> SUFFICES ASSUME rejected = 0, Joined, client.socket \in DOMAIN pending,
                        client.epoch.session = session
                 PROVE  Outcome(client.store.rows, client.epoch, client.socket) = stored
      BY DEF JoinedCatchesUp
    <3>1. client.socket = g /\ client.socket # Null /\ client.epoch # Null
      BY <2>2 DEF Joined
    <3>2. Caught(client.store.rows, client.epoch, g)
      BY <1>1, <3>1 DEF CatchInv, JoinedCaught, g
    <3>3. client.epoch.seq <= sequence
      BY <1>1, <3>1 DEF CatchInv, EpochInv, Stamped
    <3> QED BY <2>1, <2>3, <3>1, <3>2, <3>3
  <2>5. JoiningCatchesUp
    <3> SUFFICES ASSUME rejected = 0, client.socket \in DOMAIN pending,
                        client.socket \in DOMAIN replies,
                        replies[client.socket].session = session
                 PROVE  Outcome(replies[client.socket].rows,
                                replies[client.socket], client.socket) = stored
      BY DEF JoiningCatchesUp
    <3>1. client.socket = g
      BY <2>2
    <3>2. Caught(replies[g].rows, replies[g], g)
      BY <1>1, <3>1 DEF CatchInv, JoiningCaught, g
    <3>3. replies[g].seq <= sequence
      BY <1>1, <3>1 DEF CatchInv, EpochInv, Stamped
    <3> QED BY <2>1, <2>3, <3>1, <3>2, <3>3
  <2> QED BY <2>4, <2>5 DEF NoUpdateLost
<1> QED BY <1>1, StreamInvariant, CatchInvariant, PTL
==============================================================================
