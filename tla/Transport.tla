------------------------------ MODULE Transport ------------------------------
(***************************************************************************)
(* The console's stream client as the functions its callbacks are: each    *)
(* operator takes the client before a callback (web/src/shared/lib/        *)
(* fleetTransport, coldStart; web/src/app/useFleetTransport) and returns   *)
(* the client after it.  JavaScript runs a callback to completion, so one  *)
(* callback is one step; loadSnapshot suspends once, at its fetch, and is  *)
(* split there.                                                            *)
(*                                                                         *)
(* A callback carries the generation its attempt captured.                 *)
(***************************************************************************)
EXTENDS FleetStore

CONSTANT Session      \* server runtimes, by serverSessionId

(* A frame or a snapshot: its runtime, its flush sequence, its rows.  A    *)
(* frame's Null is a robot it does not name; a snapshot names every robot  *)
(* and its Null is one the server has not heard.                           *)
Epoch == [session : Session, seq : Nat]
Message == [session : Session, seq : Nat, rows : Rows]

ASSUME EpochAssumption == Null \notin Epoch

(***************************************************************************)
(* opening, open, closing and fetches are the browser's: what may still    *)
(* call back, named by the attempt that started it.  A socket is closing   *)
(* from close() until it reports its close.                                *)
(***************************************************************************)
Client == [stream         : StreamState,
           store          : StoreState,
           socket         : Nat \cup {Null},  \* attempt of the held handle
           generation     : Nat,
           retry          : BOOLEAN,          \* pendingRetry # null
           everOpened     : BOOLEAN,
           probeFailures  : Nat,
           failedAttempts : Nat,
           epoch          : Epoch \cup {Null},
           settled        : BOOLEAN,          \* the cold start's snapshot landed
           buffered       : Seq(Message),       \* frames received before it
           opening        : SUBSET Nat,
           open           : SUBSET Nat,
           closing        : SUBSET Nat,
           fetches        : SUBSET Nat]

InitialClient ==
    [stream |-> InitialStreamState, store |-> InitialStore, socket |-> Null,
     generation |-> 0, retry |-> FALSE, everOpened |-> FALSE,
     probeFailures |-> 0, failedAttempts |-> 0, epoch |-> Null,
     settled |-> FALSE, buffered |-> <<>>,
     opening |-> {}, open |-> {}, closing |-> {}, fetches |-> {}]
-----------------------------------------------------------------------------
(* Mutant: frames the snapshot covers are applied. *)
ReconcileFromEpoch(epoch, frame) ==
    CASE frame.session # epoch.session -> "session-mismatch"
      [] frame.session = epoch.session /\ frame.seq < epoch.seq -> "covered"
      [] OTHER -> "apply"

(* reconcileDeltaWithSnapshot: the session is compared before the sequence *)
Reconcile(epoch, frame) ==
    CASE frame.session # epoch.session -> "session-mismatch"
      [] frame.session = epoch.session /\ frame.seq <= epoch.seq -> "covered"
      [] OTHER -> "apply"

Advance(c, s) == [c EXCEPT !.stream = s, !.store = Follow(@, s)]

(* connect from "connected" returns the same state, which is not reported. *)
AdvanceConnect(c) ==
    IF c.stream.phase = "connected" THEN c
    ELSE Advance(c, AfterConnect(c.stream))

(* The old socket's callbacks, and any fetch of its attempt, become stale. *)
CloseSocketSilently(c) ==
    [c EXCEPT !.generation = @ + 1, !.socket = Null,
              !.opening = @ \ {c.socket}, !.open = @ \ {c.socket},
              !.closing = @ \cup ({c.socket} \ {Null})]

GiveUp(c, cause) ==
    LET stopped == CloseSocketSilently([c EXCEPT !.retry = FALSE])
    IN  Advance(stopped, AfterGiveUp(c.stream, cause))

(* Mutants: the probe cap outlives the first open; no retry is scheduled.  *)
FailureAlwaysCapped(c) ==
    LET failed == Advance([c EXCEPT !.generation = @ + 1,
                                    !.failedAttempts = @ + 1,
                                    !.probeFailures = @ + 1],
                          AfterClose(c.stream))
    IN  IF failed.probeFailures >= InitialProbeAttemptLimit
        THEN GiveUp(failed, "handshake-exhausted")
        ELSE [failed EXCEPT !.retry = TRUE]

FailureNotRetried(c) ==
    Advance([c EXCEPT !.generation = @ + 1, !.failedAttempts = @ + 1],
            AfterClose(c.stream))

HandleAttemptFailure(c) ==
    LET failed == Advance([c EXCEPT !.generation = @ + 1,
                                    !.failedAttempts = @ + 1,
                                    !.probeFailures =
                                        IF c.everOpened THEN @ ELSE @ + 1],
                          AfterClose(c.stream))
    IN  IF /\ ~c.everOpened
           /\ failed.probeFailures >= InitialProbeAttemptLimit
        THEN GiveUp(failed, "handshake-exhausted")
        ELSE [failed EXCEPT !.retry = TRUE]

(* A fresh cold start and socket; the new socket's callbacks carry the     *)
(* generation the silent close produced.                                   *)
StartAttempt(c) ==
    LET attempt == c.generation + 1
        fresh == [CloseSocketSilently(c) EXCEPT
                    !.epoch = Null, !.settled = FALSE, !.buffered = <<>>]
    IN  [AdvanceConnect(fresh) EXCEPT !.socket = attempt,
                                      !.opening = @ \cup {attempt}]
-----------------------------------------------------------------------------
(* Mutant: the pending retry survives a connect. *)
ConnectKeepsRetry(c) ==
    IF c.stream.phase = "connected" THEN c
    ELSE StartAttempt([c EXCEPT !.probeFailures = 0])

(* What the page asks for. *)
Connect(c) ==
    IF c.stream.phase = "connected" THEN c
    ELSE StartAttempt([c EXCEPT !.retry = FALSE, !.probeFailures = 0])

Disconnect(c) == CloseSocketSilently([c EXCEPT !.retry = FALSE])

(* The retry timer fires. *)
RetryFires(c) == StartAttempt([c EXCEPT !.retry = FALSE])

(* A socket opens; if it is the live one, the snapshot fetch starts.       *)
OnOpen(c, attempt) ==
    IF attempt # c.generation THEN c
    ELSE Advance([c EXCEPT !.opening = @ \ {attempt},
                           !.open = @ \cup {attempt},
                           !.everOpened = TRUE, !.probeFailures = 0,
                           !.fetches = @ \cup {attempt}],
                 AfterOpen(c.stream))

(* A decoded frame: buffered until the snapshot lands, then reconciled.    *)
OnMessage(c, attempt, frame) ==
    IF attempt # c.generation THEN c
    ELSE IF ~c.settled THEN [c EXCEPT !.buffered = Append(@, frame)]
    ELSE IF c.epoch = Null THEN c
    ELSE CASE Reconcile(c.epoch, frame) = "apply" ->
                [c EXCEPT !.store = ApplyBatches(@, <<frame>>, {1})]
           [] Reconcile(c.epoch, frame) = "covered" -> c
           [] OTHER -> GiveUp(c, "session-mismatch")

(* A close: an established stream tries again at once, an attempt that     *)
(* had not joined has failed.                                              *)
OnClose(c, attempt) ==
    LET closed == [c EXCEPT !.opening = @ \ {attempt},
                            !.open = @ \ {attempt},
                            !.closing = @ \ {attempt}]
        dropped == [closed EXCEPT !.socket = Null]
    IN  IF attempt # c.generation THEN closed
        ELSE IF c.epoch # Null
        THEN StartAttempt(Advance([dropped EXCEPT !.generation = @ + 1],
                                  AfterClose(c.stream)))
        ELSE HandleAttemptFailure(dropped)

Landed(c, attempt) == [c EXCEPT !.fetches = @ \ {attempt}]

(* The fetch failed, or answered without a body to decode. *)
SnapshotUnreachable(c, attempt) ==
    IF attempt # c.generation THEN Landed(c, attempt)
    ELSE HandleAttemptFailure(CloseSocketSilently(Landed(c, attempt)))

(* The body does not satisfy the contract. *)
SnapshotRefused(c, attempt) ==
    IF attempt # c.generation THEN Landed(c, attempt)
    ELSE GiveUp([Landed(c, attempt) EXCEPT !.store = TerminalFailure(@)],
                "contract")

(* coldStart.settle: the frames of the buffer that still say something     *)
(* once the snapshot is known, by position, and whether any of it came     *)
(* from another runtime.                                                   *)
Replay(epoch, buffered) ==
    {i \in DOMAIN buffered : Reconcile(epoch, buffered[i]) = "apply"}

Mismatched(epoch, buffered) ==
    \E i \in DOMAIN buffered :
        Reconcile(epoch, buffered[i]) = "session-mismatch"

(* The snapshot decoded: it settles the cold start.  Frames of another     *)
(* runtime in the buffer end the session even though the rows are kept.    *)
SnapshotArrives(c, attempt, snapshot) ==
    LET epoch == [session |-> snapshot.session, seq |-> snapshot.seq]
        joined == [Landed(c, attempt) EXCEPT
                     !.settled = TRUE, !.buffered = <<>>, !.epoch = epoch,
                     !.store = ApplyBatches(ApplySnapshot(@, snapshot.rows),
                                            c.buffered,
                                            Replay(epoch, c.buffered))]
    IN  IF attempt # c.generation THEN Landed(c, attempt)
        ELSE IF Mismatched(epoch, c.buffered)
        THEN GiveUp(joined, "session-mismatch")
        ELSE Advance([joined EXCEPT !.failedAttempts = 0],
                     AfterJoined(c.stream))
==============================================================================
