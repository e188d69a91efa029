---------------------------- MODULE FleetTransport ----------------------------
(***************************************************************************)
(* The console's stream client under an arbitrary network: any live socket *)
(* may open, deliver any frame or close, any fetch may return any outcome, *)
(* in any order, and events of superseded attempts keep arriving.          *)
(* FleetStream composes the same client with the server it talks to.       *)
(***************************************************************************)
EXTENDS Transport

CONSTANTS
    Frames,        \* the frames the network may deliver
    Snapshots,     \* the snapshots it may return
    MaxBuffer,     \* bound: frames received before one snapshot
    MaxFaults,     \* bound: closes and failed fetches of a live attempt
    MaxConnects    \* bound: operator retries

ASSUME TransportAssumption ==
    /\ Frames \subseteq Message /\ Snapshots \subseteq Message
    /\ MaxBuffer \in Nat /\ MaxFaults \in Nat /\ MaxConnects \in Nat

VARIABLES
    client,     \* the transport's closure and the resource it feeds
    mounted,    \* whether useFleetTransport's effect is in force
    faults,     \* failures the network has inflicted on a live attempt
    connects    \* connect() calls since the page loaded

vars == <<client, mounted, faults, connects>>

TypeOK ==
    /\ client \in Client
    /\ mounted \in BOOLEAN
    /\ faults \in Nat
    /\ connects \in Nat

Init ==
    /\ client = InitialClient
    /\ mounted = FALSE
    /\ faults = 0
    /\ connects = 0

Live(attempt) == attempt = client.generation

(* A failure of the live attempt is a fault; one of a dead attempt is not. *)
Fault(attempt) ==
    /\ Live(attempt) => faults < MaxFaults
    /\ faults' = IF Live(attempt) THEN faults + 1 ELSE faults
-----------------------------------------------------------------------------
(* The page.  StrictMode runs a mounting effect, its cleanup and the effect *)
(* again; a page unmounts for good.                                        *)
Mount ==
    /\ client.stream.phase = "idle" /\ connects = 0
    /\ client' \in {Connect(client), Connect(Disconnect(Connect(client)))}
    /\ mounted' = TRUE
    /\ connects' = 1
    /\ UNCHANGED faults

Unmount ==
    /\ mounted
    /\ client' = Disconnect(client)
    /\ mounted' = FALSE
    /\ UNCHANGED <<faults, connects>>

(* The banner's control and the recoverable error's both call connect().   *)
ManualRetry ==
    /\ mounted /\ connects <= MaxConnects
    /\ client' = Connect(client)
    /\ connects' = connects + 1
    /\ UNCHANGED <<mounted, faults>>

RetryTimer ==
    /\ client.retry
    /\ client' = RetryFires(client)
    /\ UNCHANGED <<mounted, faults, connects>>
-----------------------------------------------------------------------------
(* The network.  A socket told to close may still report what was already  *)
(* queued: the SocketHandle port promises nothing, the generation guard    *)
(* is the only thing between such an event and the live attempt.           *)
Sockets == client.opening \cup client.open \cup client.closing

SocketOpens(s) ==
    /\ s \in client.opening \cup client.closing
    /\ client' = OnOpen(client, s)
    /\ UNCHANGED <<mounted, faults, connects>>

FrameArrives(s, f) ==
    /\ s \in client.open \cup client.closing
    /\ Len(client.buffered) < MaxBuffer
    /\ client' = OnMessage(client, s, f)
    /\ UNCHANGED <<mounted, faults, connects>>

SocketCloses(s) ==
    /\ s \in Sockets
    /\ client' = OnClose(client, s)
    /\ Fault(s)
    /\ UNCHANGED <<mounted, connects>>

FetchArrives(a, snapshot) ==
    /\ a \in client.fetches
    /\ client' = SnapshotArrives(client, a, snapshot)
    /\ UNCHANGED <<mounted, faults, connects>>

FetchFails(a) ==
    /\ a \in client.fetches
    /\ client' = SnapshotUnreachable(client, a)
    /\ Fault(a)
    /\ UNCHANGED <<mounted, connects>>

FetchRefused(a) ==
    /\ a \in client.fetches
    /\ client' = SnapshotRefused(client, a)
    /\ Fault(a)
    /\ UNCHANGED <<mounted, connects>>

Network ==
    \/ \E s \in Sockets :
          \/ SocketOpens(s)
          \/ SocketCloses(s)
          \/ \E f \in Frames : FrameArrives(s, f)
    \/ \E a \in client.fetches :
          \/ \E snapshot \in Snapshots : FetchArrives(a, snapshot)
          \/ FetchFails(a)
          \/ FetchRefused(a)

Next == Mount \/ Unmount \/ ManualRetry \/ RetryTimer \/ Network

Spec == Init /\ [][Next]_vars

(* Timers fire; a handshake ends one way or the other; a fetch settles.    *)
Handshake == \E s \in client.opening : SocketOpens(s) \/ SocketCloses(s)

Settlement ==
    \E a \in client.fetches :
        \/ \E snapshot \in Snapshots : FetchArrives(a, snapshot)
        \/ FetchFails(a)
        \/ FetchRefused(a)

FairSpec ==
    /\ Spec
    /\ WF_vars(Mount)
    /\ WF_vars(RetryTimer)
    /\ WF_vars(Handshake)
    /\ WF_vars(Settlement)
-----------------------------------------------------------------------------
(* ADR 31's "one socket, ever": whatever order closes, retries and stale   *)
(* events come in, every socket not being closed is the one held, it is    *)
(* the one whose callbacks are heard, and no retry is due while it is up.  *)
OneAttempt ==
    /\ client.opening \cup client.open = {client.socket} \ {Null}
    /\ client.opening \cap client.open = {}
    /\ client.socket # Null =>
          client.socket = client.generation /\ ~client.retry

Joined == client.epoch # Null /\ client.socket # Null

(* The banner is honest while the page is up.  "Connecting" and            *)
(* "reconnecting", which differ in whether the server was ever reached,    *)
(* mean a handshake or a retry is under way, and the attempt they name is  *)
(* not behind the failures.  An empty banner means the held socket is open *)
(* and its snapshot joined or still awaited.  Otherwise nothing more will  *)
(* happen by itself: no socket, no timer, no fetch whose landing could be  *)
(* heard; and "unable to connect after 3 attempts" means three failures of *)
(* this operator cycle against a server never reached (ADR 31's cap).      *)
BannerIsHonest ==
    LET banner == Banner(client.stream)
    IN  mounted =>
          /\ banner.sentence \in {"connecting", "reconnecting"} =>
                /\ IF client.retry THEN client.socket = Null
                   ELSE client.socket \in client.opening
                /\ banner.sentence = "reconnecting" <=> client.everOpened
                /\ banner.attempt # Null
                /\ client.failedAttempts + (IF client.retry THEN 0 ELSE 1)
                      <= banner.attempt
          /\ banner.sentence = Null =>
                /\ client.socket \in client.open
                /\ Joined \/ client.generation \in client.fetches
          /\ banner.sentence \notin {"connecting", "reconnecting", Null} =>
                /\ client.socket = Null /\ ~client.retry
                /\ client.generation \notin client.fetches
          /\ banner.sentence = "handshake-exhausted" <=>
                /\ ~client.everOpened
                /\ client.probeFailures = InitialProbeAttemptLimit
          /\ ~client.everOpened =>
                client.failedAttempts <= InitialProbeAttemptLimit * connects

(* The phase the pages render agrees with the stream's: an attempt that    *)
(* has not joined is never shown as ready rows, a joined stream never as   *)
(* loading, and the error offered matches the terminal cause.              *)
ResourceAgrees ==
    CASE client.stream.phase \in {"connecting", "reconnecting"} ->
            client.store.phase \in {"loading", "refreshing"}
      [] client.stream.phase = "connected" /\ client.epoch # Null ->
            client.store.phase = "ready"
      [] client.stream.phase = "connected" /\ client.epoch = Null ->
            client.store.phase \in {"loading", "refreshing"}
      [] client.stream.phase = "failed" ->
            client.store.phase = IF client.stream.cause = "contract"
                                 THEN "terminal-error" ELSE "recoverable-error"
      [] OTHER -> client.store.phase = "loading"

(* The stream stops and starts as documented.  Only the operator leaves    *)
(* "failed": no late socket event, landing fetch or timer restarts it;     *)
(* once the server has ever been reached, faults alone never end it; and   *)
(* after an unmount nothing still in flight changes what it reported, the  *)
(* rows it fed or what is due.                                             *)
StopsAsDocumented ==
    [][LET was == client.stream.phase
           is == client'.stream.phase
       IN  /\ was = "failed" /\ is # "failed"
                 => mounted /\ connects' = connects + 1
           /\ client.everOpened /\ was # "failed" /\ is = "failed"
                 => client'.stream.cause \in {"contract", "session-mismatch"}
           /\ connects > 0 /\ ~mounted =>
                 /\ client'.stream = client.stream
                 /\ client'.store = client.store
                 /\ client'.retry = FALSE]_vars

(* Recovery: with finitely many faults a mounted console joins, or has     *)
(* stopped for a stated cause.                                             *)
Recovers == mounted ~> (Joined \/ client.stream.phase = "failed" \/ ~mounted)
==============================================================================
