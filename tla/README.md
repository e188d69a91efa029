# Verification of fleet-console

fleet-console shows an operator the state of a robot fleet. A simulator stands in
for the robots and posts vendor telemetry; a server decodes it, keeps one current
state per robot, degrades the freshness of robots that go quiet and streams
changes to consoles; a console in the browser joins a snapshot with that stream,
and survives closed sockets, failed fetches and restarted servers.

This directory holds TLA+ modules translated from the code under `src/packages`,
TLC configurations that check them on small instances, and TLAPS proofs of what
holds for every instance. `PROJECT.json` maps each definition to the lines it
stands for, and lists the runs, the mutants that show each property can fail,
the hazards each property is aimed at, the findings and the theorems.

## The system

| Component | State it keeps | Operations | Hard behaviour | What makes it correct |
|---|---|---|---|---|
| Simulator (`simulator/src`) | per-robot counter and outstanding send, in-flight count, due times, metrics, shutdown | scheduler wake-up, send with timeout and backoff, signals, drain | posts that arrive after they were given up on, late wake-ups, a ceiling, shutdown racing sends | counters add up, capacity is given back, an acknowledgement means stored, shutdown ends |
| Robots (`simulator/src/fleet`, `simulator/src/vendors`) | charge, tank, pose, status, dock, lidar, counter | one evolution per reading, one payload per dialect | long sequences of legal steps, rounding at both ends | every value stays possible, its own adapter takes every reading |
| Vendor adapters (`adapters/src`) | none (one ledger of unknown fields) | decode one payload | three units and vocabularies for one meaning | nothing invented, nothing lost beyond rounding |
| Wire contract (`contracts/src`) | none | encode, decode, refuse | one robot's bad value refuses everybody's snapshot | what the server accepted it can serve |
| Ingest boundary (`server/src/http`, `server/src/ingest`) | health counters, unknown-field ledger, retained payloads | one POST: selector, size, body, adapter, store, fan-out; `GET /api/health` | bodies that end in any order, during a sweep or a stop | nothing refused changes state, the counters add up to the answers given |
| Current state store (`server/src/state`) | per robot: state, counter, continuity, history ring | `upsert`, `setFreshness`, `list`, `batteryHistory` | readings late, repeated, skipped; ring wrap | never goes back, continuity adds up, history is exactly the newest accepted |
| Freshness sweep (`server/src/freshness`) | last tick | `tick` | writes the slots ingest writes; late ticks; a clock that is set back | silence is detected in time, never early |
| Delta fan-out (`server/src/fanout`) | per-console pending set, flush counter | `add`, `remove`, `mark`, `flush` | joins racing flushes, consoles that are gone | no update lost between snapshot and frames |
| Stream upgrade, lifecycle (`server/src/http/listener.ts`, `runServer.ts`) | sessions, sockets, phase | accept, close, snapshot, stop | restart keeps nothing and numbers from zero; a stop while requests and sockets are open | a restart is told apart from reordering; a stop drains and ends |
| Console transport (`web/src/shared/lib`) | stream state, socket, generation, retry timer, epoch, cold start buffer | connect, disconnect, socket events, snapshot, retry | callbacks of superseded sockets and fetches; timers racing the operator | one attempt, an honest banner, no stuck state |
| Console fleet resource (`web/src/entities/robot/fleetStore.ts`) | phase, rows | snapshot, batches, failures | two views of one stream | agrees with the stream |
| Robot detail and history hooks (`web/src/entities/robot`) | loaded value and its id, attempt | load, retry, switch robot | answers for a robot no longer shown, or out of date | shows only the current robot, ends up current |
| Battery history (`server/src/history`) | none (the store's ring) | window and decimate | bucket arithmetic, ring capacity | satisfies the response contract, covers the window, keeps extremes |
| Selectors and pages (`web/src/entities/robot/selectors.ts`, `web/src/features`) | filters, chosen site, extents of the map per site, what was last rendered | projection of a row, filters, counts, map frame, detail sections | notifications coalesce; rows and connection reach a page by two channels; fleets change under open pages | no robot disappears, the map is to scale, pages catch up with the store |
| Configuration, recording, command lines | files, arguments | parsing, validation | – | – |

How they interact. The simulator posts to the ingest boundary over HTTP. Ingest
decodes, writes the store and marks the robot for fan-out in one callback; the
sweep's timer writes the same slots and marks what it changed. The flush timer
sends each registered console what was marked since the last flush, under one
process-wide counter. A console opens a socket first, then fetches
`GET /api/fleet`, buffers the frames that come meanwhile, and replays those that
the snapshot's session and counter do not cover. Node and the browser run one
callback at a time, so a callback is one step of the models; everything between
callbacks (handshakes, fetches, frames, timers, other callbacks) interleaves.

## Modules

| Module | Models | Extends / uses |
|---|---|---|
| `Freshness` | the policy and `deriveFreshness` | – |
| `SequenceContinuity` | which reading is newer, and the continuity counts | – |
| `HistoryRing` | `RingBuffer`: slots, write cursor and count, as functions on a ring | `Filtering` |
| `FleetState` | store, ingest, sweep, wall clock: `Ingest` (accepted, duplicate, out of order), `Tick`, `Elapse`, `StepBack` | `Freshness`, `SequenceContinuity`, `HistoryRing` |
| `StreamLifecycle` | the lifecycle matrix and what is published of it | – |
| `FleetStore` | the console's resource: phases and rows | `StreamLifecycle` |
| `Transport` | every callback of the transport, as a function from client to client | `FleetStore` |
| `FleetTransport` | those callbacks as actions, under an arbitrary network | `Transport` |
| `FleetStream` | the same console composed with a real server: store, fan-out, snapshots, frames in flight, restarts | `FleetTransport` |
| `MirroredFleet` | the abstract promise: rows shown are states the server had, and only move forward | used by `FleetStream` |
| `FleetStream_proofs` | theorems about `FleetTransport` and `FleetStream` | `FleetStream`, `FoldTheorems` |
| `Simulator` | scheduler, ingest client, metrics, signals and shutdown | – |
| `TelemetryDelivery` | the simulator composed with a network that delays, drops and delivers late, and the server's ordering rule | `Simulator`, `SequenceContinuity` |
| `TelemetryDelivery_proofs` | theorems about it | `TelemetryDelivery`, `FoldTheorems` |
| `ResourceHook` | what the console's two fetching hooks share, as functions on a hook's state | – |
| `RobotPage` | the robot detail page: both hooks, their requests, the live row | `ResourceHook` |
| `RobotPage_proofs` | theorems about it | `RobotPage`, `TLAPS` |
| `Filtering` | `Array.prototype.filter`, as the history, the contract and the selectors use it | – |
| `BatteryHistory` | a ring of battery samples, the response built from it and the contract it is decoded with | `HistoryRing` |
| `BatteryHistory_proofs` | theorems about it | `BatteryHistory`, `FoldTheorems` |
| `IngestBoundary` | the server process around its state: requests, refusals, counters, evidence, consoles' sockets, stop | `FleetState` |
| `IngestBoundary_proofs` | theorems about `FleetState` and about it | `IngestBoundary`, `FoldTheorems` |
| `SimulatedRobot` | how one robot's values evolve | – |
| `Dialects` | the payload each vendor's robot sends and what the vendor's adapter makes of any payload | – |
| `CanonicalEnvelope` | the wire contract: capabilities, envelope, snapshot, what is refused | `Dialects`, `Filtering` |
| `ConsoleRow` | the row the console makes of a wire state, and what selectors let a page show of it | `CanonicalEnvelope` |
| `RobotDetail` | the detail response and read model, the row laid over it, the page's sections | `ConsoleRow` |
| `TelemetryPath` | a reading from the robot to the row and an open page | `SimulatedRobot`, `RobotDetail` |
| `TelemetryPath_proofs` | theorems about it | `TelemetryPath`, `FoldTheorems` |
| `ConsoleViews` | the fleet and map pages over the store they subscribe to | `FleetStore` |
| `ConsoleViews_proofs` | theorems about it | `ConsoleViews`, `FoldTheorems` |
| `FoldTheorems` | lemmas about finite sums, least elements, quotients, flattened and filtered sequences, and that a ring reads back what a queue would hold | `HistoryRing`, `TLAPS` |
| `MC...` | small instances for TLC | – |

Definitions keep the names of the code where they can. Mutants (`...Keeps...`,
`...Late`, `...Unstamped` and so on, each under a comment `Mutant:`) are plausible
bugs of one definition; `PROJECT.json` says which property each must break.

**FleetState.** One slot per manifest robot: `receivedAt` (or `Null`), `freshness`,
`sequence`, `continuity`, `history`. `Ingest(r, s)` is `ingestTelemetry` from the
decoded reading on, with `upsert`'s three outcomes as disjuncts and the mark that
follows; readings name any counter up to a bound in any order, which covers every
loss, repetition and reordering. `Tick` is one sweep. Both read `now`, the wall
clock, which `StepBack` may set back; `silence`, `sinceTick` and `elapsed` are real
time and belong to the properties. Clock units are abstract; the policy's
millisecond thresholds are constants subject to what the policy parser demands.

**IngestBoundary.** The whole server process: `FleetState`'s actions beside
`createApp`'s request handling. A request is one step when it is refused before
its body is read (unsupported vendor, declared length), and two otherwise:
`AwaitBody`, then `BodyEnds` with one of its outcomes (too large, not JSON, refused
by the adapter, robot not registered under this vendor, `Reading`). Between the two
anything may happen: other requests, of the same robot too, sweeps, the stop.
`phase` follows `stop()` through `runServer` and the listener: the sweep and fan-out
stop, sockets are closed and drained, the HTTP server closes last and answers what
it had begun. `Reading` is `FleetState`'s `Ingest` with the ledger and the retained
payload, so the module refines the store (`ImplementsStore`).

**SimulatedRobot to RobotDetail.** One robot of one vendor. `Report` is a whole
emission: evolve, build the payload, decode it, store it; `Misreport` is a robot
whose payload departs from the documented dialect in one field. Numbers are scaled
integers finer than every dialect's unit, so that rounding at both ends is what the
code does; a random draw is a choice. `slot` and `retained` are what the store
keeps; the snapshot, the row and the detail are operators of them. `OpenDetail`
fetches a page's detail once and keeps it (`visit`), and the page shown afterwards
is `ReconcileDetailWithRow` of that and the row of the moment, as in the code.
Delivery is left out here: it is the subject of the other modules.

**ConsoleViews.** `store` and `connected` change with every event of the transport
(giving up while joining, and straight from a joined stream on a mismatch);
`shown` is what React last rendered of them. The store's notification is a
microtask that coalesces whatever came before it (`Notify`), the connection is
published by itself (`ConnectionRenders`), and either may come first. The pages'
local state (filters; the chosen site and the extents kept per site) lives as long
as the page is open. Positions and lengths are integers chosen so that padding and
centring are exact.

**Transport and FleetTransport.** The client is a record of everything the closures
of `createFleetTransport`, `createColdStart` and `useFleetTransport` hold, plus the
browser's view of what may still call back: sockets `opening`, `open`, `closing`,
and `fetches`. Sockets and fetches are named by the generation of the attempt that
started them, which is what the code captures. `loadSnapshot` suspends once, at
its fetch, and is split there. A socket being closed still reports events until
its close; so do fetches of attempts long superseded.

**FleetStream.** A robot's state is the number of the change that produced it, so
that old and new can be told apart; ingest and the sweep are one action, `Change`,
because `MarkedIsStored` (checked and proved for `FleetState`) shows that every
change is marked. Frames of one socket stay in order; frames of different sockets,
and snapshots, do not. A restart empties the server and starts a new session;
what was sent before may still arrive.

**Simulator and TelemetryDelivery.** A wake-up of the scheduler is one step, every
due robot in index order. A send suspends at its fetch and at its backoff and is
split there; what its settlement records happens in the same turn. A POST is a
record that the network may hand to the server at any later time, even after the
client timed out, or never. `Starts` is a new simulator process against the same
server. `Refused` covers 4xx and 5xx answers that leave the store alone.

**ResourceHook and RobotPage.** A hook is its id, its attempt, what its effect last
ran for, the request whose signal is not aborted, and the result kept with its id;
`Shown` is what it returns. The effect runs some time after the render it is due
to, so `Visit` and `FetchDetail` are two steps. A detail request has two halves
that are answered in any order and lands when both are in (`Promise.all`). The
history section is mounted by the step that makes the body ready and unmounted by
the one that does not (`SectionFollows`). A robot's values are a version, the
server's `newest`, the fleet row's `rows` and the one in a fetched detail; that
rows are real and only move forward is what `FleetStream` shows.

**HistoryRing and BatteryHistory.** The ring is the code's: slots, a cursor that
goes round, a count; nothing in it is in order of age, and the properties speak of
what `ToArray` reads back (`Samples`), in `FleetState` and here. The response is an
operator of that and of the instant of the request, so an invariant of it speaks of
a request in every state. `Conforms` is the contract's
schema. Samples are at least `SourceInterval` apart on arrival, which is how the
capacity is derived; the clock is not set back (`HistoryChronological` in
`FleetState` says what that costs). The bucket of a sample is computed exactly,
where the code multiplies a floating-point fraction; either way it is in range and
monotone, which is all the properties use.

## Runs

Every pass run is exhaustive for its bounds. Properties say in their comments
which behaviour of the code they are about.

| Run | Instance | Why it is enough | Shows |
|---|---|---|---|
| `fleet_freshness` | two robots (with and without a counter), seven time units, thresholds 2 and 4, ticks late or on time | three detection windows: live to stale to unreachable and back | `MarkedIsStored`, `DetectionBound`, `NoEarlyAlarm`, `HistoryChronological`, `OnlyNewReadingsRevive` |
| `ingest_boundary` | two robots of a dialect with a counter, one without; three requests, all possibly under way at once; counters 0..2; one console; the clock set back once; a stop at any point | every refusal beside a reading of the same vendor, two bodies of one robot ending in either order, a wrapped ring, a stop with body and socket open | `SequenceAccounting`, `HistoryTracksState`, `RequestsAccounted`, `HealthTellsFleet`, `EvidenceMatchesState`, `ImplementsStore`, `StopIsOrderly` |
| `transport_network` | one robot, frames and snapshots of two sessions, three faults, one operator retry, mount and unmount at any time | as many faults as the probe cap, retries pending while the operator retries or leaves | `OneAttempt`, `BannerIsHonest`, `ResourceAgrees`, `StopsAsDocumented`, `Recovers` |
| `stream_join` | two robots, two changes, one flush for others, one restart, one undecodable frame | change and flush fall on every side of handshake, registration, snapshot and buffer | `NoUpdateLost`, `MirrorsFleet` |
| `stream_current` | one robot, one change, one restart, one failing healthy socket or fetch | two attempts and two servers overlap | `EventuallyCurrent` |
| `simulator_sends` | two robots sharing one slot, four time units, one retry, one fault, two starts | ceiling, skip, coalesced tick, retry, late arrival and both signals occur | `ReadingsAccounted`, `AcknowledgedIsAccepted`, `ContinuityIsTrue`, `ShutdownIsQuiet`, `ShutdownEnds` |
| `robot_page` | a registered robot and a wrong link, three visits, one retry, one failed request, one report | there, away and back with every request of all three visits under way at once | `ShowsAskedRobot`, `DetailNeverGoesBack`, `LoadingEnds`, `PageCatchesUp` |
| `battery_history` | three levels and missing ones, a window of seven samples, two buckets, eight time units | the ring wraps, the window moves on, each bucket can hold a tie and an end sample | `ResponseConforms`, `PointsRepresentWindow`, `WindowIsCovered` |
| `telemetry_rows` | one robot of each vendor, two initial charges, two headings, steps of 170 s, four readings of which any may be distorted, a page opened before the first reading or after it | from work to the dock and nearly full, or to a fault and nearly flat; past the edge of the site; values half a unit off every grid; every refusal; a page several readings old | `ConsoleTellsReading`, `TroubleIsVisible`, `AcceptedIsServable`, `ReadingsAreTaken` |
| `console_views` | two robots and two sites, three fleets that replace one another, five events of the transport between any acts of the operator | robots change site and lose their position under an open map, a site leaves the directory, filters that match nobody, rows and connection a render apart | `NobodyIsLost`, `MapIsToScale`, `FrameOnlyWidens`, `ViewsCatchUp` |

`ConsoleTellsReading` is two statements: the row says what the robot reported, to
within half a unit of its dialect (`RowTellsReading`), and an open page says what a
page opened now would say above, and below shows evidence of one accepted reading,
no newer than the values above it, that decodes to what it claims
(`PageTellsReading`).

The invariants `JoinedCatchesUp` and `JoiningCatchesUp`, together `NoUpdateLost`,
are the heart of the stream: replaying
through the code's own reconciliation everything buffered, on the wire and
pending gives exactly the server's store. They are stated for consoles to which no
frame failed to decode, since such a frame is lost; `stream_dropped` shows the
consequence.

`FleetStream` refines `MirroredFleet` (property `MirrorsFleet`): the rows shown are
states the server really had and never move backwards, across restarts too.

`CHECK_DEADLOCK FALSE` is set in every run but `fleet_freshness`: bounds on requests,
faults, changes, visits, readings and time let the others come to rest (an unmounted
page; a process that has ended; no more samples).

The type invariants of the transport, the stream and the simulator (`TypeOK`,
`StreamTypeOK`, `DeliveryTypeOK`) are theorems (`TransportTypes`, `StreamTypes`,
`DeliveryTypes`) and not part of a run; those of the other components are conjuncts of the
inductive invariants below.

### Findings

Two runs each check one statement of the repository's documentation or comments
and end in a counterexample.

| Run | The text | What the code does |
|---|---|---|
| `stream_dropped` | `transportDecoding.ts:105`: a dropped frame costs an update that "the server's next flush or freshness sweep corrects" | a robot that does not change again is not resent |
| `readings_servable` | `primitives.ts:62`: a coordinate out of range is "a frame or unit error worth rejecting" | no adapter bounds a coordinate and the server validates nothing it serves: the reading is stored, and consoles refuse the whole snapshot because of it |

Others that the models show, and that no run is spent on:

- ADR 23 says labels render "only after the socket and snapshot join succeeds";
  `connected` is published, and labels show, once the socket opens.
- `README.md:229` says dropped robots "resume where they stopped"; every robot starts
  at zero, and the server refuses its readings until they pass the last counter.
- `simulator/src/app.ts:218` says "the second Ctrl-C should be a no-op"; `process.once`
  leaves no listener, so the second ends the process (`server/src/main.ts:57` alike).
- A restart that falls between a frame and the snapshot of one join ends the stream
  as a session mismatch until the operator retries; ADR 31 says "No reload, no
  operator action".
- `simulator.stopped` never shows a cancelled request, since the summary is taken
  before an aborted send has reported: `ReadingsAccounted` says so (what the summary
  leaves out is exactly what was abandoned).
- `connectionBanner.tsx:40` calls the banner's instant the last event received;
  `useFleetTransport.ts:181` passes the last time the stream joined.
- `requestSizeLimit.ts:76` asks for a call per chunk; `createApp.ts` reads the whole
  body first and calls it once, so the budget bounds what is parsed, not what is held.
- `robotDetailPage.tsx:390` says a robot that has never reported has no source to
  name. The overlay keeps the evidence as it was fetched, so a page opened before
  the first reading goes on saying that no telemetry was received under live
  values. `PageTellsReading` therefore speaks of evidence that is there.
- While the stream is down, freshness labels are withheld and markers hollow, but a
  status chip still words a live row as current.

## Fairness

Liveness is checked under weak fairness of:

- timers: the retry timer, the flush interval, the request timeout, backoff and
  the shutdown poll. Node and browsers run due timers, and none of these is
  disabled except by an action the code takes.
- handshakes and fetches settle (`Handshake`, `Settlement`; in `FleetStream`
  `Accept`, `Opens`, `ReadFleet`, `Responds`). For the socket the browser's own
  handshake timeout sees to it. The snapshot fetch has no timeout in the code, so
  there this is an assumption about the network, and a fetch that hangs for ever
  leaves the console "connected" without rows: listed under hazards.
- frames accepted by a healthy socket are delivered, and a socket whose server
  process has ended is reported closed.
- an aborted fetch rejects (`GivesUp` in `TelemetryDelivery`).
- in `RobotPage`, effects that are due run, requests settle and what is new reaches
  the row. The hooks set no timeout, so that requests settle is again an
  assumption, and it is needed of the health request too: while that one hangs the
  page loads, though its own answer is in.
- in `IngestBoundary`, a console told to close does close or is dropped
  (`ws` ends a peer that does not answer its close frame), and a body that was begun
  ends, with its last byte or with an error: that is assumed of the sender, since
  nothing in the code bounds a body once the server closes. Only `StopIsOrderly`
  uses either.
- in `ConsoleViews`, the store's microtask runs and React renders what was
  published (`Notify`, `ConnectionRenders`).

Nothing is assumed of the operator, of faults, or of when readings come.

## Proofs

Every safety invariant and every action property that a passing run checks is also
a theorem, for every value of the constants the assumptions allow: any number of
robots, consoles' attempts, requests, readings, restarts and changes. The bounds
(`MaxFaults`, `MaxReadings` and so on) are arbitrary naturals in the proofs.
`PROJECT.json` lists the theorems; here is on what they rest. In each table "–"
means no assumption besides those named in the modules, which are at the end.

### Server

`IngestBoundary_proofs`, first of the store, the sweep and the clock (`FleetState`):

| Theorem | Statement | Assumes | Argument |
|---|---|---|---|
| `TypeCorrect` | `[]TypeOK` | – | inductive as it stands |
| `FanOutIsTold` | `[]MarkedIsStored` | – | inductive with `TypeOK`: whatever writes a slot marks it in the same step |
| `CountsAddUp` | `[]SequenceAccounting` | – | `SequenceInv` adds what holds of a robot not yet heard (no counter, nothing accepted) |
| `UncountedIsNotEvaluated` | `[]UnnumberedNotEvaluated` | – | `UncountedInv`: such a robot's stored counter is `Null` from the start |
| `HistoryIsAccepted` | `[]HistoryTracksState` | – | `HistoryInv`, which holds the ring to what is read back of it (`RingHolds`): `PushRetains` and `RingReads` show that, wherever the cursor stands, a push appends to what `ToArray` gives and drops the oldest once full |
| `DetectionIsTimely`, `NoAlarmIsEarly` | `[]DetectionBound`, `[]NoEarlyAlarm` | no step back | `FreshnessInv`: `now` is receipt time plus silence, and the stored freshness is the one derived at the last tick or later reading |
| `RevivalNeedsAReading` | `OnlyNewReadingsRevive` | no step back | an action property, from the same invariant |
| `HistoryIsChronological` | `[]HistoryChronological` | no step back | `AscendingInv`: every sample is at most `now` |
| `LatenessIsRecorded` | `LateTicksAreRecorded` | no step back | the clock advances by exactly the time since the last tick |

"No step back" is `MaxStepBack = 0`: ages are differences of two `Date.now()`
readings, so a wall clock that is set back postpones detection, and no bound can
hold. The theorems that do not assume it hold whatever the clock does.

Then of the whole process, for any fleet, vendors, consoles and number of requests:

| Theorem | Statement | Argument |
|---|---|---|
| `StoreIsImplemented` | `ImplementsStore`, that is `Spec` of `FleetState` | `BoundaryStep`: each disjunct is a step of the store, the sweep or the clock, or leaves them alone |
| `ServerKeepsItsWord` | `[]` of `TypeOK`, `MarkedIsStored`, `SequenceAccounting` | the theorems above through the refinement |
| `EvidenceIsOfState` | `[]EvidenceMatchesState` | `EvidenceInv` adds the payloads' type; two requests of one robot may be under way, and only the accepted one writes both |
| `SocketsAreServed` | `[]ConsolesAreServed` | inductive as it stands: accepting is registering, and closing starts with the signal |
| `RequestsAreAccounted` | `[]RequestsAccounted` | `RequestsInv` adds the counters' types: each refusal moves its counter and its answer in one step, whatever other bodies are under way |
| `HealthIsOfFleet` | `[]HealthTellsFleet` | not inductive, but a consequence of `SequenceInv` and `UnnumberedNotEvaluated` in every state: a sum over a dialect's robots of records that are each right; `BoundaryAssumption` makes the fleet finite |

### Console stream

`FleetStream_proofs`, the transport alone under an arbitrary network:

| Theorem | Statement | Argument |
|---|---|---|
| `TransportTypes` | `[]TypeOK` | part of `TransportInv` |
| `TransportOneAttempt` | `[]OneAttempt` | `OneLive` |
| `TransportResource` | `[]ResourceAgrees` | `Agrees` |
| `TransportBanner` | `[]BannerIsHonest` | `Shaped` and `Counted` |
| `TransportNeverAtRest` | `[]NeverAtRest` | `Shaped`, phase by phase |
| `TransportStops` | `StopsAsDocumented` | an action property: from `Remembers`, each step that stops or starts the client |

`TransportInv` says of a mounted client that it is `Sound`, of an unmounted one that
nothing of it is alive (`Frozen`). None of the properties is inductive. `OneLive` adds
to `OneAttempt` that the held socket is of the newest attempt, that nothing closing
is, and that a fetch which may still be heard belongs to an open socket that has not
joined: without it a late event of an old attempt could be taken for the live one.
`Remembers` ties the phase to whether a server was ever reached, and the cause
`handshake-exhausted` to the probe limit; `Shaped` says what is under way in each phase
and that failures do not outrun attempts; `Counted` bounds the failures by the
operator's retries.

Then the transport with a real server:

| Theorem | Statement | Argument |
|---|---|---|
| `StreamTypes` | `[]StreamTypeOK` | part of `StreamInv` |
| `StreamKeepsTransport` | `[]` of `OneAttempt`, `BannerIsHonest`, `ResourceAgrees` | `TransportInv` is kept: each step of the composition is a callback of the transport, or leaves it alone |
| `StreamMirrorsFleet` | `MirrorsFleet`, that is `Mirror!Spec` | a refinement: `StreamInv` makes every frame let in, and every snapshot taken, a move forward of the rows |
| `StreamLosesNoUpdate` | `[]NoUpdateLost` | `StreamInv` and `CatchInv` |

`StreamInv` is `TransportInv`, the types and `MirrorInv`: everything stored, pending,
buffered or on the wire is a state the server had (`Known`), frames of one socket are in
order (`TravelInv`), and whatever may still be let in is not behind the rows shown -
before the join (`UnjoinedInv`), for the snapshot on its way and the frames it will let
through (`ReplyInv`), after it (`JoinedInv`). `CatchInv` is the same question the other way
round, what might be missing: for a robot the next flush does not mention, base, buffer
and wire give the server's state (`JoinedCaught`, `JoiningCaught`). `NoUpdateLost` says it
of the robots that are pending too, and is not inductive since a flush moves what is
pending to the wire. `RegisteredInv` and `EpochInv` say which sockets and stamps it speaks of.

### Robot page and pages

`RobotPage_proofs`, for any robots, visits, retries, failures and orders of answers:

| Theorem | Statement | Argument |
|---|---|---|
| `PageTypes` | `[]PageTypeOK` | part of `PageInv` |
| `PageShowsAskedRobot` | `[]ShowsAskedRobot` | `PageInv`: answers under way name the robot asked for (`TrueAnswers`), what is loaded names the id it is kept with (`TrueLoaded`), and the section hangs under a ready detail of its robot (`SectionBelow`) |
| `PageNeverGoesBack` | `DetailNeverGoesBack` | `AgeInv`: the request still listened for carries nothing older than what is shown (`HeardNotOlder`), which needs that no answer is ahead of the server (`AnswersNotAhead`, `LoadedNotAhead`) and that numbers are given once (`HeardWasIssued`) |
| `PageWaitsForSomething` | `[]LoadingIsWaiting` | `AwaitsInv`: what a hook listens for is told by what its effect last ran for, not by the id it shows now, since an address may be left and come back to before the effect runs |

`ConsoleViews_proofs`, for any fleets, reports, searches and number of changes:

| Theorem | Statement | Argument |
|---|---|---|
| `ViewsTypes` | `[]ViewsTypeOK` | part of `ViewsInv` |
| `ViewsLoseNobody` | `[]NobodyIsLost` | `Stores` says that a store which holds a fleet is past loading (`HeldIsShown`); the pages' counts are sizes of parts of the fleet that add up to it (`FourParts`, `SummaryCountsAll`) |
| `ViewsToScale` | `[]MapIsToScale` | `RobotsInFrame`: the frame shown is around the robots last rendered, while it and they are updated by different renders; the rest is arithmetic of the projection and of its rounded height (`DrawnInView`, `DownIsToScale`) |
| `ViewsWiden` | `FrameOnlyWidens` | an action property, from the kept extents being real ones |

### Simulator

`TelemetryDelivery_proofs`, for any fleet, ceiling, retries, faults and restarts:

| Theorem | Statement | Argument |
|---|---|---|
| `DeliveryTypes` | `[]DeliveryTypeOK` | from `CountInv`, which also makes the count in flight a natural, and `ScheduleTyped` |
| `DeliveryShutdownIsQuiet` | `ShutdownIsQuiet` | an action property, from `aborted` implying that the run is over |
| `DeliveryAcknowledged` | `[]AcknowledgedIsAccepted` | `StoreInv`: the counter is the newest accepted (`CounterIsNewest`), and what was taken and is still awaited was accepted (`TakenIsAccepted`). It needs `WireInv`: no post is ahead of what its robot is at, and none is both on its way and arrived |
| `DeliveryContinuity` | `[]ContinuityIsTrue` | `ContinuityInv`: gaps are the size of the set of counters skipped, duplicates are no more than requests that arrived less counters that did, over every run of a simulator |
| `DeliveryAccounts` | `[]ReadingsAccounted` | `CountInv` for the outcomes and the capacity; then, over it, the schedule: each wake-up moves the due times by a period per reading, skip or coalesced tick |
| `DeliveryStopsOrAborts` | `[]StopsOrAborts` | `StopAborts`, over `CountInv`: a stopped process has aborted or has nothing under way, and no turn changes that since a turn needs a send under way |
| `DeliveryAbortedSettle` | `AbortedOnlySettle` | an action property, from each turn's look at the shutdown signal |

### History and readings

`BatteryHistory_proofs`, for any window, rate, point budget and samples:

| Theorem | Statement | Argument |
|---|---|---|
| `HistoryConforms` | `[]ResponseConforms` | `RingInv`; decimation keeps at most the budget, since a bucket gives at most two |
| `HistoryRepresents` | `[]PointsRepresentWindow` | kept positions ascend (`ExtremesAre`, `KeptAre`), because the bucket of a sample grows with its time (`BucketGrows`); every sample is an end or in a bucket (`DecimateRepresents`) |
| `HistoryCoversWindow` | `[]WindowIsCovered` | `RingInv`: what is read back of the ring is the latest of what was received (`Latest`), received no faster than the rate (`Spaced`) and not in the future (`NoneAhead`); `Capacity` is the arithmetic |

`TelemetryPath_proofs`, for any site, identities, dialects, rates, headings, faults,
number of readings and distortions of a payload in one field:

| Theorem | Statement | Assumes | Argument |
|---|---|---|---|
| `RobotStaysInRange` | `[]RobotInRange` | – | each value is clamped or reflected by its step; `ReflectStays` is where `StepAssumption` is needed |
| `ReadingsAreAlwaysTaken` | `ReadingsAreTaken` | – | `AdaptersTake`: a payload built from a robot in range satisfies its adapter's schema and code tables, by cases of the vendor |
| `ConsoleAlwaysTells` | `[]ConsoleTellsReading` | – | `ReadingInv`, and per vendor what `Decode` makes of what was built (`BuiltTells`), to within half a unit |
| `TroubleIsAlwaysVisible` | `[]TroubleIsVisible` | – | `ReadingInv`, and what the chip and the panels make of any decoded envelope (`TroubleShows`) |
| `AcceptedIsAlwaysServable` | `[]AcceptedIsServable` | every distortion is `InReach` | `ReachInv`: what is stored is `Readable` as well as accepted, which together give each check of the snapshot's schema (`ReadableIsCarried`) |

`ReadingInv` says that the slot is the robot's registration or the envelope its
retained payload decodes to (`SlotInv`), and that a page's evidence is of one accepted
reading, not newer than the one stored and, if as new, that very one (`VisitInv`). The
last clause is what keeps two readings of one instant apart; the page's property
follows for a row that goes on changing under it. Between server and console lies the
wire: `WireKeeps` proves that encoding and decoding capabilities is the identity on what
adapters return, in canonical order (`OrderedAre`).

`InReach` says that a distorted coordinate is one the contract can carry, which is the
one thing nothing in the code checks before the snapshot is served; and that the payload
keeps its identity and values of the right kind in the fields the contract bounds, which
the adapters' schemas do check and the models leave out. The run `telemetry_rows`
satisfies it, and `readings_servable` shows what happens without it.

### Assumptions

Each is named in the module that declares the constants, and evaluated by TLC in the
runs.

- `PolicyAssumption`: what the policy parser enforces. `StepAssumption`: one step
  carries a robot at most across the site. `HistoryAssumption`: a positive rate and an
  even budget of points above two, as the code's constants are.
- `NullAssumption`, `HealthAssumption` and conjuncts of others: `Null` is none of the
  values, records or functions it stands beside.
- Finite fleets and vendors (`BoundaryAssumption`, `ViewsAssumption`), a manifest whose
  robots of one vendor all have counters or none have, positions on a grid that keeps
  padding and centring exact.
- `PathAssumption`: a distorted instant is one that does not parse - a wrong but legal
  clock is not modelled -, `lidarHealth` is the one panel a tenant's flags disable, and
  the contract can carry any place on a site.

### How, and what is left to TLC

Facts about data that need induction are proved without the library's induction
theorems, which take an operator: a least counterexample is a least element of a set
of naturals (`LeastNatural`, `Upwards`), and `SubsetInduction` is stated of a set of
sets. That the recursion inside the folds and `FlattenSeq` of the community modules
defines a function at all is proved too (`FoldingExists`, `FlatteningExists`). Two
definitions take a form that can be reasoned about: a replay is the positions of the
frames that count (`Replay`) and rows after it are, robot by robot, those of the last
that names it (`Overlay`), where the code loops; `Filtered` likewise.

Only model-checked: liveness (`Recovers`, `EventuallyCurrent`, `LoadingEnds`,
`PageCatchesUp`, `ShutdownEnds`, `ViewsCatchUp`, and of `StopIsOrderly` that a stop ends),
since the prover does not reason about `WF_` and `ENABLED`. What some of them rest on is
proved as safety, in terms of the state instead of `ENABLED`: that a client that has not
joined has something under way (`NeverAtRest`, for `Recovers`), a loading page a request it
listens for (`LoadingIsWaiting`, for `LoadingEnds`), a stopped simulator only aborted sends
that can do nothing but settle (`StopsOrAborts`, `AbortedOnlySettle`, for `ShutdownEnds`).
These belong to no run.

`LateTicksAreRecorded`, `UnnumberedNotEvaluated`, `ConsolesAreServed` (the safety half
of `StopIsOrderly`), `RobotInRange` and the type invariants belong to no run of their own.

## Not modelled

- Configuration, recording and command lines: parsing and file I/O before anything
  runs. What they produce are the models' constants.
- Wording, layout, formatting, the battery chart, the development gallery.
- The unknown-field ledger's caps on distinct paths and on each count, the
  simulator's periodic summary, the origin policy: they bound or report and decide
  nothing the models follow.
- The strings of the contracts (identifiers, instants, issue texts): identifiers are
  model values, and an instant is one that parses or none.
- Retry delays have no length in the models, so the jitter schedule is not
  checked; nothing above relies on it.
- Memory: nothing bounds the frames queued on a socket that is not read, nor those
  buffered while a snapshot is awaited. The models bound both by the flushes they
  allow.

## Plan

The modules were written in the order fleet state, console, stream, simulator,
robot page, battery history, then the server process, dialects and contract, rows
and detail, pages; the proofs in the order store, server process, transport, stream,
robot page, simulator, pages, history, readings. What is left of the system is under
"Not modelled". What is left to prove is, as safety, what the other liveness properties
rest on: that a console behind its server always has the missing state on its way
(`EventuallyCurrent`, for which `CatchInv` already is most of the argument) and an open page
the row or the answer that brings it up to date (`PageCatchesUp`).
