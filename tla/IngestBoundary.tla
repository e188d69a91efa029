--------------------------- MODULE IngestBoundary ---------------------------
(***************************************************************************)
(* The server process around its state: POST /api/telemetry/:vendor as the *)
(* sequence of refusals createApp puts before the store, the counters each *)
(* refusal moves and the health response made of them, the payload kept as *)
(* evidence, the consoles' sockets, and an orderly stop.                   *)
(*                                                                         *)
(* A handler awaits only the body, so a request is one step if it is       *)
(* refused before that and two otherwise; between the two anything else    *)
(* may happen, another request of the same robot included.                 *)
(***************************************************************************)
EXTENDS FleetState, FiniteSetsExt

CONSTANTS
    Vendor,      \* SUPPORTED_VENDORS
    VendorOf,    \* the manifest's vendorId of each robot
    Stranger,    \* a robotId the manifest does not list
    Undeclared,  \* per vendor: undeclared paths a payload may have, one at most
    Console,     \* bound: consoles with a socket at once
    MaxPosts     \* bound: requests in a run

(* What the model tells apart of a retained payload: its counter. *)
Payload == [sequence : Nat \cup {Null}]

ASSUME BoundaryAssumption ==
    /\ IsFiniteSet(Robot) /\ IsFiniteSet(Vendor)
    /\ VendorOf \in [Robot -> Vendor]
    /\ Stranger \notin Robot
    /\ Undeclared \in [Vendor -> SUBSET {0, 1}]
    /\ \A r, q \in Robot :
          VendorOf[r] = VendorOf[q] => (r \in Numbered <=> q \in Numbered)
    /\ Null \notin Payload
    /\ MaxPosts \in Nat

VARIABLES
    awaiting,            \* per vendor: requests whose body is being read
    malformedIngest,     \* HealthMetrics
    unsupportedVendors,
    adapterFailures,
    unknownFields,       \* per vendor: the unknown-field ledger's total
    rawPayload,          \* per robot: the retained payload, or Null
    phase,               \* where the process is between start and stopped
    registered,          \* DeltaFanOut's clients
    connected,           \* WebSocketServer.clients
    answers              \* history: per vendor, answers by outcome

healthVars == <<malformedIngest, unsupportedVendors, adapterFailures,
                unknownFields>>
processVars == <<phase, registered, connected>>
boundaryVars == <<awaiting, healthVars, rawPayload, processVars, answers>>
allVars == <<vars, boundaryVars>>

(* The kinds of answer; a body that is not JSON answers malformed_payload  *)
(* too, but no adapter has failed.                                         *)
Outcome == {"ok", "payload_too_large", "not_json", "malformed_payload",
            "unmappable_value", "not_found", "internal"}

BoundaryInit ==
    /\ Init
    /\ awaiting = [v \in Vendor |-> 0]
    /\ malformedIngest = 0
    /\ unsupportedVendors = 0
    /\ adapterFailures = [v \in Vendor |-> 0]
    /\ unknownFields = [v \in Vendor |-> 0]
    /\ rawPayload = [r \in Robot |-> Null]
    /\ phase = "running"
    /\ registered = {}
    /\ connected = {}
    /\ answers = [v \in Vendor |-> [o \in Outcome |-> 0]]
-----------------------------------------------------------------------------
(* The HTTP server takes requests until server.close: while consoles are   *)
(* still being drained it goes on serving and ingesting.                   *)
Listening == phase \in {"running", "draining"}

AnswersOf(v) == SumFunctionOnSet(answers[v], Outcome)

Posts == unsupportedVendors
         + SumFunctionOnSet([v \in Vendor |-> AnswersOf(v) + awaiting[v]], Vendor)

Answered(v, o) == answers' = [answers EXCEPT ![v][o] = @ + 1]

(* Before any body byte is read: no adapter for the path segment ...       *)
RefuseVendor ==
    /\ Listening /\ Posts < MaxPosts
    /\ unsupportedVendors' = unsupportedVendors + 1
    /\ UNCHANGED <<vars, awaiting, malformedIngest, adapterFailures,
                   unknownFields, rawPayload, processVars, answers>>

(* ... or a Content-Length over the cap, which is counted nowhere.         *)
RefuseDeclared(v) ==
    /\ Listening /\ Posts < MaxPosts
    /\ Answered(v, "payload_too_large")
    /\ UNCHANGED <<vars, awaiting, healthVars, rawPayload, processVars>>

AwaitBody(v) ==
    /\ Listening /\ Posts < MaxPosts
    /\ awaiting' = [awaiting EXCEPT ![v] = @ + 1]
    /\ UNCHANGED <<vars, healthVars, rawPayload, processVars, answers>>
-----------------------------------------------------------------------------
(* The rest of the handler, in one step once the body is in or lost.       *)
Answer(v, o) ==
    /\ awaiting[v] > 0
    /\ awaiting' = [awaiting EXCEPT ![v] = @ - 1]
    /\ Answered(v, o)
    /\ UNCHANGED <<unsupportedVendors, processVars>>

(* A body over the cap, though not by its header; a body that never ends.  *)
RefuseBody(v, o) ==
    /\ o \in {"payload_too_large", "internal"}
    /\ Answer(v, o)
    /\ UNCHANGED <<vars, healthVars, rawPayload>>

NoteMalformed == malformedIngest' = malformedIngest + 1

NoteFailure(v) ==
    adapterFailures' = [adapterFailures EXCEPT ![v] = @ + 1]

NotJson(v) ==
    /\ Answer(v, "not_json")
    /\ NoteMalformed
    /\ UNCHANGED <<vars, adapterFailures, unknownFields, rawPayload>>

(* Mutant: undeclared fields are counted whatever the schema said.         *)
NoteAlways(v, extra, parsed) ==
    unknownFields' = [unknownFields EXCEPT ![v] = @ + extra]

(* The adapter notes a payload's undeclared fields once its schema has     *)
(* accepted it, whatever becomes of the payload after that.                *)
NoteAcceptedPayload(v, extra, parsed) ==
    unknownFields' = IF parsed
                     THEN [unknownFields EXCEPT ![v] = @ + extra]
                     ELSE unknownFields

(* The adapter refuses: its schema does, or a value has no canonical form. *)
DecodeFails(v, o, extra) ==
    /\ o \in {"malformed_payload", "unmappable_value"}
    /\ Answer(v, o)
    /\ NoteAcceptedPayload(v, extra, o = "unmappable_value")
    /\ NoteMalformed
    /\ NoteFailure(v)
    /\ UNCHANGED <<vars, rawPayload>>

(* The counters a vendor's payload may carry. *)
CountersOf(v) ==
    UNION {Counters(r) : r \in {r \in Robot : VendorOf[r] = v}}

(* Mutant: the vendor of a registered robot is not compared.               *)
RegisteredAnywhere(v, r, home) == r \in Robot /\ home

(* Whether upsert takes the envelope: a manifest robot, of that vendor and *)
(* at its own site.                                                        *)
Registered(v, r, home) ==
    /\ r \in Robot
    /\ VendorOf[r] = v
    /\ home

(* Mutant: the newest payload received, accepted or not.                   *)
RetainLatest(r, s) == [rawPayload EXCEPT ![r] = [sequence |-> s]]

(* The payload is retained with the reading it was decoded to, if that was *)
(* accepted.                                                               *)
RetainPayload(r, s) ==
    IF Newer(r, s) THEN [rawPayload EXCEPT ![r] = [sequence |-> s]]
                   ELSE rawPayload

Reading(v, r, s, extra) ==
    /\ awaiting[v] > 0
    /\ Registered(v, r, TRUE)
    /\ Ingest(r, s)
    /\ Answer(v, "ok")
    /\ NoteAcceptedPayload(v, extra, TRUE)
    /\ rawPayload' = RetainPayload(r, s)
    /\ UNCHANGED <<malformedIngest, adapterFailures>>

(* The store throws: a 404 that no health counter shows. *)
NotRegistered(v, r, home, extra) ==
    /\ awaiting[v] > 0
    /\ ~Registered(v, r, home)
    /\ Answer(v, "not_found")
    /\ NoteAcceptedPayload(v, extra, TRUE)
    /\ UNCHANGED <<vars, malformedIngest, adapterFailures, rawPayload>>
-----------------------------------------------------------------------------
(* Consoles.  A handshake is taken until streams.close. *)
Open(c) ==
    /\ phase = "running"
    /\ c \notin connected
    /\ connected' = connected \cup {c}
    /\ registered' = registered \cup {c}
    /\ UNCHANGED <<vars, awaiting, healthVars, rawPayload, phase, answers>>

RegisteredWithout(c) == registered \ {c}

(* A socket closes, by itself or because it was asked to. *)
Gone(c) ==
    /\ c \in connected
    /\ connected' = connected \ {c}
    /\ registered' = RegisteredWithout(c)
    /\ UNCHANGED <<vars, awaiting, healthVars, rawPayload, phase, answers>>

SweepTicks ==
    /\ phase = "running"
    /\ Tick
    /\ UNCHANGED boundaryVars

TimePasses ==
    /\ Elapse \/ \E d \in 1..MaxStepBack : StepBack(d)
    /\ UNCHANGED boundaryVars
-----------------------------------------------------------------------------
(* The first signal: sweep, fan-out and every console's socket are closed  *)
(* in one callback; main's flag makes a further signal no second stop.     *)
Stop ==
    /\ phase = "running"
    /\ StopSweep
    /\ registered' = {}
    /\ phase' = "draining"
    /\ UNCHANGED <<awaiting, healthVars, rawPayload, connected, answers>>

(* Mutant: the listener does not wait for its consoles.                    *)
DrainedAtOnce == TRUE

Drained == connected = {}

CloseServer ==
    /\ phase = "draining"
    /\ Drained
    /\ phase' = "closing"
    /\ UNCHANGED <<vars, awaiting, healthVars, rawPayload, registered,
                   connected, answers>>

(* server.close calls back once no request is under way. *)
Stopped ==
    /\ phase = "closing"
    /\ \A v \in Vendor : awaiting[v] = 0
    /\ phase' = "stopped"
    /\ UNCHANGED <<vars, awaiting, healthVars, rawPayload, registered,
                   connected, answers>>

BodyEnds(v) ==
    \/ \E o \in Outcome : RefuseBody(v, o)
    \/ NotJson(v)
    \/ \E o \in Outcome, extra \in Undeclared[v] : DecodeFails(v, o, extra)
    \/ \E r \in Robot, extra \in Undeclared[v] :
          \E s \in CountersOf(v) : Reading(v, r, s, extra)
    \/ \E r \in Robot \cup {Stranger}, home \in BOOLEAN, extra \in Undeclared[v] :
          NotRegistered(v, r, home, extra)

BoundaryNext ==
    \/ RefuseVendor
    \/ \E v \in Vendor : RefuseDeclared(v)
    \/ \E v \in Vendor : AwaitBody(v)
    \/ \E v \in Vendor : BodyEnds(v)
    \/ \E c \in Console : Open(c) \/ Gone(c)
    \/ SweepTicks
    \/ TimePasses
    \/ Stop
    \/ CloseServer
    \/ Stopped

(* Once asked to close, a socket does: ws drops a peer that does not       *)
(* answer.  That a body ends or its connection is lost is assumed of the   *)
(* sender, since a closing server no longer times requests out.            *)
Fairness ==
    /\ \A c \in Console : WF_allVars(phase # "running" /\ Gone(c))
    /\ \A v \in Vendor : WF_allVars(BodyEnds(v))
    /\ WF_allVars(CloseServer)
    /\ WF_allVars(Stopped)

BoundarySpec == BoundaryInit /\ [][BoundaryNext]_allVars /\ Fairness
-----------------------------------------------------------------------------
(***************************************************************************)
(* What GET /api/health says.                                              *)
(***************************************************************************)
(* Mutant: the first robot folded in speaks for its vendor.                *)
MergeKeepingFirst(rollup, robot) ==
    IF rollup = Null THEN robot
    ELSE IF ~rollup.evaluated \/ ~robot.evaluated THEN NotEvaluated
    ELSE Evaluated(rollup.gaps, rollup.duplicates)

MergeSequenceHealth(rollup, robot) ==
    IF rollup = Null THEN robot
    ELSE IF ~rollup.evaluated \/ ~robot.evaluated THEN NotEvaluated
    ELSE Evaluated(rollup.gaps + robot.gaps,
                   rollup.duplicates + robot.duplicates)

Heard(v) == {r \in Robot : VendorOf[r] = v /\ Observed(r)}

(* The fold over a vendor's heard robots; Null while there is none. *)
SequenceByVendor(v) ==
    FoldSet(LAMBDA r, rollup : MergeSequenceHealth(rollup, continuity[r]),
            Null, Heard(v))

(* byAdapter's entry; a vendor not heard from has nothing to evaluate. *)
ByAdapter(v) ==
    [failures |-> adapterFailures[v],
     unknownFields |-> unknownFields[v],
     sequence |-> IF SequenceByVendor(v) = Null THEN NotEvaluated
                  ELSE SequenceByVendor(v)]
-----------------------------------------------------------------------------
(* Refusals around the store are invisible to it: whatever arrives, in     *)
(* whatever order bodies end, and however the process stops, the store,    *)
(* the sweep and fan-out's marks behave as FleetState says.                *)
ImplementsStore == Spec

Answers(o) == SumFunctionOnSet([v \in Vendor |-> answers[v][o]], Vendor)

DeliveredTo(v) == SumFunctionOnSet(delivered, {r \in Robot : VendorOf[r] = v})

(* Every answer is counted where the health response's comments say and    *)
(* nowhere else: malformed ingest is the bodies no adapter accepted, a     *)
(* failure is an adapter's, unknown fields are only of payloads a schema   *)
(* accepted, and each 204 is one reading the store was given.              *)
RequestsAccounted ==
    /\ malformedIngest = Answers("not_json") + Answers("malformed_payload")
                           + Answers("unmappable_value")
    /\ \A v \in Vendor :
          LET a == answers[v] IN
          /\ adapterFailures[v] = a["malformed_payload"] + a["unmappable_value"]
          /\ unknownFields[v] <= a["ok"] + a["unmappable_value"] + a["not_found"]
          /\ DeliveredTo(v) = a["ok"]

(* A vendor's continuity is its robots' together: evaluated exactly when   *)
(* its dialect counts and some robot was heard, and then the counters that *)
(* went by are the accepted readings plus the gaps.                        *)
HealthTellsFleet ==
    \A v \in Vendor :
        LET told == ByAdapter(v).sequence
            spans == [r \in Heard(v) |-> sequence[r] - first[r] + 1]
        IN  /\ told.evaluated <=> Heard(v) # {} /\ Heard(v) \subseteq Numbered
            /\ told.evaluated =>
                  /\ SumFunctionOnSet(spans, Heard(v))
                        = SumFunctionOnSet(accepted, Heard(v)) + told.gaps
                  /\ told.duplicates = SumFunctionOnSet(repeated, Heard(v))

(* The payload a technician is shown is the one the shown state came from: *)
(* repeats, late arrivals and refused payloads never replace it.           *)
EvidenceMatchesState ==
    \A r \in Robot :
        /\ Observed(r) <=> rawPayload[r] # Null
        /\ Observed(r) => rawPayload[r].sequence = sequence[r]

(* While the server runs, every open socket is one that fan-out serves;    *)
(* from the signal on none is, and the HTTP server outlives the last       *)
(* socket (ADR 8).                                                         *)
ConsolesAreServed ==
    /\ registered = IF phase = "running" THEN connected ELSE {}
    /\ phase \in {"closing", "stopped"} => connected = {}

(* A stop is clean at every moment of it, and the process does end.        *)
StopIsOrderly ==
    [](ConsolesAreServed /\ (phase = "draining" => <>(phase = "stopped")))
=============================================================================
