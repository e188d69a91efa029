---------------------------- MODULE TelemetryPath ----------------------------
(***************************************************************************)
(* One robot's readings from the simulator to the console's row and detail *)
(* page: evolve, build the payload, decode, store, serve, decode, present.  The *)
(* delivery in between - late, repeated, lost readings, consoles that join *)
(* - is in FleetState, TelemetryDelivery and FleetStream; here every       *)
(* reading arrives, and the console reads what is stored.                  *)
(*                                                                         *)
(* Besides the simulator, the robot may be a real one whose firmware and   *)
(* documentation differ: a payload with one field distorted.               *)
(***************************************************************************)
EXTENDS SimulatedRobot, RobotDetail

CONSTANTS
    Identity,     \* identities the robot may have: robotId, siteId, vendor, ...
    Peer,         \* identity of a registered robot that never reports
    Distortions,  \* per vendor: <<field, value>> a payload may have instead
    Disabled,     \* panels the tenant has switched off
    MaxReadings,  \* bound: readings in a run
    OpenedBy      \* bound: readings after which no page is opened

(* The fields of a payload, of a detail's diagnostics and of its source,   *)
(* and what they may hold, distorted or not.                               *)
Fields ==
    [A |-> {"id", "seq", "timestamp", "level", "x_m", "y_m", "state", "health",
            "docked", "dock_id", "rpm", "fault"},
     B |-> {"id", "ts", "batt_pct", "x_cm", "y_cm", "status_code", "health_code",
            "dock_state"},
     C |-> {"id", "seq", "timestamp", "level", "x_m", "y_m", "state", "health",
            "docked", "dock_id", "level_pct"},
     diagnostics |-> {"adapterId", "sequence", "sequenceHealth",
                      "vendorReportedAt", "receivedAt", "clockDelta"},
     source |-> {"adapter", "sequence", "receivedAt"}]

FieldValue ==
    Identity \cup {i.dockId : i \in Identity} \cup Int \cup BOOLEAN \cup States
        \cup Levels \cup {Null} \cup {d[2] : d \in UNION {Distortions[v] : v \in Vendors}}
        \cup {"vendor-a", "vendor-b", "vendor-c"}
        \cup [evaluated : {TRUE}, gaps : {0}, duplicates : {0}]
        \cup [evaluated : {FALSE}]

(* Null is none of the values and records it stands beside; a distorted    *)
(* instant does not parse; one panel has a tenant's flag                   *)
(* (disabledPanelsFor); and the contract can carry any place on a site.    *)
ASSUME PathAssumption ==
    /\ \A i \in Identity : i.vendor \in Vendors
    /\ Null \notin Int /\ Null \notin Levels
    /\ \A record \in DOMAIN Fields : Null \notin [Fields[record] -> FieldValue]
    /\ \A v \in Vendors : \A d \in Distortions[v] :
          d[1] \in {"timestamp", "ts"} => d[2] = Null
    /\ Disabled \subseteq {"lidarHealth"}
    /\ HalfExtent \div 10 <= MaxPosition
    /\ MaxReadings \in Nat /\ OpenedBy \in Nat

VARIABLES
    identity,   \* the robot's identity
    slot,       \* its state in the store: an envelope or its registration
    verdict,    \* what became of its last payload
    retained,   \* the payload the stored reading came in, verbatim
    visit,      \* the detail a page was opened with, or Null
    told        \* history: the state behind the stored reading, or Null when
                \* the payload stored was a distorted one

pathVars == <<robot, identity, slot, verdict, retained, visit, told>>

PathInit ==
    /\ SimInit
    /\ identity \in Identity
    /\ slot = RegisteredRobotState(identity)
    /\ verdict = "none"
    /\ retained = Null
    /\ visit = Null
    /\ told = Null

(* Emission and receipt instants: one second apart, the vendor's clock     *)
(* behind.                                                                 *)
SentAt == robot.sequence'
ReceivedAt == SentAt + 1

(* ingestTelemetry, of a payload nothing overtook: refused readings leave  *)
(* the store alone.                                                        *)
Ingest(payload, truth) ==
    LET decoded == Decode(identity.vendor, payload, ReceivedAt)
    IN  /\ verdict' = decoded.kind
        /\ IF decoded.kind = "ok"
           THEN /\ slot' = WithFreshness(decoded.envelope, "live")
                /\ retained' = payload
                /\ told' = truth
           ELSE UNCHANGED <<slot, retained, told>>

(* One emission of the simulator. *)
Report ==
    /\ robot.sequence < MaxReadings
    /\ EvolveRobot
    /\ Ingest(BuildPayload(identity, robot', SentAt), robot')
    /\ UNCHANGED <<identity, visit>>

(* One reading of a robot that speaks the dialect otherwise. *)
Misreport ==
    /\ robot.sequence < MaxReadings
    /\ EvolveRobot
    /\ \E d \in Distortions[identity.vendor] :
          Ingest([BuildPayload(identity, robot', SentAt) EXCEPT ![d[1]] = d[2]], Null)
    /\ UNCHANGED <<identity, visit>>

(* The sweep finds the robot has been silent. *)
GoQuiet ==
    /\ Observed(slot)
    /\ slot.freshness # "unreachable"
    /\ slot' = WithFreshness(slot, IF slot.freshness = "live" THEN "stale"
                                   ELSE "unreachable")
    /\ UNCHANGED <<robot, identity, verdict, retained, visit, told>>

(* The continuity the server states for the robot's dialect. *)
Continuity == IF Observed(slot) /\ "sequence" \in DOMAIN slot.capabilities
              THEN [evaluated |-> TRUE, gaps |-> 0, duplicates |-> 0]
              ELSE [evaluated |-> FALSE]

(* GET /api/robots/:id, decoded. *)
FetchedDetail == ToRobotDetail(EncodeRobotDetail(slot, Continuity, retained))

(* Somebody opens the robot's page; the detail is fetched once. *)
OpenDetail ==
    /\ visit = Null /\ robot.sequence <= OpenedBy
    /\ visit' = FetchedDetail
    /\ UNCHANGED <<robot, identity, slot, verdict, retained, told>>

PathNext == Report \/ Misreport \/ GoQuiet \/ OpenDetail

PathSpec == PathInit /\ [][PathNext]_pathVars
-----------------------------------------------------------------------------
(* GET /api/fleet, and the row the console makes of the robot. *)
Snapshot ==
    EncodeFleetSnapshot({identity.siteId, Peer.siteId},
                        {slot, RegisteredRobotState(Peer)})

Row == ToRow(ToWireRobot(slot))

(* What each vendor's robots declare (ADR 1). *)
Declared == CASE identity.vendor = "A" -> {"dock", "lidarHealth", "sequence"}
              [] identity.vendor = "B" -> {"dock"}
              [] identity.vendor = "C" -> {"dock", "waterLevel", "sequence"}

(* a and b differ by no more than half a unit. *)
Within(a, b, unit) == 2 * (a - b) \in -unit..unit

(* Half a unit of the dialect, for charge (in ten-thousandths of a percent *)
(* of ten) and for coordinates.                                            *)
ChargeUnit == IF identity.vendor = "B" THEN 10000 ELSE 100
PoseUnit == IF identity.vendor = "B" THEN 100 ELSE 10

(* The simulator never builds a payload its own adapter refuses: no field  *)
(* leaves its range, whatever the robot went through (simulatedRobot.ts:   *)
(* "no reading can carry an impossible value").                            *)
ReadingsAreTaken == [][Report => verdict' = "ok"]_pathVars

(* The row tells what the robot last reported, to within what its dialect  *)
(* can say: the charge, position and tank it had, its status and health as *)
(* they were, and of capabilities exactly those its vendor declares, a     *)
(* counter included.                                                       *)
RowTellsReading ==
    told # Null =>
        LET has == Row.capabilities
        IN  /\ Row.id = identity.robotId /\ Row.vendor = identity.vendor
            /\ Row.status = told.status /\ Row.health = told.health
            /\ Within(told.battery * 10, Row.batteryPercent, ChargeUnit)
            /\ Within(told.x, Row.position.x * 10, PoseUnit)
            /\ Within(told.y, Row.position.y * 10, PoseUnit)
            /\ DOMAIN has = Declared
            /\ has["dock"].docked = told.docked
            /\ has["dock"].dockId = IF told.docked /\ identity.vendor # "B"
                                    THEN identity.dockId ELSE Null
            /\ "lidarHealth" \in Declared =>
                  /\ told.lidarFaulted <=> has["lidarHealth"].severity = "critical"
                  /\ has["lidarHealth"].rpm = told.lidarRpm
            /\ "waterLevel" \in Declared =>
                  Within(told.waterLevel, has["waterLevel"].percent * 1000, 1000)
            /\ FetchedDetail.diagnostics.sequence =
                  IF "sequence" \in Declared THEN told.sequence ELSE Null

(* An open page follows the robot without a second fetch: header, summary  *)
(* and panels are those of a page opened now.  Its evidence is of one      *)
(* accepted reading: the payload decodes to the counter, instants and      *)
(* adapter stated, never newer than the values above it, and to those      *)
(* values when the instants agree.                                         *)
PageTellsReading ==
    visit # Null =>
        LET open == RobotDetailBody(ReconcileDetailWithRow(visit, Row),
                                    "technician", TRUE, Disabled)
            now == RobotDetailBody(FetchedDetail, "technician", TRUE, Disabled)
            source == open.source
            evidence == Decode(identity.vendor, open.rawPayload, source.receivedAt)
        IN  /\ open.header = now.header /\ open.summary = now.summary
            /\ open.capabilities = now.capabilities
            /\ source = Null <=> open.rawPayload = Null
            /\ source # Null =>
                  LET then == ToRobotDetail(EncodeRobotDetail(
                                  WithFreshness(evidence.envelope, Row.freshness),
                                  open.diagnostics.reading.sequenceHealth, open.rawPayload))
                  IN  /\ evidence.kind = "ok"
                      /\ open.diagnostics = DiagnosticsSection(then)
                      /\ then.lastSeenAt <= open.summary.lastSeen
                      /\ then.lastSeenAt = open.summary.lastSeen =>
                            SummarySection(then) = open.summary

(* What the console shows of a robot is what the robot reported (ADR 1:    *)
(* shared meaning preserved, nothing invented), on the row and on an open  *)
(* page beside the evidence for it.                                        *)
ConsoleTellsReading == RowTellsReading /\ PageTellsReading

(* An operator sees trouble and is not shown what is not current: a robot  *)
(* at fault is coloured so, one with a stopped lidar or a flat battery at  *)
(* least as degraded, a healthy one as neither; what is not live is "last  *)
(* known" with no charge and no position; and the panels are the declared  *)
(* operator capabilities the tenant has, the dock first.                   *)
TroubleIsVisible ==
    LET chip == StatusPresentation(Row)
        panels == PanelCapabilities(Row, Disabled)
    IN  /\ chip.current <=> slot.freshness = "live"
        /\ ~chip.current => BatteryDisplay(Row) = Null /\ PositionDisplay(Row) = Null
        /\ ~Observed(slot) => chip.variant = "unknown" /\ panels = << >>
        /\ told # Null =>
              /\ chip.label = told.status
              /\ told.status = "fault" <=> chip.variant = "fault"
              /\ (told.health # "nominal" \/ told.lidarFaulted \/ told.battery < 10000)
                    <=> chip.variant \in {"fault", "degraded"}
              /\ {panels[i] : i \in DOMAIN panels} = Declared \ ({"sequence"} \cup Disabled)
              /\ panels[1] = "dock"

(* What the server has accepted it can serve: the console can decode the   *)
(* fleet snapshot, in which one refused robot takes every other with it    *)
(* (primitives.ts: a coordinate out of range is "worth rejecting").        *)
AcceptedIsServable == SnapshotConforms(Snapshot)
==============================================================================
