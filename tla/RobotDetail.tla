----------------------------- MODULE RobotDetail -----------------------------
(***************************************************************************)
(* One robot's detail: the response the server makes of what it keeps, the *)
(* read model, the fleet row laid over it, and the page's sections         *)
(* (server http robotResponse; web entities/robot fromEnvelope, selectors; *)
(* features/robot robotDetailPage, capabilityPanels).                      *)
(***************************************************************************)
EXTENDS ConsoleRow

(* encodeRobotDetail: an observed robot's evidence goes with its envelope. *)
EncodeRobotDetail(state, sequenceHealth, rawPayload) ==
    [envelope |-> ToWireRobot(state), sequenceHealth |-> sequenceHealth,
     rawPayload |-> IF Observed(state) THEN rawPayload ELSE Null]

WithEvidence(row, diagnostics, rawPayload) ==
    [f \in DOMAIN row \cup {"diagnostics", "rawPayload"} |->
        CASE f = "diagnostics" -> diagnostics
          [] f = "rawPayload" -> rawPayload
          [] OTHER -> row[f]]

(* toRobotDetail, and toRegisteredRobotDetail for want of telemetry. *)
ToRobotDetail(wire) ==
    IF Observed(wire.envelope)
    THEN LET e == DecodeCanonicalEnvelope(wire.envelope)
         IN  WithEvidence(ToRobot(e), Diagnostics(e, wire.sequenceHealth), wire.rawPayload)
    ELSE WithEvidence(ToRegisteredRobot(wire.envelope), Null, Null)

(* Mutant: what the robot declared stays as it was fetched. *)
OverlayCore(detail, row) ==
    WithEvidence([row EXCEPT !.capabilities = detail.capabilities],
                 detail.diagnostics, detail.rawPayload)

(* reconcileDetailWithRow: diagnostics and payload stay as fetched. *)
ReconcileDetailWithRow(detail, row) ==
    WithEvidence(row, detail.diagnostics, detail.rawPayload)
-----------------------------------------------------------------------------
(* DetailHeader: the freshness label is withheld while the stream is down. *)
DetailHeader(detail, connected) ==
    [id |-> detail.id, chip |-> StatusPresentation(detail),
     freshness |-> IF connected THEN detail.freshness ELSE Null,
     siteId |-> detail.siteId, vendor |-> detail.vendor, model |-> detail.model]

SummarySection(detail) ==
    [battery |-> BatteryDisplay(detail), position |-> PositionDisplay(detail),
     status |-> StatusPresentation(detail).label, health |-> detail.health,
     connectivity |-> detail.connectivity, lastSeen |-> detail.lastSeenAt]

(* CAPABILITY_PANELS: what each panel reads of the declaration. *)
CapabilityPanel(name, has) ==
    [name |-> name,
     rows |-> CASE name = "dock" -> <<has["dock"].docked, has["dock"].dockId>>
                [] name = "lidarHealth" -> <<has["lidarHealth"].severity,
                                             has["lidarHealth"].rpm>>
                [] name = "waterLevel" -> <<has["waterLevel"].percent>>]

CapabilitiesSection(detail, disabled) ==
    LET shown == PanelCapabilities(detail, disabled)
    IN  [i \in DOMAIN shown |-> CapabilityPanel(shown[i], detail.capabilities)]

(* selectSequenceGapDisplay and selectSequenceDuplicateDisplay: nothing    *)
(* counted is not a count of zero.                                         *)
SequenceDisplay(detail) ==
    IF detail.diagnostics # Null /\ detail.diagnostics.sequenceHealth.evaluated
    THEN [gaps |-> detail.diagnostics.sequenceHealth.gaps,
          duplicates |-> detail.diagnostics.sequenceHealth.duplicates]
    ELSE Null

DiagnosticsSection(detail) ==
    IF detail.diagnostics = Null THEN Null
    ELSE [reading |-> detail.diagnostics, counted |-> SequenceDisplay(detail)]

(* describeSource: the adapter and reading the footer names. *)
DescribeSource(detail) ==
    IF detail.diagnostics = Null THEN Null
    ELSE [adapter |-> detail.diagnostics.adapterId,
          sequence |-> detail.diagnostics.sequence,
          receivedAt |-> detail.diagnostics.receivedAt]

RobotDetailBody(detail, persona, connected, disabled) ==
    [header |-> DetailHeader(detail, connected),
     summary |-> SummarySection(detail),
     capabilities |-> CapabilitiesSection(detail, disabled),
     diagnostics |-> IF persona = "technician" THEN DiagnosticsSection(detail) ELSE Null,
     rawPayload |-> IF persona = "technician" THEN detail.rawPayload ELSE Null,
     source |-> DescribeSource(detail)]
==============================================================================
