------------------------------ MODULE ConsoleRow ------------------------------
(***************************************************************************)
(* What the console makes of one robot's wire state: the fleet row, the    *)
(* detail, and what selectors allow the pages to show of them              *)
(* (packages/web entities/robot fromEnvelope, selectors, model).           *)
(* Instants stay instants; wording is left out.                            *)
(***************************************************************************)
EXTENDS CanonicalEnvelope

(* toRobot. *)
ToRobot(e) ==
    [id |-> e.robotId, vendor |-> e.vendorId, siteId |-> e.siteId,
     observed |-> TRUE, model |-> e.model, connectivity |-> e.core.connectivity,
     position |-> e.core.position, capabilities |-> e.capabilities,
     status |-> e.core.status, health |-> e.core.health,
     freshness |-> e.freshness, batteryPercent |-> e.core.batteryPercent,
     lastSeenAt |-> e.reportedAt]

(* A robot never heard from has nothing but its registration. *)
ToRegisteredRobot(state) ==
    [id |-> state.robotId, vendor |-> state.vendorId, siteId |-> state.siteId,
     observed |-> FALSE, model |-> Null, connectivity |-> Null,
     position |-> Null, capabilities |-> << >>,
     status |-> "unknown", health |-> Null, freshness |-> state.freshness,
     batteryPercent |-> Null, lastSeenAt |-> Null]

ToRow(wire) ==
    IF Observed(wire) THEN ToRobot(DecodeCanonicalEnvelope(wire))
    ELSE ToRegisteredRobot(wire)

(* The diagnostics block of toRobotDetail. *)
Diagnostics(e, sequenceHealth) ==
    [adapterId |-> e.adapterId,
     sequence |-> IF "sequence" \in DOMAIN e.capabilities
                  THEN e.capabilities["sequence"].value ELSE Null,
     sequenceHealth |-> sequenceHealth,
     vendorReportedAt |-> e.reportedAt,
     receivedAt |-> e.receivedAt,
     clockDelta |-> e.receivedAt - e.reportedAt]

(* Mutant: severity never outranks the status. *)
VariantByStatus(status, health) ==
    CASE status = "fault" -> "fault" [] OTHER -> status

(* selectVariant: the chip's colour. *)
Variant(status, health) ==
    CASE status = "fault" \/ health = "critical" -> "fault"
      [] ~(status = "fault" \/ health = "critical") /\ health = "degraded" -> "degraded"
      [] OTHER -> status

(* selectStatusPresentation: anything but live is "last known". *)
StatusPresentation(row) ==
    [variant |-> Variant(row.status, row.health), label |-> row.status,
     current |-> row.freshness = "live"]

(* selectBatteryDisplay and selectPositionDisplay: a dash unless current. *)
BatteryDisplay(row) ==
    IF row.freshness # "live" THEN Null ELSE row.batteryPercent

PositionDisplay(row) == IF row.freshness # "live" THEN Null ELSE row.position

(* selectPanelCapabilities, with disabledPanelsFor(flags). *)
PanelCapabilities(row, disabled) ==
    InCanonicalOrder({name \in DOMAIN row.capabilities :
                         /\ CAPABILITY_KINDS[name] = "operator"
                         /\ name \notin disabled})
==============================================================================
