-------------------------- MODULE CanonicalEnvelope --------------------------
(***************************************************************************)
(* The wire contract a robot's state is served under and decoded by        *)
(* (packages/contracts envelopeSchema, capabilitySchemas, primitives;      *)
(* packages/server fleetResponse).  What a field's type     *)
(* alone says is left to the types; ranges, vocabularies, references and   *)
(* the encoding of capabilities are kept.                                  *)
(***************************************************************************)
EXTENDS Dialects, Filtering, FiniteSets

CONSTANT MaxPosition    \* MAX_POSITION_METRES, in millimetres

ASSUME PositionAssumption == MaxPosition \in Nat

CAPABILITY_NAMES == <<"dock", "lidarHealth", "waterLevel", "sequence">>

CAPABILITY_KINDS == [dock |-> "operator", lidarHealth |-> "operator",
                     waterLevel |-> "operator", sequence |-> "diagnostic"]

RobotStatus == {"idle", "busy", "charging", "fault", "unknown"}
HealthSeverity == {"nominal", "degraded", "critical"}
FreshnessStates == {"live", "stale", "unreachable", "unknown"}

(* The payload schema of one capability. *)
CapabilityConforms(name, payload) ==
    CASE name = "dock" -> payload.docked \in BOOLEAN
      [] name = "lidarHealth" -> /\ payload.severity \in HealthSeverity
                                 /\ payload.rpm >= 0 /\ payload.rpm <= 10000
      [] name = "waterLevel" -> payload.percent >= 0 /\ payload.percent <= 100
      [] name = "sequence" -> payload.value >= 0

InCanonicalOrder(names) ==
    Filtered(CAPABILITY_NAMES,
             {i \in 1..Len(CAPABILITY_NAMES) : CAPABILITY_NAMES[i] \in names})

(* Declared capabilities as wire entries, in canonical order. *)
EncodeCapabilities(capabilities) ==
    LET declared == InCanonicalOrder(DOMAIN capabilities)
    IN  [i \in DOMAIN declared |->
            [name |-> declared[i], payload |-> capabilities[declared[i]]]]

NamesOf(entries) == {entries[i].name : i \in DOMAIN entries}

(* Two entries for one capability are refused, not resolved. *)
CapabilitiesConform(entries) ==
    /\ Cardinality(NamesOf(entries)) = Len(entries)
    /\ \A i \in DOMAIN entries :
          CapabilityConforms(entries[i].name, entries[i].payload)

(* Entries as the record of what is declared. *)
ToCapabilities(entries) ==
    [name \in NamesOf(entries) |->
        (CHOOSE e \in {entries[i] : i \in DOMAIN entries} : e.name = name).payload]

CoreConforms(core) ==
    /\ core.connectivity \in {"online", "offline", "unknown"}
    /\ core.batteryPercent # Null =>
          core.batteryPercent >= 0 /\ core.batteryPercent <= 1000000
    /\ core.position # Null =>
          /\ core.position.x \in -MaxPosition..MaxPosition
          /\ core.position.y \in -MaxPosition..MaxPosition
    /\ core.status \in RobotStatus
    /\ core.health \in HealthSeverity

(* canonicalEnvelopeSchema, of a wire envelope. *)
EnvelopeConforms(wire) ==
    /\ CoreConforms(wire.core)
    /\ wire.freshness \in FreshnessStates
    /\ CapabilitiesConform(wire.capabilities)

EncodeCanonicalEnvelope(envelope) ==
    [envelope EXCEPT !.capabilities = EncodeCapabilities(@)]

DecodeCanonicalEnvelope(wire) == [wire EXCEPT !.capabilities = ToCapabilities(@)]

(* Freshness is the one field the adapter may not set. *)
WithFreshness(e, freshness) ==
    [robotId |-> e.robotId, siteId |-> e.siteId, vendorId |-> e.vendorId,
     model |-> e.model, adapterId |-> e.adapterId, reportedAt |-> e.reportedAt,
     receivedAt |-> e.receivedAt, capabilities |-> e.capabilities,
     core |-> e.core, freshness |-> freshness]

(* A robot of the manifest that has never reported. *)
RegisteredRobotState(id) ==
    [robotId |-> id.robotId, siteId |-> id.siteId, vendorId |-> id.vendor,
     freshness |-> "unknown"]

Observed(state) == "receivedAt" \in DOMAIN state

ToWireRobot(state) ==
    IF Observed(state) THEN EncodeCanonicalEnvelope(state) ELSE state

EncodeFleetSnapshot(sites, states) ==
    [sites |-> sites, robots |-> {ToWireRobot(s) : s \in states}]

(* fleetSnapshotSchema: one robot that does not conform, or whose site the *)
(* directory does not list, and the whole snapshot is refused.             *)
SnapshotConforms(snapshot) ==
    \A wire \in snapshot.robots :
        /\ wire.siteId \in snapshot.sites
        /\ IF Observed(wire) THEN EnvelopeConforms(wire)
           ELSE wire.freshness = "unknown"
==============================================================================
