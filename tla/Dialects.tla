------------------------------- MODULE Dialects -------------------------------
(***************************************************************************)
(* The three vendor dialects from both sides: what the simulator builds    *)
(* from a robot's state (packages/simulator vendors) and what the adapters *)
(* accept, refuse and make of it (packages/adapters vendors).              *)
(*                                                                         *)
(* Units.  State: hundred-thousandths and tenths of a millimetre.  A and   *)
(* C: ten-thousandths and millimetres.  B: percent and centimetres.        *)
(* Canonical: ten-thousandths of a percent and millimetres.  A payload's   *)
(* nested objects are one record here; robot_id, site and model are one    *)
(* field, id; a timestamp is the instant it spells, or Null.               *)
(***************************************************************************)
EXTENDS Integers

CONSTANT Null

Vendors == {"A", "B", "C"}    \* SUPPORTED_VENDORS

(* Math.round(value / unit): to the nearest, halves up. *)
Rounded(value, unit) == (value + unit \div 2) \div unit
-----------------------------------------------------------------------------
StatusCode == [idle |-> 0, busy |-> 1, charging |-> 2, fault |-> 3]
HealthCode == [nominal |-> 0, degraded |-> 1, critical |-> 2]

BuildVendorA(id, p, now) ==
    [id |-> id, seq |-> p.sequence, timestamp |-> now,
     level |-> Rounded(p.battery, 10), x_m |-> Rounded(p.x, 10),
     y_m |-> Rounded(p.y, 10), state |-> p.status, health |-> p.health,
     docked |-> p.docked, dock_id |-> IF p.docked THEN id.dockId ELSE Null,
     rpm |-> p.lidarRpm, fault |-> p.lidarFaulted]

BuildVendorB(id, p, now) ==
    [id |-> id, ts |-> now, batt_pct |-> Rounded(p.battery, 1000),
     x_cm |-> Rounded(p.x, 100), y_cm |-> Rounded(p.y, 100),
     status_code |-> StatusCode[p.status], health_code |-> HealthCode[p.health],
     dock_state |-> IF p.docked THEN 1 ELSE 0]

BuildVendorC(id, p, now) ==
    [id |-> id, seq |-> p.sequence, timestamp |-> now,
     level |-> Rounded(p.battery, 10), x_m |-> Rounded(p.x, 10),
     y_m |-> Rounded(p.y, 10), state |-> p.status, health |-> p.health,
     docked |-> p.docked, dock_id |-> IF p.docked THEN id.dockId ELSE Null,
     level_pct |-> Rounded(p.waterLevel, 1000)]

BuildPayload(id, p, now) ==
    CASE id.vendor = "A" -> BuildVendorA(id, p, now)
      [] id.vendor = "B" -> BuildVendorB(id, p, now)
      [] id.vendor = "C" -> BuildVendorC(id, p, now)
-----------------------------------------------------------------------------
States == {"idle", "busy", "charging", "fault"}    \* VENDOR_A_STATES, C's too
Levels == {"nominal", "degraded", "critical"}

(* What the schemas require beyond a field's type.  No schema bounds a     *)
(* coordinate, and B's leaves its codes to the adapter.                    *)
SchemaA(p) ==
    /\ p.seq >= 0
    /\ p.level >= 0 /\ p.level <= 10000
    /\ p.state \in States
    /\ p.health \in Levels
    /\ p.rpm >= 0 /\ p.rpm <= 10000

SchemaB(p) == p.batt_pct >= 0 /\ p.batt_pct <= 100

(* Mutant: C's tank may read past full. *)
SchemaCLoose(p) ==
    /\ p.seq >= 0
    /\ p.level >= 0 /\ p.level <= 10000
    /\ p.state \in States
    /\ p.health \in Levels

SchemaC(p) == SchemaCLoose(p) /\ p.level_pct >= 0 /\ p.level_pct <= 100

STATUS_BY_CODE == [c \in 0..3 |->
    CASE c = 0 -> "idle" [] c = 1 -> "busy" [] c = 2 -> "charging" [] c = 3 -> "fault"]

SEVERITY_BY_CODE == [c \in 0..2 |->
    CASE c = 0 -> "nominal" [] c = 1 -> "degraded" [] c = 2 -> "critical"]

LidarSeverity(faulted) == IF faulted THEN "critical" ELSE "nominal"

(* A fraction as a percentage. *)
ToBatteryPercent(fraction) == fraction * 100

ToMetres(centimetres) == centimetres * 10

(* The parts every adapter fills in alike: no dialect reports link state,  *)
(* the map frame is the site, and a heading has no canonical home.         *)
Core(site, percent, x, y, status, severity) ==
    [connectivity |-> "unknown", batteryPercent |-> percent,
     position |-> [frame |-> site, x |-> x, y |-> y],
     status |-> status, health |-> severity]

Envelope(id, vendor, adapter, reportedAt, receivedAt, capabilities, core) ==
    [robotId |-> id.robotId, siteId |-> id.siteId, vendorId |-> vendor,
     model |-> id.model, adapterId |-> adapter, reportedAt |-> reportedAt,
     receivedAt |-> receivedAt, capabilities |-> capabilities, core |-> core]

Ok(envelope) == [kind |-> "ok", envelope |-> envelope]
Failure(kind) == [kind |-> kind, envelope |-> Null]

Dock(docked, dockId) == [docked |-> docked, dockId |-> dockId]

DecodeVendorA(p, receivedAt) ==
    IF ~SchemaA(p) THEN Failure("malformed_payload")
    ELSE IF p.timestamp = Null THEN Failure("unmappable_value")
    ELSE Ok(Envelope(p.id, "A", "vendor-a", p.timestamp, receivedAt,
                     [dock |-> Dock(p.docked, p.dock_id),
                      lidarHealth |-> [severity |-> LidarSeverity(p.fault),
                                       rpm |-> p.rpm],
                      sequence |-> [value |-> p.seq]],
                     Core(p.id.siteId, ToBatteryPercent(p.level), p.x_m, p.y_m,
                          p.state, p.health)))

(* B names no dock and has no counter. *)
DecodeVendorB(p, receivedAt) ==
    IF ~SchemaB(p) THEN Failure("malformed_payload")
    ELSE IF \/ p.ts = Null
            \/ p.status_code \notin DOMAIN STATUS_BY_CODE
            \/ p.health_code \notin DOMAIN SEVERITY_BY_CODE
            \/ p.dock_state \notin {0, 1}
    THEN Failure("unmappable_value")
    ELSE Ok(Envelope(p.id, "B", "vendor-b", p.ts, receivedAt,
                     [dock |-> Dock(p.dock_state = 1, Null)],
                     Core(p.id.siteId, p.batt_pct * 10000, ToMetres(p.x_cm),
                          ToMetres(p.y_cm), STATUS_BY_CODE[p.status_code],
                          SEVERITY_BY_CODE[p.health_code])))

DecodeVendorC(p, receivedAt) ==
    IF ~SchemaC(p) THEN Failure("malformed_payload")
    ELSE IF p.timestamp = Null THEN Failure("unmappable_value")
    ELSE Ok(Envelope(p.id, "C", "vendor-c", p.timestamp, receivedAt,
                     [dock |-> Dock(p.docked, p.dock_id),
                      waterLevel |-> [percent |-> p.level_pct],
                      sequence |-> [value |-> p.seq]],
                     Core(p.id.siteId, ToBatteryPercent(p.level), p.x_m, p.y_m,
                          p.state, p.health)))

(* The registry: the vendor the request's path named decides the adapter. *)
Decode(vendor, p, receivedAt) ==
    CASE vendor = "A" -> DecodeVendorA(p, receivedAt)
      [] vendor = "B" -> DecodeVendorB(p, receivedAt)
      [] vendor = "C" -> DecodeVendorC(p, receivedAt)
==============================================================================
