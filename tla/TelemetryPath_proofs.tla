------------------------- MODULE TelemetryPath_proofs -------------------------
(***************************************************************************)
(* For any site, rates and headings: a simulated robot never leaves its    *)
(* ranges, so no payload built from it is ever refused; and for any        *)
(* identities and distortions of their payloads, what the console shows of *)
(* a robot is what it reported.                                            *)
(***************************************************************************)
EXTENDS TelemetryPath, FoldTheorems

(* All that the lemmas need of the scales. *)
LEMMA Scales == Full \in Nat /\ HalfExtent \in Nat
BY DEF Full, HalfExtent

(* A coordinate on the site is on it after one reflected step. *)
LEMMA ReflectStays ==
    ASSUME NEW v \in Coordinates, NEW d \in Int,
           -2 * HalfExtent <= d, d <= 2 * HalfExtent
    PROVE  Reflect(v + d, HalfExtent) \in Coordinates
BY Scales DEF Coordinates, Reflect

LEMMA ClampStays ==
    ASSUME NEW v \in Int
    PROVE  Clamp(v, 0, Full) \in 0..Full
BY Scales DEF Clamp

(* No heading carries a robot further than straight ahead. *)
LEMMA StepBounded ==
    ASSUME NEW e \in Elapsed, NEW c \in -100..100
    PROVE  /\ 45 * e * c \in Int
           /\ -2 * HalfExtent <= 45 * e * c
           /\ 45 * e * c <= 2 * HalfExtent
<1>1. e \in Nat /\ e * 4500 <= 800000
  BY StepAssumption DEF Speed, HalfExtent
<1>2. 45 * e \in Nat /\ (45 * e) * 100 <= 800000
  BY <1>1
<1>3. \A k \in Nat : k * c <= k * 100 /\ -(k * 100) <= k * c
  <2>1. TAKE k \in Nat
  <2>2. k * (100 - c) >= 0 /\ k * (100 + c) >= 0
    OBVIOUS
  <2> QED BY <2>2
<1> QED BY <1>2, <1>3 DEF HalfExtent

(* One evolution keeps every value in its range. *)
LEMMA EvolveKeepsRange ==
    ASSUME RobotInRange, EvolveRobot
    PROVE  RobotInRange'
<1>1. PICK e \in Elapsed :
        LET battery == Clamp(robot.battery + ChargeRate(robot.status) * e, 0, Full)
        IN  \E status \in NextStatuses(robot.status, battery) :
            \E d \in IF status = "busy" THEN Directions ELSE {<<0, 0>>},
               stays \in IF robot.lidarFaulted /\ status # "fault"
                         THEN BOOLEAN ELSE {FALSE} :
                robot' = Evolved(robot, e, status, d, stays)
  BY DEF EvolveRobot
<1> DEFINE battery == Clamp(robot.battery + ChargeRate(robot.status) * e, 0, Full)
<1>2. PICK status \in NextStatuses(robot.status, battery),
           d \in Directions \cup {<<0, 0>>}, stays \in BOOLEAN :
        robot' = Evolved(robot, e, status, d, stays)
  BY <1>1
<1>3. e \in Nat
  BY StepAssumption
<1>4. battery \in 0..Full
  <2>1. ChargeRate(robot.status) \in Int
    BY DEF ChargeRate
  <2>2. ChargeRate(robot.status) * e \in Int
    BY <1>3, <2>1
  <2>3. robot.battery \in Int
    BY Scales DEF RobotInRange, RobotState
  <2> QED BY <2>2, <2>3, ClampStays
<1>5. status \in SimStatus
  BY DEF NextStatuses, SimStatus
<1>6. d[1] \in -100..100 /\ d[2] \in -100..100
  BY StepAssumption
<1> DEFINE x == Reflect(robot.x + 45 * e * d[1], HalfExtent)
<1> DEFINE y == Reflect(robot.y + 45 * e * d[2], HalfExtent)
<1>7. x \in Coordinates /\ y \in Coordinates
  <2>1. robot.x \in Coordinates /\ robot.y \in Coordinates
    BY DEF RobotInRange, RobotState
  <2> QED BY <1>6, <2>1, StepBounded, ReflectStays
<1> DEFINE faulted == status = "fault" \/ (robot.lidarFaulted /\ stays)
<1>8. faulted \in BOOLEAN
  OBVIOUS
<1>9. HealthFor(status, battery, faulted) \in SimHealth
  BY DEF HealthFor, SimHealth
<1> DEFINE water == Clamp(IF status = "busy" THEN robot.waterLevel - 60 * e
                          ELSE robot.waterLevel, 0, Full)
<1>10. water \in 0..Full
  <2>1. robot.waterLevel \in Int
    BY Scales DEF RobotInRange, RobotState
  <2> QED BY <1>3, <2>1, ClampStays
<1>11. robot.sequence + 1 \in Nat
  BY DEF RobotInRange, RobotState
<1>12. robot' = [battery |-> battery, x |-> x, y |-> y, status |-> status,
                 health |-> HealthFor(status, battery, faulted),
                 docked |-> status = "charging", lidarFaulted |-> faulted,
                 lidarRpm |-> IF faulted THEN 0 ELSE LidarRpm,
                 waterLevel |-> water, sequence |-> robot.sequence + 1]
  BY <1>2 DEF Evolved
<1> HIDE DEF battery, x, y, faulted, water
<1>13. robot' \in RobotState
  BY <1>4, <1>5, <1>7, <1>8, <1>9, <1>10, <1>11, <1>12 DEF RobotState
<1>14. (robot.health = "critical")' <=> (robot.status = "fault")'
  BY <1>12 DEF HealthFor
<1>15. robot.lidarFaulted' <=> (robot.lidarRpm = 0)'
  BY <1>8, <1>12 DEF LidarRpm
<1>16. robot.docked' <=> (robot.status = "charging")'
  BY <1>12
<1> QED BY <1>13, <1>14, <1>15, <1>16 DEF RobotInRange

-----------------------------------------------------------------------------
LEMMA BuiltInRange == SimInit => RobotInRange
<1> SUFFICES ASSUME NEW p \in InitialStates, robot = p
             PROVE  RobotInRange
  BY BuiltAssumption DEF SimInit
<1>1. /\ LeastCharge \in Nat /\ LeastTank \in Nat
      /\ StartExtent \in Nat /\ StartExtent <= HalfExtent
  BY DEF LeastCharge, LeastTank, StartExtent, HalfExtent
<1>2. /\ p.battery \in LeastCharge..Full /\ p.waterLevel \in LeastTank..Full
      /\ p.x \in -StartExtent..StartExtent /\ p.y \in -StartExtent..StartExtent
  BY DEF InitialStates
<1>3. p.battery \in 0..Full /\ p.waterLevel \in 0..Full
  BY <1>1, <1>2, Scales
<1>4. p.x \in Coordinates /\ p.y \in Coordinates
  BY <1>1, <1>2, Scales DEF Coordinates
<1>5. /\ p.status \in {"idle", "busy"} /\ p.health = "nominal"
      /\ p.docked = FALSE /\ p.lidarFaulted = FALSE
      /\ p.lidarRpm = LidarRpm /\ p.sequence = 0
  BY DEF InitialStates
<1>6. p \in RobotState
  <2>1. /\ p.status \in SimStatus /\ p.health \in SimHealth
        /\ p.lidarRpm \in {0, LidarRpm} /\ p.sequence \in Nat
    BY <1>5 DEF SimStatus, SimHealth
  <2>2. p.docked \in BOOLEAN /\ p.lidarFaulted \in BOOLEAN
    BY <1>5, Zenon
  <2>3. p = [battery |-> p.battery, x |-> p.x, y |-> p.y, status |-> p.status,
             health |-> p.health, docked |-> p.docked,
             lidarFaulted |-> p.lidarFaulted, lidarRpm |-> p.lidarRpm,
             waterLevel |-> p.waterLevel, sequence |-> p.sequence]
    BY Zenon DEF InitialStates
  <2> QED BY <1>3, <1>4, <2>1, <2>2, <2>3, Zenon DEF RobotState
<1> QED
  BY <1>5, <1>6 DEF RobotInRange, LidarRpm

(* What the simulator's payloads say is within what the schemas take. *)
LEMMA RoundedFits ==
    ASSUME NEW v \in 0..Full
    PROVE  /\ Rounded(v, 10) >= 0 /\ Rounded(v, 10) <= 10000
           /\ Rounded(v, 1000) >= 0 /\ Rounded(v, 1000) <= 100
<1>1. v \in Int /\ 0 <= v /\ v <= 100000
  BY DEF Full
<1>2. (v + 5) \div 10 >= 0 /\ (v + 5) \div 10 <= 10000
  BY <1>1
<1>3. (v + 500) \div 1000 >= 0 /\ (v + 500) \div 1000 <= 100
  BY <1>1
<1>4. 10 \div 2 = 5 /\ 1000 \div 2 = 500
  OBVIOUS
<1> QED BY <1>2, <1>3, <1>4 DEF Rounded

(* An adapter takes every payload its dialect's builder makes of a robot   *)
(* in range.                                                               *)
LEMMA AdaptersTake ==
    ASSUME NEW id, id.vendor \in Vendors, NEW p \in RobotState,
           NEW now \in Int, NEW at
    PROVE  Decode(id.vendor, BuildPayload(id, p, now), at).kind = "ok"
<1>1. now # Null
  BY PathAssumption
<1>2. /\ p.battery \in 0..Full /\ p.waterLevel \in 0..Full
      /\ p.sequence >= 0 /\ p.lidarRpm >= 0 /\ p.lidarRpm <= 10000
      /\ p.status \in States /\ p.health \in Levels
  BY DEF RobotState, SimStatus, SimHealth, States, Levels, LidarRpm
<1> DEFINE level == Rounded(p.battery, 10)
<1>3. level >= 0 /\ level <= 10000
  BY <1>2, RoundedFits
<1>4. CASE id.vendor = "A"
  <2> DEFINE payload == BuildVendorA(id, p, now)
  <2>1. payload.seq >= 0 /\ payload.state \in States /\ payload.health \in Levels
    BY <1>2 DEF BuildVendorA
  <2>2. payload.rpm >= 0 /\ payload.rpm <= 10000
    BY <1>2 DEF BuildVendorA
  <2>3. payload.level >= 0 /\ payload.level <= 10000
    BY <1>3 DEF BuildVendorA
  <2>4. payload.timestamp # Null
    BY <1>1 DEF BuildVendorA
  <2> HIDE DEF payload
  <2>5. SchemaA(payload)
    BY <2>1, <2>2, <2>3 DEF SchemaA
  <2>6. DecodeVendorA(payload, at).kind = "ok"
    BY <2>4, <2>5 DEF DecodeVendorA, Ok
  <2> QED BY <1>4, <2>6 DEF Decode, BuildPayload, payload
<1>5. CASE id.vendor = "B"
  <2> DEFINE payload == BuildVendorB(id, p, now)
  <2>1. SchemaB(payload) /\ payload.ts # Null
    BY <1>1, <1>2, RoundedFits DEF SchemaB, BuildVendorB
  <2>2. payload.status_code \in 0..3 /\ payload.health_code \in 0..2
    BY <1>2 DEF BuildVendorB, StatusCode, HealthCode, States, Levels
  <2>3. payload.dock_state \in {0, 1}
    BY DEF BuildVendorB
  <2>4. DOMAIN STATUS_BY_CODE = 0..3 /\ DOMAIN SEVERITY_BY_CODE = 0..2
    BY DEF STATUS_BY_CODE, SEVERITY_BY_CODE
  <2> HIDE DEF payload
  <2>5. DecodeVendorB(payload, at).kind = "ok"
    BY <2>1, <2>2, <2>3, <2>4 DEF DecodeVendorB, Ok
  <2> QED BY <1>5, <2>5 DEF Decode, BuildPayload, payload
<1>6. CASE id.vendor = "C"
  <2> DEFINE payload == BuildVendorC(id, p, now)
  <2>1. payload.seq >= 0 /\ payload.state \in States /\ payload.health \in Levels
    BY <1>2 DEF BuildVendorC
  <2>2. payload.level_pct >= 0 /\ payload.level_pct <= 100
    BY <1>2, RoundedFits DEF BuildVendorC
  <2>3. payload.level >= 0 /\ payload.level <= 10000
    BY <1>3 DEF BuildVendorC
  <2>4. payload.timestamp # Null
    BY <1>1 DEF BuildVendorC
  <2> HIDE DEF payload
  <2>5. SchemaC(payload)
    BY <2>1, <2>2, <2>3 DEF SchemaC, SchemaCLoose
  <2>6. DecodeVendorC(payload, at).kind = "ok"
    BY <2>4, <2>5 DEF DecodeVendorC, Ok
  <2> QED BY <1>6, <2>6 DEF Decode, BuildPayload, payload
<1> QED BY <1>4, <1>5, <1>6 DEF Vendors

(* What every step keeps: the robot in range, and the identity it had. *)
PathInv == RobotInRange /\ identity \in Identity

LEMMA PathInvHolds == PathSpec => []PathInv
<1>1. PathInit => PathInv
  BY BuiltInRange DEF PathInit, PathInv
<1>2. PathInv /\ [PathNext]_pathVars => PathInv'
  <2> SUFFICES ASSUME PathInv, [PathNext]_pathVars
               PROVE  PathInv'
    OBVIOUS
  <2>1. CASE Report
    BY <2>1, EvolveKeepsRange DEF Report, PathInv
  <2>2. CASE Misreport
    BY <2>2, EvolveKeepsRange DEF Misreport, PathInv
  <2>3. CASE GoQuiet
    BY <2>3 DEF GoQuiet, PathInv, RobotInRange
  <2>4. CASE OpenDetail
    BY <2>4 DEF OpenDetail, PathInv, RobotInRange
  <2>5. CASE UNCHANGED pathVars
    BY <2>5 DEF pathVars, PathInv, RobotInRange
  <2> QED BY <2>1, <2>2, <2>3, <2>4, <2>5 DEF PathNext
<1> QED BY <1>1, <1>2, PTL DEF PathSpec

(* Whatever a simulated robot goes through, its charge, tank, position and *)
(* states stay possible ones (simulatedRobot.ts: "battery and position are *)
(* bounded on every path").                                                *)
THEOREM RobotStaysInRange == PathSpec => []RobotInRange
BY PathInvHolds, PTL DEF PathInv

(* No adapter ever refuses what the simulator built, for any fleet, any    *)
(* rate StepAssumption allows and any length of run.                       *)
THEOREM ReadingsAreAlwaysTaken == PathSpec => ReadingsAreTaken
<1>1. PathInv /\ [PathNext]_pathVars => [Report => verdict' = "ok"]_pathVars
  <2> SUFFICES ASSUME PathInv, Report
               PROVE  verdict' = "ok"
    OBVIOUS
  <2>1. robot' \in RobotState
    BY EvolveKeepsRange DEF Report, PathInv, RobotInRange
  <2>2. SentAt \in Int
    BY <2>1 DEF SentAt, RobotState
  <2>3. identity.vendor \in Vendors
    BY PathAssumption DEF PathInv
  <2>4. Decode(identity.vendor, BuildPayload(identity, robot', SentAt),
               ReceivedAt).kind = "ok"
    BY <2>1, <2>2, <2>3, AdaptersTake
  <2> QED BY <2>4 DEF Report, Ingest
<1> QED BY <1>1, PathInvHolds, PTL DEF PathSpec, ReadingsAreTaken
-----------------------------------------------------------------------------
(* The wire: what is encoded comes back, capabilities and all.             *)

CapabilityNames == {"dock", "lidarHealth", "waterLevel", "sequence"}

(* The canonical order of some capabilities has them all, and the dock     *)
(* first.                                                                  *)
Orders(s, D) ==
    /\ \E m \in Nat : DOMAIN s = 1..m
    /\ \A k \in DOMAIN s : s[k] \in D
    /\ \A name \in D : \E k \in DOMAIN s : s[k] = name
    /\ \A j, k \in DOMAIN s : s[j] = s[k] => j = k
    /\ "dock" \in D => s[1] = "dock"
    /\ D = {} => s = <<>>

LEMMA OrderedAre ==
    ASSUME NEW D \in SUBSET CapabilityNames
    PROVE  Orders(InCanonicalOrder(D), D)
<1> DEFINE positions == {i \in 1..Len(CAPABILITY_NAMES) : CAPABILITY_NAMES[i] \in D}
<1>1. /\ Len(CAPABILITY_NAMES) = 4
      /\ CAPABILITY_NAMES[1] = "dock" /\ CAPABILITY_NAMES[2] = "lidarHealth"
      /\ CAPABILITY_NAMES[3] = "waterLevel" /\ CAPABILITY_NAMES[4] = "sequence"
  BY DEF CAPABILITY_NAMES
<1>2. positions \in SUBSET (1..Len(CAPABILITY_NAMES)) /\ Len(CAPABILITY_NAMES) \in Nat
  BY <1>1
<1>3. InCanonicalOrder(D) = Filtered(CAPABILITY_NAMES, positions)
  BY DEF InCanonicalOrder
<1>4. \A i \in 1..4 : i \in positions <=> CAPABILITY_NAMES[i] \in D
  BY <1>1
<1>5. positions \subseteq 1..4
  BY <1>1
<1> HIDE DEF positions
<1>6. PICK kept \in Seq(Int) :
         /\ Ascends(kept)
         /\ \A x : Shows(kept, x) <=> x \in positions
         /\ Filtered(CAPABILITY_NAMES, positions)
              = [k \in 1..Len(kept) |-> CAPABILITY_NAMES[kept[k]]]
  BY <1>2, FilteredTakes
<1> DEFINE s == [k \in 1..Len(kept) |-> CAPABILITY_NAMES[kept[k]]]
<1>7. Len(kept) \in Nat /\ DOMAIN s = 1..Len(kept)
  BY <1>6
<1>8. \A k \in 1..Len(kept) : kept[k] \in positions /\ kept[k] \in 1..4
  BY <1>5, <1>6 DEF Shows
<1>9. \A k \in 1..Len(kept) : s[k] \in D
  BY <1>4, <1>8
<1>10. ASSUME NEW name \in D
       PROVE  \E k \in 1..Len(kept) : s[k] = name
  <2>1. PICK i \in 1..4 : CAPABILITY_NAMES[i] = name
    BY <1>1 DEF CapabilityNames
  <2>2. i \in positions
    BY <1>4, <2>1
  <2>3. PICK k \in 1..Len(kept) : kept[k] = i
    BY <1>6, <2>2 DEF Shows
  <2> QED BY <2>1, <2>3
<1>12. ASSUME "dock" \in D PROVE s[1] = "dock"
  <2>1. 1 \in positions
    BY <1>1, <1>4, <1>12
  <2>2. PICK k \in 1..Len(kept) : kept[k] = 1
    BY <1>6, <2>1 DEF Shows
  <2>3. 1 \in 1..Len(kept)
    BY <1>7, <2>2
  <2>4. k = 1 \/ kept[1] < kept[k]
    BY <1>6, <1>7, <2>2, <2>3 DEF Ascends
  <2>5. kept[1] = 1
    BY <1>8, <2>2, <2>3, <2>4
  <2> QED BY <1>1, <2>3, <2>5
<1>13. ASSUME D = {} PROVE s = <<>>
  <2>1. Len(kept) = 0
    BY <1>7, <1>9, <1>13
  <2> QED BY <2>1
<1>14. \A j, k \in 1..Len(kept) : s[j] = s[k] => j = k
  <2>1. \A i, j \in 1..4 : CAPABILITY_NAMES[i] = CAPABILITY_NAMES[j] => i = j
    BY DEF CAPABILITY_NAMES
  <2>2. TAKE j, k \in 1..Len(kept)
  <2>3. s[j] = s[k] => kept[j] = kept[k]
    BY <1>8, <2>1
  <2>4. j < k => kept[j] < kept[k]
    BY <1>6 DEF Ascends
  <2>5. k < j => kept[k] < kept[j]
    BY <1>6 DEF Ascends
  <2>6. kept[j] \in Int /\ kept[k] \in Int /\ j \in Int /\ k \in Int
    BY <1>7, <1>8
  <2> QED BY <2>3, <2>4, <2>5, <2>6
<1>15. Orders(s, D)
  <2> HIDE DEF s
  <2> QED BY <1>7, <1>9, <1>10, <1>12, <1>13, <1>14 DEF Orders
<1> QED BY <1>3, <1>6, <1>15

(* Encoding what a robot declares and decoding it loses nothing.           *)
LEMMA Recode ==
    ASSUME NEW c, DOMAIN c \subseteq CapabilityNames, c = [name \in DOMAIN c |-> c[name]]
    PROVE  ToCapabilities(EncodeCapabilities(c)) = c
<1>1. PICK s : s = InCanonicalOrder(DOMAIN c) /\ Orders(s, DOMAIN c)
  BY OrderedAre
<1> DEFINE entries == [i \in DOMAIN s |-> [name |-> s[i], payload |-> c[s[i]]]]
           held == {entries[i] : i \in DOMAIN entries}
<1>2. EncodeCapabilities(c) = entries
  BY <1>1 DEF EncodeCapabilities
<1>3. NamesOf(entries) = DOMAIN c
  <2>1. NamesOf(entries) = {s[k] : k \in DOMAIN s}
    BY DEF NamesOf
  <2>2. {s[k] : k \in DOMAIN s} = DOMAIN c
    <3>1. /\ \A k \in DOMAIN s : s[k] \in DOMAIN c
          /\ \A name \in DOMAIN c : \E k \in DOMAIN s : s[k] = name
      BY <1>1 DEF Orders
    <3> QED BY <3>1
  <2> HIDE DEF entries
  <2> QED BY <2>1, <2>2
<1>4. ASSUME NEW name \in DOMAIN c
      PROVE  (CHOOSE e \in held : e.name = name).payload = c[name]
  <2>1. PICK i \in DOMAIN s : s[i] = name
    BY <1>1 DEF Orders
  <2>2. entries[i] \in held /\ entries[i].name = name
    BY <2>1
  <2>3. \A e \in held : e.name = name => e.payload = c[name]
    OBVIOUS
  <2> HIDE DEF held, entries
  <2> QED BY <2>2, <2>3
<1>5. ToCapabilities(entries)
        = [name \in NamesOf(entries) |-> (CHOOSE e \in held : e.name = name).payload]
  BY DEF ToCapabilities
<1> HIDE DEF held, entries
<1> QED BY <1>2, <1>3, <1>4, <1>5
(* The wire keeps an observed state as it is. *)
LEMMA WireKeeps ==
    ASSUME NEW e, NEW f, DOMAIN e.capabilities \subseteq CapabilityNames,
           e.capabilities = [name \in DOMAIN e.capabilities |-> e.capabilities[name]]
    PROVE  /\ Observed(WithFreshness(e, f))
           /\ Observed(ToWireRobot(WithFreshness(e, f)))
           /\ DecodeCanonicalEnvelope(ToWireRobot(WithFreshness(e, f)))
                = WithFreshness(e, f)
<1> DEFINE s == WithFreshness(e, f)
           w == EncodeCanonicalEnvelope(s)
<1>1. /\ "receivedAt" \in DOMAIN s /\ "capabilities" \in DOMAIN s
      /\ s.capabilities = e.capabilities
      /\ s = [field \in DOMAIN s |-> s[field]]
  BY DEF WithFreshness
<1> HIDE DEF s
<1>2. Observed(s) /\ ToWireRobot(s) = w
  BY <1>1 DEF Observed, ToWireRobot
<1>3. /\ DOMAIN w = DOMAIN s /\ w = [field \in DOMAIN w |-> w[field]]
      /\ w.capabilities = EncodeCapabilities(s.capabilities)
      /\ \A field \in DOMAIN s : field # "capabilities" => w[field] = s[field]
  BY <1>1 DEF EncodeCanonicalEnvelope
<1> HIDE DEF w
<1>4. Observed(w)
  BY <1>1, <1>3 DEF Observed
<1>5. ToCapabilities(w.capabilities) = s.capabilities
  BY <1>1, <1>3, Recode
<1>6. DecodeCanonicalEnvelope(w) = s
  <2>1. DecodeCanonicalEnvelope(w) = [w EXCEPT !.capabilities = s.capabilities]
    BY <1>5 DEF DecodeCanonicalEnvelope
  <2>2. [w EXCEPT !.capabilities = s.capabilities] = [field \in DOMAIN s |-> s[field]]
    BY <1>1, <1>3
  <2> QED BY <1>1, <2>1, <2>2
<1> QED BY <1>2, <1>4, <1>6 DEF s
(* No capability is named twice on the wire, and each conforms if it did.  *)
LEMMA EncodedConforms ==
    ASSUME NEW c, DOMAIN c \subseteq CapabilityNames,
           \A name \in DOMAIN c : CapabilityConforms(name, c[name])
    PROVE  CapabilitiesConform(EncodeCapabilities(c))
<1>1. PICK s : s = InCanonicalOrder(DOMAIN c) /\ Orders(s, DOMAIN c)
  BY OrderedAre
<1>2. PICK m \in Nat : DOMAIN s = 1..m
  BY <1>1 DEF Orders
<1>3. PICK entries : entries = [i \in 1..m |-> [name |-> s[i], payload |-> c[s[i]]]]
  OBVIOUS
<1>4. EncodeCapabilities(c) = entries
  BY <1>1, <1>2, <1>3 DEF EncodeCapabilities
<1>5. /\ DOMAIN entries = 1..m /\ Len(entries) = m
      /\ \A i \in 1..m : entries[i].name = s[i] /\ entries[i].payload = c[s[i]]
  BY <1>3
<1>6. PICK names : names = NamesOf(entries)
  OBVIOUS
<1>7. names = {s[i] : i \in 1..m}
  BY <1>5, <1>6 DEF NamesOf
<1>8. Cardinality(names) = m
  <2> DEFINE g == [i \in 1..m |-> s[i]]
  <2>1. g \in Bijection(1..m, names)
    BY <1>1, <1>2, <1>7 DEF Bijection, Injection, Surjection, IsInjective, Orders
  <2>2. IsFiniteSet(1..m) /\ Cardinality(1..m) = m
    BY FS_Interval
  <2> QED BY <2>1, <2>2, FS_Bijection DEF ExistsBijection
<1>9. ASSUME NEW i \in 1..m
      PROVE  CapabilityConforms(entries[i].name, entries[i].payload)
  <2>1. s[i] \in DOMAIN c
    BY <1>1, <1>2 DEF Orders
  <2> QED BY <1>5, <2>1
<1> QED BY <1>4, <1>5, <1>6, <1>8, <1>9 DEF CapabilitiesConform
-----------------------------------------------------------------------------
(* What every accepted payload decodes to.                                 *)

Declares(vendor) ==
    CASE vendor = "A" -> {"dock", "lidarHealth", "sequence"}
      [] vendor = "B" -> {"dock"}
      [] vendor = "C" -> {"dock", "waterLevel", "sequence"}

ReportedIn(vendor, payload) == IF vendor = "B" THEN payload.ts ELSE payload.timestamp

DecodedFrom(e, vendor, payload, at) ==
    /\ e.receivedAt = at /\ e.reportedAt = ReportedIn(vendor, payload)
    /\ ReportedIn(vendor, payload) # Null
    /\ DOMAIN e.capabilities = Declares(vendor)
    /\ DOMAIN e.capabilities \subseteq CapabilityNames
    /\ e.capabilities = [name \in DOMAIN e.capabilities |-> e.capabilities[name]]
    /\ e.adapterId \in {"vendor-a", "vendor-b", "vendor-c"}
    /\ "sequence" \in DOMAIN e.capabilities =>
          e.capabilities["sequence"].value = payload.seq

LEMMA DecodedEnvelope ==
    ASSUME NEW vendor \in Vendors, NEW payload, NEW at,
           Decode(vendor, payload, at).kind = "ok"
    PROVE  DecodedFrom(Decode(vendor, payload, at).envelope, vendor, payload, at)
<1> SUFFICES ASSUME NEW e, e = Decode(vendor, payload, at).envelope
             PROVE  DecodedFrom(e, vendor, payload, at)
  OBVIOUS
<1>1. CASE vendor = "A"
  <2> DEFINE made == Envelope(payload.id, "A", "vendor-a", payload.timestamp, at,
                       [dock |-> Dock(payload.docked, payload.dock_id),
                        lidarHealth |-> [severity |-> LidarSeverity(payload.fault),
                                         rpm |-> payload.rpm],
                        sequence |-> [value |-> payload.seq]],
                       Core(payload.id.siteId, ToBatteryPercent(payload.level),
                            payload.x_m, payload.y_m, payload.state, payload.health))
  <2>1. DecodeVendorA(payload, at).kind = "ok" /\ e = DecodeVendorA(payload, at).envelope
    BY <1>1 DEF Decode
  <2>2. payload.timestamp # Null /\ e = made
    BY <2>1 DEF DecodeVendorA, Failure, Ok
  <2> QED BY <1>1, <2>2 DEF Envelope, Declares, ReportedIn, CapabilityNames,
                                 DecodedFrom
<1>2. CASE vendor = "B"
  <2> DEFINE made == Envelope(payload.id, "B", "vendor-b", payload.ts, at,
                       [dock |-> Dock(payload.dock_state = 1, Null)],
                       Core(payload.id.siteId, payload.batt_pct * 10000,
                            ToMetres(payload.x_cm), ToMetres(payload.y_cm),
                            STATUS_BY_CODE[payload.status_code],
                            SEVERITY_BY_CODE[payload.health_code]))
  <2>1. DecodeVendorB(payload, at).kind = "ok" /\ e = DecodeVendorB(payload, at).envelope
    BY <1>2 DEF Decode
  <2>2. payload.ts # Null /\ e = made
    BY <2>1 DEF DecodeVendorB, Failure, Ok
  <2> QED BY <1>2, <2>2 DEF Envelope, Declares, ReportedIn, CapabilityNames,
                                 DecodedFrom
<1>3. CASE vendor = "C"
  <2> DEFINE made == Envelope(payload.id, "C", "vendor-c", payload.timestamp, at,
                       [dock |-> Dock(payload.docked, payload.dock_id),
                        waterLevel |-> [percent |-> payload.level_pct],
                        sequence |-> [value |-> payload.seq]],
                       Core(payload.id.siteId, ToBatteryPercent(payload.level),
                            payload.x_m, payload.y_m, payload.state, payload.health))
  <2>1. DecodeVendorC(payload, at).kind = "ok" /\ e = DecodeVendorC(payload, at).envelope
    BY <1>3 DEF Decode
  <2>2. payload.timestamp # Null /\ e = made
    BY <2>1 DEF DecodeVendorC, Failure, Ok
  <2> QED BY <1>3, <2>2 DEF Envelope, Declares, ReportedIn, CapabilityNames,
                                 DecodedFrom
<1> QED BY <1>1, <1>2, <1>3 DEF Vendors

TellsUnit(vendor, fine, coarse) == IF vendor = "B" THEN coarse ELSE fine

(* An envelope tells what robot id was in state p.                         *)
Tells(e, id, p) ==
    /\ e.robotId = id.robotId /\ e.vendorId = id.vendor
    /\ e.core.status = p.status /\ e.core.health = p.health
    /\ Within(p.battery * 10, e.core.batteryPercent, TellsUnit(id.vendor, 100, 10000))
    /\ Within(p.x, e.core.position.x * 10, TellsUnit(id.vendor, 10, 100))
    /\ Within(p.y, e.core.position.y * 10, TellsUnit(id.vendor, 10, 100))
    /\ e.capabilities["dock"].docked = p.docked
    /\ e.capabilities["dock"].dockId
         = IF p.docked /\ id.vendor # "B" THEN id.dockId ELSE Null
    /\ "lidarHealth" \in Declares(id.vendor) =>
          /\ p.lidarFaulted <=> e.capabilities["lidarHealth"].severity = "critical"
          /\ e.capabilities["lidarHealth"].rpm = p.lidarRpm
    /\ "waterLevel" \in Declares(id.vendor) =>
          Within(p.waterLevel, e.capabilities["waterLevel"].percent * 1000, 1000)
    /\ "sequence" \in Declares(id.vendor) => e.capabilities["sequence"].value = p.sequence

LEMMA WithinIf ==
    ASSUME NEW a \in Int, NEW b \in Int, NEW unit \in Nat,
           -unit <= 2 * (a - b), 2 * (a - b) <= unit
    PROVE  Within(a, b, unit)
BY SMT DEF Within

(* Charge and coordinates, by way of a payload, to within the dialect.     *)
LEMMA PercentWithin ==
    ASSUME NEW v \in Int
    PROVE  /\ Within(v * 10, ToBatteryPercent(Rounded(v, 10)), 100)
           /\ Within(v * 10, Rounded(v, 1000) * 10000, 10000)
           /\ Within(v, Rounded(v, 10) * 10, 10)
           /\ Within(v, ToMetres(Rounded(v, 100)) * 10, 100)
           /\ Within(v, Rounded(v, 1000) * 1000, 1000)
<1>1. PICK a \in Int : a = (v + 5) \div 10
  OBVIOUS
<1>2. PICK b \in Int : b = (v + 50) \div 100
  OBVIOUS
<1>3. PICK c \in Int : c = (v + 500) \div 1000
  OBVIOUS
<1>4. 10 * a <= v + 5 /\ v + 5 < 10 * a + 10
  BY <1>1
<1>5. 100 * b <= v + 50 /\ v + 50 < 100 * b + 100
  BY <1>2
<1>6. 1000 * c <= v + 500 /\ v + 500 < 1000 * c + 1000
  BY <1>3
<1>7. Rounded(v, 10) = a /\ Rounded(v, 100) = b /\ Rounded(v, 1000) = c
  <2>1. 10 \div 2 = 5 /\ 100 \div 2 = 50 /\ 1000 \div 2 = 500
    OBVIOUS
  <2> QED BY <1>1, <1>2, <1>3, <2>1 DEF Rounded
<1>8. PICK ten \in Nat : ten = 10
  OBVIOUS
<1>9. PICK hundred \in Nat : hundred = 100
  OBVIOUS
<1>10. PICK thousand \in Nat : thousand = 1000
  OBVIOUS
<1>11. PICK percent \in Nat : percent = 10000
  OBVIOUS
<1>12. /\ ToBatteryPercent(Rounded(v, 10)) = a * 100
       /\ ToMetres(Rounded(v, 100)) = b * 10
  BY <1>7 DEF ToBatteryPercent, ToMetres
<1>13. Within(v * 10, a * 100, hundred)
  <2>1. -hundred <= 2 * (v * 10 - a * 100) /\ 2 * (v * 10 - a * 100) <= hundred
    BY <1>4, <1>9, SMT
  <2>2. v * 10 \in Int /\ a * 100 \in Int
    OBVIOUS
  <2> QED BY <2>1, <2>2, WithinIf
<1>14. Within(v, a * 10, ten)
  <2>1. -ten <= 2 * (v - a * 10) /\ 2 * (v - a * 10) <= ten
    BY <1>4, <1>8, SMT
  <2>2. a * 10 \in Int
    OBVIOUS
  <2> QED BY <2>1, <2>2, WithinIf
<1>15. Within(v, (b * 10) * 10, hundred)
  <2>1. -hundred <= 2 * (v - (b * 10) * 10) /\ 2 * (v - (b * 10) * 10) <= hundred
    BY <1>5, <1>9, SMT
  <2>2. (b * 10) * 10 \in Int
    OBVIOUS
  <2> QED BY <2>1, <2>2, WithinIf
<1>16. Within(v * 10, c * 10000, percent)
  <2>1. -percent <= 2 * (v * 10 - c * 10000) /\ 2 * (v * 10 - c * 10000) <= percent
    BY <1>6, <1>11, SMT
  <2>2. v * 10 \in Int /\ c * 10000 \in Int
    BY SMT
  <2> QED BY <2>1, <2>2, WithinIf
<1>17. Within(v, c * 1000, thousand)
  <2>1. -thousand <= 2 * (v - c * 1000) /\ 2 * (v - c * 1000) <= thousand
    BY <1>6, <1>10, SMT
  <2>2. c * 1000 \in Int
    BY SMT
  <2> QED BY <2>1, <2>2, WithinIf
<1> QED BY <1>7, <1>8, <1>9, <1>10, <1>11, <1>12, <1>13, <1>14, <1>15, <1>16, <1>17

LEMMA BuiltTells ==
    ASSUME NEW id, id.vendor \in Vendors, NEW p \in RobotState, NEW now \in Int, NEW at,
           NEW e, e = Decode(id.vendor, BuildPayload(id, p, now), at).envelope
    PROVE  Tells(e, id, p) /\ ReportedIn(id.vendor, BuildPayload(id, p, now)) = now
<1>1. Decode(id.vendor, BuildPayload(id, p, now), at).kind = "ok"
  BY AdaptersTake
<1>2. /\ p.battery \in Int /\ p.x \in Int /\ p.y \in Int /\ p.waterLevel \in Int
      /\ p.docked \in BOOLEAN /\ p.lidarFaulted \in BOOLEAN
      /\ p.status \in States /\ p.health \in Levels
  BY Scales DEF RobotState, Coordinates, SimStatus, SimHealth, States, Levels
<1>3. CASE id.vendor = "A"
  <2> DEFINE payload == BuildVendorA(id, p, now)
  <2>1. DecodeVendorA(payload, at).kind = "ok" /\ e = DecodeVendorA(payload, at).envelope
    BY <1>1, <1>3 DEF Decode, BuildPayload
  <2>2. e = Envelope(payload.id, "A", "vendor-a", payload.timestamp, at,
                     [dock |-> Dock(payload.docked, payload.dock_id),
                      lidarHealth |-> [severity |-> LidarSeverity(payload.fault),
                                       rpm |-> payload.rpm],
                      sequence |-> [value |-> payload.seq]],
                     Core(payload.id.siteId, ToBatteryPercent(payload.level),
                          payload.x_m, payload.y_m, payload.state, payload.health))
    <3> HIDE DEF payload
    <3> QED BY <2>1 DEF DecodeVendorA, Failure, Ok
  <2>3. /\ e.robotId = id.robotId /\ e.vendorId = "A"
        /\ e.core.status = p.status /\ e.core.health = p.health
        /\ e.core.batteryPercent = ToBatteryPercent(Rounded(p.battery, 10))
        /\ e.core.position.x = Rounded(p.x, 10) /\ e.core.position.y = Rounded(p.y, 10)
        /\ e.capabilities["dock"].docked = p.docked
        /\ e.capabilities["dock"].dockId = IF p.docked THEN id.dockId ELSE Null
        /\ e.capabilities["lidarHealth"].severity = LidarSeverity(p.lidarFaulted)
        /\ e.capabilities["lidarHealth"].rpm = p.lidarRpm
        /\ e.capabilities["sequence"].value = p.sequence
    BY <2>2 DEF BuildVendorA, Envelope, Core, Dock
  <2>4. p.lidarFaulted <=> LidarSeverity(p.lidarFaulted) = "critical"
    BY <1>2 DEF LidarSeverity
  <2>5. payload.timestamp = now
    BY DEF BuildVendorA
  <2> HIDE DEF payload
  <2> QED BY <1>2, <1>3, <2>3, <2>4, <2>5, PercentWithin
          DEF Tells, TellsUnit, Declares, ReportedIn, BuildPayload, payload
<1>4. CASE id.vendor = "B"
  <2> DEFINE payload == BuildVendorB(id, p, now)
  <2>1. DecodeVendorB(payload, at).kind = "ok" /\ e = DecodeVendorB(payload, at).envelope
    BY <1>1, <1>4 DEF Decode, BuildPayload
  <2>2. e = Envelope(payload.id, "B", "vendor-b", payload.ts, at,
                     [dock |-> Dock(payload.dock_state = 1, Null)],
                     Core(payload.id.siteId, payload.batt_pct * 10000,
                          ToMetres(payload.x_cm), ToMetres(payload.y_cm),
                          STATUS_BY_CODE[payload.status_code],
                          SEVERITY_BY_CODE[payload.health_code]))
    <3> HIDE DEF payload
    <3> QED BY <2>1 DEF DecodeVendorB, Failure, Ok
  <2>3. /\ STATUS_BY_CODE[payload.status_code] = p.status
        /\ SEVERITY_BY_CODE[payload.health_code] = p.health
        /\ payload.dock_state = 1 <=> p.docked
    BY <1>2 DEF BuildVendorB, STATUS_BY_CODE, SEVERITY_BY_CODE, StatusCode, HealthCode,
                States, Levels
  <2>4. /\ payload.id = id /\ payload.ts = now
        /\ payload.batt_pct = Rounded(p.battery, 1000)
        /\ payload.x_cm = Rounded(p.x, 100) /\ payload.y_cm = Rounded(p.y, 100)
    BY DEF BuildVendorB
  <2> HIDE DEF payload
  <2>5. /\ e.robotId = id.robotId /\ e.vendorId = "B"
        /\ e.core.status = p.status /\ e.core.health = p.health
        /\ e.core.batteryPercent = Rounded(p.battery, 1000) * 10000
        /\ e.core.position.x = ToMetres(Rounded(p.x, 100))
        /\ e.core.position.y = ToMetres(Rounded(p.y, 100))
        /\ e.capabilities["dock"] = Dock(payload.dock_state = 1, Null)
    BY <2>2, <2>3, <2>4 DEF Envelope, Core
  <2>6. /\ e.capabilities["dock"].docked = p.docked
        /\ e.capabilities["dock"].dockId = Null
    <3>1. (payload.dock_state = 1) = p.docked
      BY <1>2, <2>3, Zenon
    <3>2. Dock(payload.dock_state = 1, Null) = Dock(p.docked, Null)
      BY <3>1, Zenon DEF Dock
    <3>3. e.capabilities["dock"] = Dock(p.docked, Null)
      BY <2>5, <3>2
    <3> QED BY <3>3 DEF Dock
  <2> QED BY <1>2, <1>4, <2>4, <2>5, <2>6, PercentWithin
          DEF Tells, TellsUnit, Declares, ReportedIn, BuildPayload, payload
<1>5. CASE id.vendor = "C"
  <2> DEFINE payload == BuildVendorC(id, p, now)
  <2>1. DecodeVendorC(payload, at).kind = "ok" /\ e = DecodeVendorC(payload, at).envelope
    BY <1>1, <1>5 DEF Decode, BuildPayload
  <2>2. e = Envelope(payload.id, "C", "vendor-c", payload.timestamp, at,
                     [dock |-> Dock(payload.docked, payload.dock_id),
                      waterLevel |-> [percent |-> payload.level_pct],
                      sequence |-> [value |-> payload.seq]],
                     Core(payload.id.siteId, ToBatteryPercent(payload.level),
                          payload.x_m, payload.y_m, payload.state, payload.health))
    <3> HIDE DEF payload
    <3> QED BY <2>1 DEF DecodeVendorC, Failure, Ok
  <2>3. /\ e.robotId = id.robotId /\ e.vendorId = "C"
        /\ e.core.status = p.status /\ e.core.health = p.health
        /\ e.core.batteryPercent = ToBatteryPercent(Rounded(p.battery, 10))
        /\ e.core.position.x = Rounded(p.x, 10) /\ e.core.position.y = Rounded(p.y, 10)
        /\ e.capabilities["dock"].docked = p.docked
        /\ e.capabilities["dock"].dockId = IF p.docked THEN id.dockId ELSE Null
        /\ e.capabilities["waterLevel"].percent = Rounded(p.waterLevel, 1000)
        /\ e.capabilities["sequence"].value = p.sequence
    BY <2>2 DEF BuildVendorC, Envelope, Core, Dock
  <2>4. payload.timestamp = now
    BY DEF BuildVendorC
  <2> HIDE DEF payload
  <2> QED BY <1>2, <1>5, <2>3, <2>4, PercentWithin
          DEF Tells, TellsUnit, Declares, ReportedIn, BuildPayload, payload
<1> QED BY <1>3, <1>4, <1>5 DEF Vendors
(* What a simulated robot's envelope says the contract can carry.          *)
Carried(e, id) ==
    /\ e.siteId = id.siteId
    /\ CoreConforms(e.core)
    /\ \A name \in DOMAIN e.capabilities : CapabilityConforms(name, e.capabilities[name])

LEMMA PlaceIsCarried ==
    ASSUME NEW v \in Coordinates
    PROVE  /\ Rounded(v, 10) \in -MaxPosition..MaxPosition
           /\ ToMetres(Rounded(v, 100)) \in -MaxPosition..MaxPosition
<1>1. HalfExtent = 400000 /\ MaxPosition \in Nat /\ 40000 <= MaxPosition
  BY PathAssumption, PositionAssumption DEF HalfExtent
<1>2. v \in Int /\ -400000 <= v /\ v <= 400000
  <2>1. v \in -HalfExtent..HalfExtent
    BY DEF Coordinates
  <2>2. v \in Int /\ -HalfExtent <= v /\ v <= HalfExtent
    BY <2>1, Scales
  <2> QED BY <1>1, <2>2
<1>3. PICK a \in Int : a = (v + 5) \div 10
  BY <1>2
<1>4. PICK b \in Int : b = (v + 50) \div 100
  BY <1>2
<1>5. -40000 <= a /\ a <= 40000
  BY <1>2, <1>3
<1>6. -4000 <= b /\ b <= 4000
  BY <1>2, <1>4
<1>7. Rounded(v, 10) = a /\ Rounded(v, 100) = b
  <2>1. 10 \div 2 = 5 /\ 100 \div 2 = 50
    OBVIOUS
  <2> QED BY <1>3, <1>4, <2>1 DEF Rounded
<1> QED BY <1>1, <1>5, <1>6, <1>7 DEF ToMetres

(* A payload of the robot it says it is from, at a place and with a charge *)
(* that can be carried, if a charge at all.                                *)
Place == -MaxPosition..MaxPosition

Readable(id, raw) ==
    /\ raw.id = id
    /\ id.vendor = "B" => /\ ToMetres(raw.x_cm) \in Place /\ ToMetres(raw.y_cm) \in Place
                          /\ raw.batt_pct \in Int
    /\ id.vendor # "B" => /\ raw.x_m \in Place /\ raw.y_m \in Place
                          /\ raw.level \in Int /\ raw.docked \in BOOLEAN

LEMMA CoreConformsIf ==
    ASSUME NEW site, NEW percent \in Int, 0 <= percent, percent <= 1000000,
           NEW x \in Place, NEW y \in Place,
           NEW status \in RobotStatus, NEW severity \in HealthSeverity
    PROVE  CoreConforms(Core(site, percent, x, y, status, severity))
<1>1. percent >= 0 /\ percent <= 1000000
  BY SMT
<1>2. x \in -MaxPosition..MaxPosition /\ y \in -MaxPosition..MaxPosition
  BY SMT DEF Place
<1>3. PICK core : core = Core(site, percent, x, y, status, severity)
  OBVIOUS
<1>4. /\ core.connectivity = "unknown" /\ core.batteryPercent = percent
      /\ core.position.x = x /\ core.position.y = y
      /\ core.status = status /\ core.health = severity
  BY <1>3, SMT DEF Core
<1>5. CoreConforms(core)
  BY <1>1, <1>2, <1>4, SMT DEF CoreConforms
<1> QED BY <1>3, <1>5

LEMMA CoreCarried ==
    ASSUME NEW site, NEW level \in Int, 0 <= level, level <= 10000,
           NEW x \in Place, NEW y \in Place,
           NEW status \in RobotStatus, NEW severity \in HealthSeverity
    PROVE  CoreConforms(Core(site, ToBatteryPercent(level), x, y, status, severity))
<1>1. PICK c \in Int : c = level * 100
  BY SMT
<1>2. 0 <= c /\ c <= 1000000
  BY <1>1, SMT
<1> QED BY <1>1, <1>2, CoreConformsIf DEF ToBatteryPercent

(* All else the contract asks, the adapters have asked.                    *)
LEMMA ReadableIsCarried ==
    ASSUME NEW id, id.vendor \in Vendors, NEW raw, Readable(id, raw), NEW at,
           Decode(id.vendor, raw, at).kind = "ok"
    PROVE  Carried(Decode(id.vendor, raw, at).envelope, id)
<1> SUFFICES ASSUME NEW e, e = Decode(id.vendor, raw, at).envelope
             PROVE  Carried(e, id)
  OBVIOUS
<1>1. CASE id.vendor = "A"
  <2>1. DecodeVendorA(raw, at).kind = "ok" /\ e = DecodeVendorA(raw, at).envelope
    BY <1>1 DEF Decode
  <2>2. /\ SchemaA(raw)
        /\ e = Envelope(raw.id, "A", "vendor-a", raw.timestamp, at,
                     [dock |-> Dock(raw.docked, raw.dock_id),
                      lidarHealth |-> [severity |-> LidarSeverity(raw.fault),
                                       rpm |-> raw.rpm],
                      sequence |-> [value |-> raw.seq]],
                     Core(raw.id.siteId, ToBatteryPercent(raw.level),
                          raw.x_m, raw.y_m, raw.state, raw.health))
    BY <2>1 DEF DecodeVendorA, Failure, Ok
  <2>3. /\ e.siteId = id.siteId
        /\ e.core = Core(id.siteId, ToBatteryPercent(raw.level), raw.x_m, raw.y_m,
                         raw.state, raw.health)
        /\ DOMAIN e.capabilities = {"dock", "lidarHealth", "sequence"}
        /\ e.capabilities["dock"].docked = raw.docked
        /\ e.capabilities["lidarHealth"].severity = LidarSeverity(raw.fault)
        /\ e.capabilities["lidarHealth"].rpm = raw.rpm
        /\ e.capabilities["sequence"].value = raw.seq
    BY <2>2 DEF Envelope, Dock, Readable
  <2>4. /\ raw.level \in Int /\ 0 <= raw.level /\ raw.level <= 10000
        /\ raw.x_m \in Place /\ raw.y_m \in Place
        /\ raw.state \in RobotStatus /\ raw.health \in HealthSeverity
        /\ raw.docked \in BOOLEAN /\ raw.seq >= 0 /\ raw.rpm >= 0 /\ raw.rpm <= 10000
    <3>1. /\ raw.level \in Int /\ raw.level >= 0 /\ raw.level <= 10000
          /\ raw.x_m \in Place /\ raw.y_m \in Place
          /\ raw.state \in States /\ raw.health \in Levels
          /\ raw.seq >= 0 /\ raw.rpm >= 0 /\ raw.rpm <= 10000
      BY <1>1, <2>2, SMT DEF SchemaA, Readable
    <3>2. raw.docked \in BOOLEAN
      BY <1>1, Zenon DEF Readable
    <3>3. raw.state \in RobotStatus /\ raw.health \in HealthSeverity
      BY <3>1, SMT DEF States, Levels, RobotStatus, HealthSeverity
    <3> QED BY <3>1, <3>2, <3>3
  <2>5. CoreConforms(e.core)
    BY <2>3, <2>4, CoreCarried
  <2>6. LidarSeverity(raw.fault) \in HealthSeverity
    BY DEF LidarSeverity, HealthSeverity
  <2>7. /\ CapabilityConforms("dock", e.capabilities["dock"])
        /\ CapabilityConforms("lidarHealth", e.capabilities["lidarHealth"])
        /\ CapabilityConforms("sequence", e.capabilities["sequence"])
    BY <2>3, <2>4, <2>6 DEF CapabilityConforms
  <2> QED BY <2>3, <2>5, <2>7 DEF Carried
<1>2. CASE id.vendor = "B"
  <2>1. DecodeVendorB(raw, at).kind = "ok" /\ e = DecodeVendorB(raw, at).envelope
    BY <1>2 DEF Decode
  <2>2. /\ SchemaB(raw)
        /\ raw.status_code \in DOMAIN STATUS_BY_CODE
        /\ raw.health_code \in DOMAIN SEVERITY_BY_CODE
        /\ e = Envelope(raw.id, "B", "vendor-b", raw.ts, at,
                     [dock |-> Dock(raw.dock_state = 1, Null)],
                     Core(raw.id.siteId, raw.batt_pct * 10000, ToMetres(raw.x_cm),
                          ToMetres(raw.y_cm), STATUS_BY_CODE[raw.status_code],
                          SEVERITY_BY_CODE[raw.health_code]))
    BY <2>1 DEF DecodeVendorB, Failure, Ok
  <2>3. /\ STATUS_BY_CODE[raw.status_code] \in RobotStatus
        /\ SEVERITY_BY_CODE[raw.health_code] \in HealthSeverity
    BY <2>2 DEF STATUS_BY_CODE, SEVERITY_BY_CODE, RobotStatus, HealthSeverity
  <2>4. /\ e.siteId = id.siteId
        /\ e.core = Core(id.siteId, raw.batt_pct * 10000, ToMetres(raw.x_cm),
                         ToMetres(raw.y_cm), STATUS_BY_CODE[raw.status_code],
                         SEVERITY_BY_CODE[raw.health_code])
        /\ DOMAIN e.capabilities = {"dock"}
        /\ e.capabilities["dock"] = Dock(raw.dock_state = 1, Null)
    BY <2>2 DEF Envelope, Readable
  <2>5. /\ raw.batt_pct \in Int /\ 0 <= raw.batt_pct /\ raw.batt_pct <= 100
        /\ ToMetres(raw.x_cm) \in Place /\ ToMetres(raw.y_cm) \in Place
    BY <1>2, <2>2, SMT DEF SchemaB, Readable
  <2>6. CoreConforms(e.core)
    <3>1. PICK c \in Int : c = raw.batt_pct * 10000
      BY <2>5, SMT
    <3>2. 0 <= c /\ c <= 1000000
      BY <2>5, <3>1, SMT
    <3> QED BY <2>3, <2>4, <2>5, <3>1, <3>2, CoreConformsIf
  <2>7. CapabilityConforms("dock", e.capabilities["dock"])
    <3>1. Dock(raw.dock_state = 1, Null).docked \in BOOLEAN
      BY DEF Dock
    <3> QED BY <2>4, <3>1 DEF CapabilityConforms
  <2> QED BY <2>4, <2>6, <2>7 DEF Carried
<1>3. CASE id.vendor = "C"
  <2>1. DecodeVendorC(raw, at).kind = "ok" /\ e = DecodeVendorC(raw, at).envelope
    BY <1>3 DEF Decode
  <2>2. /\ SchemaC(raw)
        /\ e = Envelope(raw.id, "C", "vendor-c", raw.timestamp, at,
                     [dock |-> Dock(raw.docked, raw.dock_id),
                      waterLevel |-> [percent |-> raw.level_pct],
                      sequence |-> [value |-> raw.seq]],
                     Core(raw.id.siteId, ToBatteryPercent(raw.level),
                          raw.x_m, raw.y_m, raw.state, raw.health))
    BY <2>1 DEF DecodeVendorC, Failure, Ok
  <2>3. /\ e.siteId = id.siteId
        /\ e.core = Core(id.siteId, ToBatteryPercent(raw.level), raw.x_m, raw.y_m,
                         raw.state, raw.health)
        /\ DOMAIN e.capabilities = {"dock", "waterLevel", "sequence"}
        /\ e.capabilities["dock"].docked = raw.docked
        /\ e.capabilities["waterLevel"].percent = raw.level_pct
        /\ e.capabilities["sequence"].value = raw.seq
    BY <2>2 DEF Envelope, Dock, Readable
  <2>4. /\ raw.level \in Int /\ 0 <= raw.level /\ raw.level <= 10000
        /\ raw.x_m \in Place /\ raw.y_m \in Place
        /\ raw.state \in RobotStatus /\ raw.health \in HealthSeverity
        /\ raw.docked \in BOOLEAN /\ raw.seq >= 0
        /\ raw.level_pct >= 0 /\ raw.level_pct <= 100
    <3>1. /\ raw.level \in Int /\ raw.level >= 0 /\ raw.level <= 10000
          /\ raw.x_m \in Place /\ raw.y_m \in Place
          /\ raw.state \in States /\ raw.health \in Levels
          /\ raw.seq >= 0 /\ raw.level_pct >= 0 /\ raw.level_pct <= 100
      BY <1>3, <2>2, SMT DEF SchemaC, SchemaCLoose, Readable
    <3>2. raw.docked \in BOOLEAN
      BY <1>3, Zenon DEF Readable
    <3>3. raw.state \in RobotStatus /\ raw.health \in HealthSeverity
      BY <3>1, SMT DEF States, Levels, RobotStatus, HealthSeverity
    <3> QED BY <3>1, <3>2, <3>3
  <2>5. CoreConforms(e.core)
    BY <2>3, <2>4, CoreCarried
  <2>6. /\ CapabilityConforms("dock", e.capabilities["dock"])
        /\ CapabilityConforms("waterLevel", e.capabilities["waterLevel"])
        /\ CapabilityConforms("sequence", e.capabilities["sequence"])
    BY <2>3, <2>4 DEF CapabilityConforms
  <2> QED BY <2>3, <2>5, <2>6 DEF Carried
<1> QED BY <1>1, <1>2, <1>3 DEF Vendors

(* A distortion that leaves the payload readable.                          *)
InReach(d) ==
    /\ d[1] # "id"
    /\ d[1] \in {"x_m", "y_m"} => d[2] \in Place
    /\ d[1] \in {"x_cm", "y_cm"} => ToMetres(d[2]) \in Place
    /\ d[1] \in {"level", "batt_pct"} => d[2] \in Int
    /\ d[1] = "docked" => d[2] \in BOOLEAN

LEMMA BuiltIsReadable ==
    ASSUME NEW id, id.vendor \in Vendors, NEW p \in RobotState, NEW now
    PROVE  /\ Readable(id, BuildPayload(id, p, now))
           /\ \A d : InReach(d) =>
                 Readable(id, [BuildPayload(id, p, now) EXCEPT ![d[1]] = d[2]])
<1>1. /\ p.battery \in Int /\ p.x \in Coordinates /\ p.y \in Coordinates
      /\ p.docked \in BOOLEAN
  BY Scales DEF RobotState
<1>2. /\ Rounded(p.battery, 10) \in Int /\ Rounded(p.battery, 1000) \in Int
      /\ Rounded(p.x, 10) \in Place /\ Rounded(p.y, 10) \in Place
      /\ ToMetres(Rounded(p.x, 100)) \in Place /\ ToMetres(Rounded(p.y, 100)) \in Place
  <2>1. Rounded(p.battery, 10) \in Int /\ Rounded(p.battery, 1000) \in Int
    BY <1>1 DEF Rounded
  <2> QED BY <1>1, <2>1, PlaceIsCarried DEF Place
<1>3. PICK payload : payload = BuildPayload(id, p, now)
  OBVIOUS
<1>4. CASE id.vendor = "B"
  <2>1. /\ {"id", "x_cm", "y_cm", "batt_pct"} \subseteq DOMAIN payload
        /\ payload.id = id /\ payload.batt_pct \in Int
        /\ ToMetres(payload.x_cm) \in Place /\ ToMetres(payload.y_cm) \in Place
    BY <1>2, <1>3, <1>4 DEF BuildPayload, BuildVendorB
  <2>2. ASSUME NEW d, InReach(d)
        PROVE  Readable(id, [payload EXCEPT ![d[1]] = d[2]])
    BY <1>4, <2>1, <2>2 DEF Readable, InReach
  <2> QED BY <1>3, <1>4, <2>1, <2>2 DEF Readable
<1>5. CASE id.vendor # "B"
  <2>1. /\ {"id", "x_m", "y_m", "level", "docked"} \subseteq DOMAIN payload
        /\ payload.id = id /\ payload.level \in Int
        /\ payload.x_m \in Place /\ payload.y_m \in Place
    BY <1>2, <1>3, <1>5 DEF BuildPayload, BuildVendorA, BuildVendorC, Vendors
  <2>2. payload.docked \in BOOLEAN
    BY <1>1, <1>3, <1>5 DEF BuildPayload, BuildVendorA, BuildVendorC, Vendors
  <2>3. ASSUME NEW d, InReach(d)
        PROVE  Readable(id, [payload EXCEPT ![d[1]] = d[2]])
    BY <1>5, <2>1, <2>2, <2>3 DEF Readable, InReach
  <2> QED BY <1>3, <1>5, <2>1, <2>2, <2>3 DEF Readable
<1> QED BY <1>4, <1>5

(* A payload is none of its fields' values: it is never taken for none.    *)
Payloads(vendor) == [Fields[vendor] -> FieldValue]

LEMMA FieldValues ==
    /\ Int \subseteq FieldValue /\ BOOLEAN \subseteq FieldValue
    /\ Identity \subseteq FieldValue /\ {i.dockId : i \in Identity} \subseteq FieldValue
    /\ States \subseteq FieldValue /\ Levels \subseteq FieldValue
    /\ Null \in FieldValue /\ {"vendor-a", "vendor-b", "vendor-c"} \subseteq FieldValue
    /\ [evaluated : {TRUE}, gaps : {0}, duplicates : {0}] \subseteq FieldValue
    /\ [evaluated : {FALSE}] \subseteq FieldValue
BY Zenon DEF FieldValue

LEMMA BuiltIsPayload ==
    ASSUME NEW id \in Identity, NEW p \in RobotState, NEW now \in Int
    PROVE  /\ BuildPayload(id, p, now) \in Payloads(id.vendor)
           /\ \A d \in Distortions[id.vendor] :
                 [BuildPayload(id, p, now) EXCEPT ![d[1]] = d[2]] \in Payloads(id.vendor)
<1>1. id.vendor \in Vendors
  BY PathAssumption
<1>2. /\ Rounded(p.battery, 10) \in FieldValue /\ Rounded(p.battery, 1000) \in FieldValue
      /\ Rounded(p.x, 10) \in FieldValue /\ Rounded(p.x, 100) \in FieldValue
      /\ Rounded(p.y, 10) \in FieldValue /\ Rounded(p.y, 100) \in FieldValue
      /\ Rounded(p.waterLevel, 1000) \in FieldValue
  <2>1. \A v \in Int : Rounded(v, 10) \in Int /\ Rounded(v, 100) \in Int
                         /\ Rounded(v, 1000) \in Int
    BY DEF Rounded
  <2>2. p.battery \in Int /\ p.x \in Int /\ p.y \in Int /\ p.waterLevel \in Int
    BY Scales DEF RobotState, Coordinates
  <2> QED BY <2>1, <2>2, FieldValues
<1>3. /\ id \in FieldValue /\ now \in FieldValue
      /\ p.sequence \in FieldValue /\ p.lidarRpm \in FieldValue
  BY FieldValues DEF RobotState, LidarRpm
<1>4. /\ p.status \in FieldValue /\ p.health \in FieldValue
      /\ StatusCode[p.status] \in FieldValue /\ HealthCode[p.health] \in FieldValue
  BY FieldValues DEF RobotState, SimStatus, SimHealth, States, Levels, StatusCode,
                     HealthCode
<1>5. p.docked \in FieldValue /\ p.lidarFaulted \in FieldValue
  <2>1. p.docked \in BOOLEAN /\ p.lidarFaulted \in BOOLEAN
    BY DEF RobotState
  <2> QED BY <2>1, FieldValues, Zenon
<1>6. /\ (IF p.docked THEN id.dockId ELSE Null) \in FieldValue
      /\ (IF p.docked THEN 1 ELSE 0) \in FieldValue
  <2>1. id.dockId \in FieldValue /\ Null \in FieldValue /\ 1 \in FieldValue /\ 0 \in FieldValue
    BY FieldValues
  <2> QED BY <2>1
<1>7. BuildPayload(id, p, now) \in Payloads(id.vendor)
  <2>1. CASE id.vendor = "A"
    <3>1. BuildPayload(id, p, now) = BuildVendorA(id, p, now)
      BY <2>1 DEF BuildPayload
    <3>2. Payloads("A") = [{"id", "seq", "timestamp", "level", "x_m", "y_m", "state",
                            "health", "docked", "dock_id", "rpm", "fault"} -> FieldValue]
      BY DEF Payloads, Fields
    <3>3. BuildVendorA(id, p, now) \in Payloads("A")
      BY <1>2, <1>3, <1>4, <1>5, <1>6, <3>2 DEF BuildVendorA
    <3> QED BY <2>1, <3>1, <3>3
  <2>2. CASE id.vendor = "B"
    <3>1. BuildPayload(id, p, now) = BuildVendorB(id, p, now)
      BY <2>2 DEF BuildPayload
    <3>2. Payloads("B") = [{"id", "ts", "batt_pct", "x_cm", "y_cm", "status_code",
                            "health_code", "dock_state"} -> FieldValue]
      BY DEF Payloads, Fields
    <3>3. BuildVendorB(id, p, now) \in Payloads("B")
      BY <1>2, <1>3, <1>4, <1>6, <3>2 DEF BuildVendorB
    <3> QED BY <2>2, <3>1, <3>3
  <2>3. CASE id.vendor = "C"
    <3>1. BuildPayload(id, p, now) = BuildVendorC(id, p, now)
      BY <2>3 DEF BuildPayload
    <3>2. Payloads("C") = [{"id", "seq", "timestamp", "level", "x_m", "y_m", "state",
                            "health", "docked", "dock_id", "level_pct"} -> FieldValue]
      BY DEF Payloads, Fields
    <3>3. BuildVendorC(id, p, now) \in Payloads("C")
      BY <1>2, <1>3, <1>4, <1>5, <1>6, <3>2 DEF BuildVendorC
    <3> QED BY <2>3, <3>1, <3>3
  <2> QED BY <1>1, <2>1, <2>2, <2>3 DEF Vendors
<1>8. ASSUME NEW d \in Distortions[id.vendor]
      PROVE  [BuildPayload(id, p, now) EXCEPT ![d[1]] = d[2]] \in Payloads(id.vendor)
  <2>1. d[2] \in FieldValue
    <3>1. d[2] \in {x[2] : x \in UNION {Distortions[v] : v \in Vendors}}
      BY <1>1
    <3> QED BY <3>1, Zenon DEF FieldValue
  <2>2. PICK payload : payload = BuildPayload(id, p, now)
    OBVIOUS
  <2>3. payload \in [Fields[id.vendor] -> FieldValue]
    BY <1>7, <2>2 DEF Payloads
  <2>4. [payload EXCEPT ![d[1]] = d[2]] \in [Fields[id.vendor] -> FieldValue]
    BY <2>1, <2>3
  <2> QED BY <2>2, <2>4 DEF Payloads
<1> QED BY <1>7, <1>8

(* A distorted payload says the same instant, or none.                     *)
LEMMA DistortedInstant ==
    ASSUME NEW id \in Identity, NEW p \in RobotState, NEW now \in Int,
           NEW d \in Distortions[id.vendor], NEW raw,
           raw = [BuildPayload(id, p, now) EXCEPT ![d[1]] = d[2]]
    PROVE  ReportedIn(id.vendor, raw) \in {now, Null}
<1>1. id.vendor \in Vendors /\ (d[1] \in {"timestamp", "ts"} => d[2] = Null)
  BY PathAssumption
<1>2. PICK payload : payload = BuildPayload(id, p, now)
  OBVIOUS
<1>3. /\ id.vendor = "B" => "ts" \in DOMAIN payload /\ payload.ts = now
      /\ id.vendor # "B" => "timestamp" \in DOMAIN payload /\ payload.timestamp = now
  BY <1>1, <1>2 DEF BuildPayload, BuildVendorA, BuildVendorB, BuildVendorC, Vendors
<1>4. raw = [payload EXCEPT ![d[1]] = d[2]]
  BY <1>2
<1> QED BY <1>1, <1>3, <1>4 DEF ReportedIn
-----------------------------------------------------------------------------
(* What the console makes of a state that is served.                       *)

(* A payload that was accepted as the n-th reading, and what it says.      *)
Taken(raw, n) ==
    /\ raw \in Payloads(identity.vendor)
    /\ Decode(identity.vendor, raw, n + 1).kind = "ok"
    /\ ReportedIn(identity.vendor, raw) = n

EnvelopeOf(raw, n) == Decode(identity.vendor, raw, n + 1).envelope

RowFields ==
    {"id", "vendor", "siteId", "observed", "model", "connectivity", "position",
     "capabilities", "status", "health", "freshness", "batteryPercent", "lastSeenAt"}

LEMMA DetailOf ==
    ASSUME identity.vendor \in Vendors, NEW n \in Int, NEW raw, Taken(raw, n),
           NEW f, NEW h, NEW e, e = EnvelopeOf(raw, n),
           NEW s, s = WithFreshness(e, f)
    PROVE  /\ Observed(s) /\ s.reportedAt = n /\ s.freshness = f
           /\ e.receivedAt = n + 1 /\ e.reportedAt = n
           /\ ToRow(ToWireRobot(s)) = ToRobot(s)
           /\ ToRobotDetail(EncodeRobotDetail(s, h, raw))
                = WithEvidence(ToRobot(s), Diagnostics(e, h), raw)
<1>1. /\ e.receivedAt = n + 1 /\ e.reportedAt = n
      /\ DOMAIN e.capabilities \subseteq CapabilityNames
      /\ e.capabilities = [name \in DOMAIN e.capabilities |-> e.capabilities[name]]
  <2>1. PICK vendor \in Vendors : vendor = identity.vendor
    OBVIOUS
  <2>2. PICK at \in Int : at = n + 1
    OBVIOUS
  <2>3. Decode(vendor, raw, at).kind = "ok" /\ e = Decode(vendor, raw, at).envelope
    BY <2>1, <2>2 DEF Taken, EnvelopeOf
  <2>4. DecodedFrom(e, vendor, raw, at)
    BY <2>3, DecodedEnvelope
  <2> QED BY <2>1, <2>2, <2>4 DEF Taken, DecodedFrom
<1>2. /\ Observed(s) /\ Observed(ToWireRobot(s))
      /\ DecodeCanonicalEnvelope(ToWireRobot(s)) = s
  BY <1>1, WireKeeps
<1>3. s.reportedAt = n /\ s.freshness = f
  BY <1>1 DEF WithFreshness
<1>4. ToRow(ToWireRobot(s)) = ToRobot(s)
  BY <1>2 DEF ToRow
<1>5. ToRobotDetail(EncodeRobotDetail(s, h, raw))
        = WithEvidence(ToRobot(s), Diagnostics(s, h), raw)
  <2>1. EncodeRobotDetail(s, h, raw)
          = [envelope |-> ToWireRobot(s), sequenceHealth |-> h, rawPayload |-> raw]
    BY <1>2 DEF EncodeRobotDetail
  <2> QED BY <1>2, <2>1 DEF ToRobotDetail
<1>6. Diagnostics(s, h) = Diagnostics(e, h)
  BY DEF Diagnostics, WithFreshness
<1> QED BY <1>1, <1>2, <1>3, <1>4, <1>5, <1>6

(* Evidence beside a row changes nothing the row shows.                    *)
Beside(x, row, d, p) ==
    /\ x.diagnostics = d /\ x.rawPayload = p
    /\ x.lastSeenAt = row.lastSeenAt
    /\ DetailHeader(x, TRUE) = DetailHeader(row, TRUE)
    /\ SummarySection(x) = SummarySection(row)
    /\ CapabilitiesSection(x, Disabled) = CapabilitiesSection(row, Disabled)

LEMMA EvidenceIsBeside ==
    ASSUME NEW row, DOMAIN row = RowFields, NEW d, NEW p
    PROVE  Beside(WithEvidence(row, d, p), row, d, p)
<1> SUFFICES ASSUME NEW x, x = WithEvidence(row, d, p)
             PROVE  Beside(x, row, d, p)
  OBVIOUS
<1>1. /\ x.diagnostics = d /\ x.rawPayload = p
      /\ x.id = row.id /\ x.vendor = row.vendor /\ x.siteId = row.siteId
      /\ x.model = row.model /\ x.connectivity = row.connectivity
      /\ x.position = row.position /\ x.capabilities = row.capabilities
      /\ x.status = row.status /\ x.health = row.health
      /\ x.freshness = row.freshness /\ x.batteryPercent = row.batteryPercent
      /\ x.lastSeenAt = row.lastSeenAt
  BY DEF WithEvidence, RowFields
<1>2. DetailHeader(x, TRUE) = DetailHeader(row, TRUE)
  BY <1>1 DEF DetailHeader, StatusPresentation
<1>3. SummarySection(x) = SummarySection(row)
  BY <1>1 DEF SummarySection, StatusPresentation, BatteryDisplay, PositionDisplay
<1>4. CapabilitiesSection(x, Disabled) = CapabilitiesSection(row, Disabled)
  BY <1>1 DEF CapabilitiesSection, PanelCapabilities
<1> QED BY <1>1, <1>2, <1>3, <1>4 DEF Beside

Evaluations == [evaluated : {TRUE}, gaps : {0}, duplicates : {0}] \cup [evaluated : {FALSE}]

(* Evidence is never taken for none.                                       *)
LEMMA EvidenceIsSome ==
    ASSUME identity.vendor \in Vendors, NEW n \in Int, NEW raw, Taken(raw, n),
           NEW e, e = EnvelopeOf(raw, n), NEW h \in Evaluations
    PROVE  /\ raw # Null /\ Diagnostics(e, h) # Null
           /\ [adapter |-> e.adapterId, sequence |-> Diagnostics(e, h).sequence,
               receivedAt |-> e.receivedAt] # Null
<1>1. PICK vendor \in Vendors : vendor = identity.vendor
  OBVIOUS
<1>2. PICK at \in Int : at = n + 1
  OBVIOUS
<1>3. Decode(vendor, raw, at).kind = "ok" /\ e = Decode(vendor, raw, at).envelope
  BY <1>1, <1>2 DEF Taken, EnvelopeOf
<1>4. /\ e.receivedAt = at /\ e.reportedAt = ReportedIn(vendor, raw)
      /\ DOMAIN e.capabilities = Declares(vendor)
      /\ e.adapterId \in {"vendor-a", "vendor-b", "vendor-c"}
      /\ "sequence" \in DOMAIN e.capabilities =>
            e.capabilities["sequence"].value = raw.seq
  <2>1. DecodedFrom(e, vendor, raw, at)
    BY <1>3, DecodedEnvelope
  <2> QED BY <2>1 DEF DecodedFrom
<1>5. \A record \in {"A", "B", "C", "diagnostics", "source"} :
         Null \notin [Fields[record] -> FieldValue]
  BY PathAssumption DEF Fields
<1>6. raw \in [Fields[vendor] -> FieldValue] /\ raw # Null
  BY <1>1, <1>5 DEF Taken, Payloads, Vendors
<1> DEFINE d == Diagnostics(e, h)
<1>7. d.sequence \in FieldValue
  <2>1. CASE "sequence" \in DOMAIN e.capabilities
    <3>1. "seq" \in Fields[vendor]
      BY <1>4, <2>1 DEF Declares, Fields, Vendors
    <3>2. d.sequence = raw.seq
      BY <1>4, <2>1 DEF Diagnostics
    <3> QED BY <1>6, <3>1, <3>2
  <2>2. CASE "sequence" \notin DOMAIN e.capabilities
    BY <2>2, FieldValues DEF Diagnostics
  <2> QED BY <2>1, <2>2
<1>8. /\ e.adapterId \in FieldValue /\ e.receivedAt \in FieldValue
      /\ e.reportedAt \in FieldValue /\ e.receivedAt - e.reportedAt \in FieldValue
      /\ h \in FieldValue
  <2>1. e.receivedAt \in Int /\ e.reportedAt \in Int
    BY <1>1, <1>2, <1>4 DEF Taken
  <2>2. e.receivedAt - e.reportedAt \in Int
    BY <2>1
  <2>3. h \in FieldValue
    BY FieldValues, Zenon DEF Evaluations
  <2> QED BY <1>4, <2>1, <2>2, <2>3, FieldValues
<1>9. d # Null
  <2>1. d = [adapterId |-> e.adapterId, sequence |-> d.sequence, sequenceHealth |-> h,
             vendorReportedAt |-> e.reportedAt, receivedAt |-> e.receivedAt,
             clockDelta |-> e.receivedAt - e.reportedAt]
    BY DEF Diagnostics
  <2>2. Fields["diagnostics"] = {"adapterId", "sequence", "sequenceHealth",
                                 "vendorReportedAt", "receivedAt", "clockDelta"}
    BY DEF Fields
  <2> HIDE DEF d
  <2>3. d \in [Fields["diagnostics"] -> FieldValue]
    BY <1>7, <1>8, <2>1, <2>2
  <2> QED BY <1>5, <2>3
<1>10. [adapter |-> e.adapterId, sequence |-> d.sequence,
        receivedAt |-> e.receivedAt] # Null
  <2>1. Fields["source"] = {"adapter", "sequence", "receivedAt"}
    BY DEF Fields
  <2> HIDE DEF d
  <2>2. [adapter |-> e.adapterId, sequence |-> d.sequence, receivedAt |-> e.receivedAt]
           \in [Fields["source"] -> FieldValue]
    BY <1>7, <1>8, <2>1
  <2> QED BY <1>5, <2>2
<1> QED BY <1>6, <1>9, <1>10
-----------------------------------------------------------------------------
(* The stored reading.                                                     *)

(* A state a robot may report: critical at fault, degraded with a stopped  *)
(* lidar or nearly flat.                                                   *)
Sound(p) ==
    /\ p \in RobotState
    /\ p.health = HealthFor(p.status, p.battery, p.lidarFaulted)

LEMMA EvolvedIsSound ==
    ASSUME RobotInRange, EvolveRobot
    PROVE  Sound(robot)' /\ robot.sequence' = robot.sequence + 1
<1>1. RobotInRange'
  BY EvolveKeepsRange
<1>2. PICK e \in Elapsed :
        LET battery == Clamp(robot.battery + ChargeRate(robot.status) * e, 0, Full)
        IN  \E status \in NextStatuses(robot.status, battery) :
            \E d \in IF status = "busy" THEN Directions ELSE {<<0, 0>>},
               stays \in IF robot.lidarFaulted /\ status # "fault"
                         THEN BOOLEAN ELSE {FALSE} :
                robot' = Evolved(robot, e, status, d, stays)
  BY DEF EvolveRobot
<1>3. PICK status, d, stays : robot' = Evolved(robot, e, status, d, stays)
  BY <1>2
<1>4. /\ robot'.health = HealthFor(robot'.status, robot'.battery, robot'.lidarFaulted)
      /\ robot'.sequence = robot.sequence + 1
  BY <1>3 DEF Evolved
<1> QED BY <1>1, <1>4 DEF RobotInRange, Sound

(* The n-th reading is the one stored.                                     *)
Stores(n, f) ==
    /\ Taken(retained, n)
    /\ slot = WithFreshness(EnvelopeOf(retained, n), f)
    /\ told # Null => /\ Sound(told) /\ told.sequence = n
                      /\ retained = BuildPayload(identity, told, n)

Kept == {"live", "stale", "unreachable"}

(* The store holds the robot's registration, or the envelope of the        *)
(* payload it retains.                                                     *)
SlotInv ==
    \/ slot = RegisteredRobotState(identity) /\ retained = Null /\ told = Null
    \/ \E n \in 0..robot.sequence, f \in Kept : Stores(n, f)

(* The store is left alone, or holds a reading newer than all before.      *)
Advances ==
    \/ UNCHANGED <<slot, retained>>
    \/ Observed(slot)' /\ slot'.reportedAt = robot.sequence + 1

(* A reading that is taken is stored as what its payload says.             *)
LEMMA IngestStores ==
    ASSUME PathInv, SlotInv, EvolveRobot, UNCHANGED identity,
           NEW raw, NEW truth, Ingest(raw, truth),
           raw \in Payloads(identity.vendor),
           ReportedIn(identity.vendor, raw) \in {SentAt, Null},
           truth # Null => truth = robot' /\ raw = BuildPayload(identity, robot', SentAt)
    PROVE  SlotInv' /\ Advances
<1>1. PICK n \in Int : /\ n = SentAt /\ n = robot.sequence + 1
                       /\ robot.sequence \in Nat /\ robot'.sequence = n
  <2>1. robot.sequence' = robot.sequence + 1 /\ robot.sequence \in Nat
    BY EvolvedIsSound DEF PathInv, RobotInRange, RobotState
  <2> QED BY <2>1 DEF SentAt
<1>2. PICK decoded : decoded = Decode(identity.vendor, raw, n + 1)
  OBVIOUS
<1>3. /\ decoded.kind = "ok" => /\ slot' = WithFreshness(decoded.envelope, "live")
                                /\ retained' = raw /\ told' = truth
      /\ decoded.kind # "ok" => UNCHANGED <<slot, retained, told>>
  BY <1>1, <1>2 DEF Ingest, ReceivedAt
<1>4. CASE decoded.kind = "ok"
  <2>1. identity.vendor \in Vendors
    BY PathAssumption DEF PathInv
  <2>2. ReportedIn(identity.vendor, raw) = n
    <3>1. PICK vendor \in Vendors : vendor = identity.vendor
      BY <2>1
    <3>2. PICK at \in Int : at = n + 1
      OBVIOUS
    <3>3. Decode(vendor, raw, at).kind = "ok"
      BY <1>2, <1>4, <3>1, <3>2
    <3>4. DecodedFrom(Decode(vendor, raw, at).envelope, vendor, raw, at)
      BY <3>3, DecodedEnvelope
    <3>5. ReportedIn(vendor, raw) # Null
      BY <3>4 DEF DecodedFrom
    <3> QED BY <1>1, <3>1, <3>5
  <2>3. Taken(raw, n)
    BY <1>2, <1>4, <2>2 DEF Taken
  <2>4. truth # Null => /\ Sound(truth) /\ truth.sequence = n
                        /\ raw = BuildPayload(identity, truth, n)
    <3>1. Sound(robot') /\ robot'.sequence = n
      BY <1>1, EvolvedIsSound DEF PathInv, Sound
    <3> QED BY <1>1, <3>1
  <2>5. Stores(n, "live")'
    BY <1>2, <1>3, <1>4, <2>3, <2>4 DEF Stores, Taken, EnvelopeOf
  <2>6. Observed(slot)' /\ slot'.reportedAt = n
    <3>1. PICK e, f, h : e = EnvelopeOf(raw, n) /\ f = "live" /\ h = Continuity
      OBVIOUS
    <3>2. PICK s : s = WithFreshness(e, f)
      OBVIOUS
    <3>3. Observed(s) /\ s.reportedAt = n
      BY <2>1, <2>3, <3>1, <3>2, DetailOf
    <3>4. slot' = s
      BY <1>2, <1>3, <1>4, <3>1, <3>2 DEF EnvelopeOf
    <3> QED BY <3>3, <3>4 DEF Observed
  <2> QED BY <1>1, <2>5, <2>6 DEF SlotInv, Kept, Advances
<1>5. CASE decoded.kind # "ok"
  <2>1. UNCHANGED <<slot, retained, told>>
    BY <1>3, <1>5
  <2>2. \A m, f : Stores(m, f) => Stores(m, f)'
    BY <2>1 DEF Stores, Taken, EnvelopeOf, Sound
  <2>3. \A m \in 0..robot.sequence : m \in 0..n
    BY <1>1
  <2> QED BY <1>1, <2>1, <2>2, <2>3 DEF SlotInv, Advances
<1> QED BY <1>4, <1>5
(* Any emission, as its dialect would have it or not.                      *)
LEMMA EmissionStores ==
    ASSUME PathInv, SlotInv, Report \/ Misreport
    PROVE  SlotInv' /\ Advances
<1>1. EvolveRobot /\ UNCHANGED identity
  BY DEF Report, Misreport
<1>2. PICK p \in RobotState : p = robot'
  BY <1>1, EvolvedIsSound DEF PathInv, Sound
<1>3. PICK n \in Int : n = SentAt
  BY <1>2 DEF SentAt, RobotState
<1>4. PICK id \in Identity : id = identity /\ id.vendor \in Vendors
  BY PathAssumption DEF PathInv
<1>5. CASE Report
  <2>1. PICK raw : raw = BuildPayload(id, p, n) /\ Ingest(raw, robot')
    BY <1>2, <1>3, <1>4, <1>5 DEF Report
  <2>2. raw \in Payloads(id.vendor)
    BY <2>1, BuiltIsPayload
  <2>3. ReportedIn(id.vendor, BuildPayload(id, p, n)) = n
    <3>1. PICK e : e = Decode(id.vendor, BuildPayload(id, p, n), n).envelope
      OBVIOUS
    <3> QED BY <1>4, <3>1, BuiltTells
  <2> QED BY <1>1, <1>2, <1>3, <1>4, <2>1, <2>2, <2>3, IngestStores
<1>6. CASE Misreport
  <2>1. PICK d \in Distortions[id.vendor] :
           Ingest([BuildPayload(id, p, n) EXCEPT ![d[1]] = d[2]], Null)
    BY <1>2, <1>3, <1>4, <1>6 DEF Misreport
  <2>2. PICK raw : raw = [BuildPayload(id, p, n) EXCEPT ![d[1]] = d[2]]
    OBVIOUS
  <2>3. raw \in Payloads(id.vendor)
    BY <2>2, BuiltIsPayload
  <2>4. ReportedIn(id.vendor, raw) \in {n, Null}
    BY <2>2, DistortedInstant
  <2>5. Ingest(raw, Null)
    BY <2>1, <2>2
  <2> QED BY <1>1, <1>3, <1>4, <2>3, <2>4, <2>5, IngestStores
<1> QED BY <1>5, <1>6

(* A page keeps the evidence it was opened with: none, or that of a        *)
(* reading no newer than the one stored, and that very one if as new.      *)
Holds(n, raw) ==
    /\ Taken(raw, n)
    /\ Observed(slot) /\ n <= slot.reportedAt
    /\ n = slot.reportedAt => raw = retained

VisitInv ==
    visit # Null =>
        \/ visit.diagnostics = Null /\ visit.rawPayload = Null
        \/ \E n \in Nat, h \in Evaluations :
              /\ Holds(n, visit.rawPayload)
              /\ visit.diagnostics = Diagnostics(EnvelopeOf(visit.rawPayload, n), h)

(* What is observed was stored.                                            *)
LEMMA SlotIsObserved ==
    ASSUME PathInv, SlotInv
    PROVE  /\ slot.freshness \in Kept \cup {"unknown"}
           /\ Observed(slot) =>
                 \E n \in 0..robot.sequence, f \in Kept :
                     Stores(n, f) /\ slot.reportedAt = n /\ slot.freshness = f
           /\ ~Observed(slot) => /\ slot = RegisteredRobotState(identity)
                                 /\ retained = Null /\ told = Null
<1>1. identity.vendor \in Vendors
  BY PathAssumption DEF PathInv
<1>2. CASE slot = RegisteredRobotState(identity) /\ retained = Null /\ told = Null
  BY <1>2 DEF Observed, RegisteredRobotState
<1>3. ASSUME NEW n \in 0..robot.sequence, NEW f \in Kept, Stores(n, f)
      PROVE  Observed(slot) /\ slot.reportedAt = n /\ slot.freshness = f
  <2>1. n \in Int
    BY DEF PathInv, RobotInRange, RobotState
  <2>2. PICK raw, e, h : raw = retained /\ e = EnvelopeOf(raw, n) /\ h = Continuity
    OBVIOUS
  <2>3. PICK s : s = WithFreshness(e, f)
    OBVIOUS
  <2>4. Taken(raw, n) /\ slot = s
    BY <1>3, <2>2, <2>3 DEF Stores
  <2> QED BY <1>1, <2>1, <2>2, <2>3, <2>4, DetailOf
<1> QED BY <1>2, <1>3 DEF SlotInv

(* Silence changes the freshness only.                                     *)
LEMMA QuietKeeps ==
    ASSUME PathInv, SlotInv, GoQuiet
    PROVE  /\ SlotInv'
           /\ Observed(slot)' /\ slot'.reportedAt = slot.reportedAt
<1>1. PICK n \in 0..robot.sequence, f \in Kept :
         Stores(n, f) /\ slot.reportedAt = n /\ slot.freshness = f
  BY SlotIsObserved DEF GoQuiet
<1>2. PICK g \in Kept : slot' = WithFreshness(slot, g)
  BY DEF GoQuiet, Kept
<1>3. PICK e : e = EnvelopeOf(retained, n) /\ slot = WithFreshness(e, f)
  BY <1>1 DEF Stores
<1>4. slot' = WithFreshness(e, g) /\ slot'.reportedAt = slot.reportedAt
  BY <1>2, <1>3 DEF WithFreshness
<1>5. Stores(n, g)'
  BY <1>1, <1>3, <1>4 DEF Stores, GoQuiet, Taken, EnvelopeOf, Sound
<1>6. Observed(slot)'
  BY <1>2 DEF Observed, WithFreshness
<1>7. robot' = robot
  BY DEF GoQuiet
<1> QED BY <1>4, <1>5, <1>6, <1>7 DEF SlotInv
(* The page's evidence is no newer than what is stored, whatever is stored *)
(* next.                                                                   *)
LEMMA EvidenceAges ==
    ASSUME PathInv, SlotInv, UNCHANGED identity, NEW n \in Nat, NEW raw, Holds(n, raw),
           Advances \/ (/\ retained' = retained /\ Observed(slot)'
                        /\ slot'.reportedAt = slot.reportedAt)
    PROVE  Holds(n, raw)'
<1>1. PICK m \in Int : m = slot.reportedAt /\ n <= m /\ m < robot.sequence + 1
  <2>1. PICK k \in 0..robot.sequence : slot.reportedAt = k
    BY SlotIsObserved DEF Holds
  <2>2. robot.sequence \in Nat
    BY DEF PathInv, RobotInRange, RobotState
  <2> QED BY <2>1, <2>2 DEF Holds
<1>2. robot.sequence + 1 \in Int
  BY DEF PathInv, RobotInRange, RobotState
<1>3. Taken(raw, n)'
  BY DEF Holds, Taken
<1>4. CASE UNCHANGED <<slot, retained>>
  BY <1>3, <1>4 DEF Holds, Observed
<1>5. CASE Observed(slot)' /\ slot'.reportedAt = robot.sequence + 1
  BY <1>1, <1>2, <1>3, <1>5 DEF Holds
<1>6. CASE retained' = retained /\ Observed(slot)' /\ slot'.reportedAt = slot.reportedAt
  BY <1>3, <1>6 DEF Holds
<1> QED BY <1>4, <1>5, <1>6 DEF Advances

LEMMA VisitKept ==
    ASSUME PathInv, SlotInv, VisitInv, UNCHANGED <<identity, visit>>,
           Advances \/ (/\ retained' = retained /\ Observed(slot)'
                        /\ slot'.reportedAt = slot.reportedAt)
    PROVE  VisitInv'
<1>1. SUFFICES ASSUME visit # Null PROVE VisitInv'
  BY DEF VisitInv
<1>2. CASE visit.diagnostics = Null /\ visit.rawPayload = Null
  BY <1>2 DEF VisitInv
<1>3. ASSUME NEW n \in Nat, NEW h \in Evaluations, Holds(n, visit.rawPayload),
             visit.diagnostics = Diagnostics(EnvelopeOf(visit.rawPayload, n), h)
      PROVE  VisitInv'
  <2>1. PICK raw : raw = visit.rawPayload
    OBVIOUS
  <2>2. Holds(n, raw)'
    BY <1>3, <2>1, EvidenceAges
  <2>3. /\ raw = visit'.rawPayload
        /\ visit'.diagnostics = Diagnostics(EnvelopeOf(raw, n)', h)
    BY <1>3, <2>1 DEF EnvelopeOf
  <2> QED BY <2>2, <2>3 DEF VisitInv
<1> QED BY <1>1, <1>2, <1>3 DEF VisitInv

(* The fields of the row, whatever is stored.                              *)
LEMMA RowIs ==
    ASSUME PathInv, SlotInv
    PROVE  /\ DOMAIN Row = RowFields
           /\ ~Observed(slot) => /\ Row = ToRegisteredRobot(slot)
                                 /\ FetchedDetail = WithEvidence(Row, Null, Null)
           /\ Observed(slot) => \E n \in Nat, h \in Evaluations, f \in Kept :
                 LET e == EnvelopeOf(retained, n)
                 IN  /\ Stores(n, f) /\ slot.reportedAt = n /\ n <= robot.sequence
                     /\ slot.freshness = f
                     /\ Row = ToRobot(WithFreshness(e, f))
                     /\ FetchedDetail = WithEvidence(Row, Diagnostics(e, h), retained)
<1>1. identity.vendor \in Vendors
  BY PathAssumption DEF PathInv
<1>2. CASE ~Observed(slot)
  <2>1. ToWireRobot(slot) = slot /\ Row = ToRegisteredRobot(slot)
    BY <1>2 DEF ToWireRobot, Row, ToRow
  <2>2. FetchedDetail = WithEvidence(Row, Null, Null)
    BY <1>2, <2>1 DEF FetchedDetail, EncodeRobotDetail, ToRobotDetail
  <2> QED BY <1>2, <2>1, <2>2 DEF ToRegisteredRobot, RowFields
<1>3. CASE Observed(slot)
  <2>1. PICK n \in 0..robot.sequence, f \in Kept :
           Stores(n, f) /\ slot.reportedAt = n /\ slot.freshness = f
    BY <1>3, SlotIsObserved
  <2>2. n \in Nat /\ n \in Int /\ n <= robot.sequence
    BY <2>1 DEF PathInv, RobotInRange, RobotState
  <2>3. PICK h : h = Continuity
    OBVIOUS
  <2>4. h \in Evaluations
    BY <2>3 DEF Continuity, Evaluations
  <2>5. PICK raw, e : raw = retained /\ e = EnvelopeOf(raw, n)
    OBVIOUS
  <2>6. PICK s : s = WithFreshness(e, f)
    OBVIOUS
  <2>7. Taken(raw, n) /\ slot = s
    BY <2>1, <2>5, <2>6 DEF Stores
  <2>8. /\ ToRow(ToWireRobot(s)) = ToRobot(s)
        /\ ToRobotDetail(EncodeRobotDetail(s, h, raw))
             = WithEvidence(ToRobot(s), Diagnostics(e, h), raw)
    BY <1>1, <2>2, <2>5, <2>6, <2>7, DetailOf
  <2>9. Row = ToRobot(s) /\ FetchedDetail = WithEvidence(Row, Diagnostics(e, h), raw)
    BY <2>3, <2>5, <2>7, <2>8 DEF Row, FetchedDetail
  <2>10. DOMAIN Row = RowFields
    BY <2>9 DEF ToRobot, RowFields
  <2> QED BY <1>3, <2>1, <2>2, <2>4, <2>5, <2>6, <2>9, <2>10
<1> QED BY <1>2, <1>3

LEMMA OpenedHolds ==
    ASSUME PathInv, SlotInv, OpenDetail
    PROVE  SlotInv' /\ VisitInv'
<1>1. SlotInv'
  BY DEF OpenDetail, SlotInv, Stores, Taken, EnvelopeOf, Sound
<1>2. CASE ~Observed(slot)
  <2>1. PICK row, none : row = Row /\ none = Null
    OBVIOUS
  <2>2. visit' = WithEvidence(row, none, none) /\ DOMAIN row = RowFields
    BY <1>2, <2>1, RowIs DEF OpenDetail
  <2>3. visit'.diagnostics = none /\ visit'.rawPayload = none
    <3>1. Beside(visit', row, none, none)
      BY <2>2, EvidenceIsBeside
    <3> QED BY <3>1 DEF Beside
  <2> QED BY <1>1, <2>1, <2>3 DEF VisitInv
<1>3. CASE Observed(slot)
  <2>1. PICK n \in Nat, h \in Evaluations, f \in Kept :
           /\ Stores(n, f) /\ slot.reportedAt = n
           /\ FetchedDetail = WithEvidence(Row, Diagnostics(EnvelopeOf(retained, n), h), retained)
    BY <1>3, RowIs
  <2>2. PICK row, raw, d : /\ row = Row /\ raw = retained
                           /\ d = Diagnostics(EnvelopeOf(retained, n), h)
    OBVIOUS
  <2>3. visit' = WithEvidence(row, d, raw) /\ DOMAIN row = RowFields
    BY <2>1, <2>2, RowIs DEF OpenDetail
  <2>4. visit'.diagnostics = d /\ visit'.rawPayload = raw
    <3>1. Beside(visit', row, d, raw)
      BY <2>3, EvidenceIsBeside
    <3> QED BY <3>1 DEF Beside
  <2>5. Holds(n, raw)
    BY <1>3, <2>1, <2>2 DEF Holds, Stores
  <2>6. Holds(n, raw)' /\ EnvelopeOf(raw, n)' = EnvelopeOf(raw, n)
    BY <2>5 DEF OpenDetail, Holds, Taken, EnvelopeOf, Observed
  <2> QED BY <1>1, <2>2, <2>4, <2>6 DEF VisitInv
<1> QED BY <1>2, <1>3
(* What every step keeps of the store and of an open page.                 *)
ReadingInv == PathInv /\ SlotInv /\ VisitInv

LEMMA ReadingInvHolds == PathSpec => []ReadingInv
<1>1. PathInit => SlotInv /\ VisitInv
  BY DEF PathInit, SlotInv, VisitInv
<1>2. PathInv /\ SlotInv /\ VisitInv /\ PathInv' /\ [PathNext]_pathVars
        => SlotInv' /\ VisitInv'
  <2> SUFFICES ASSUME PathInv, SlotInv, VisitInv, [PathNext]_pathVars
               PROVE  SlotInv' /\ VisitInv'
    OBVIOUS
  <2>1. CASE Report \/ Misreport
    <3>1. SlotInv' /\ Advances
      BY <2>1, EmissionStores
    <3>2. UNCHANGED <<identity, visit>>
      BY <2>1 DEF Report, Misreport
    <3> QED BY <3>1, <3>2, VisitKept
  <2>2. CASE GoQuiet
    <3>1. SlotInv' /\ Observed(slot)' /\ slot'.reportedAt = slot.reportedAt
      BY <2>2, QuietKeeps
    <3>2. UNCHANGED <<identity, visit>> /\ retained' = retained
      BY <2>2 DEF GoQuiet
    <3> QED BY <3>1, <3>2, VisitKept
  <2>3. CASE OpenDetail
    BY <2>3, OpenedHolds
  <2>4. CASE UNCHANGED pathVars
    <3>1. UNCHANGED <<robot, identity, slot, retained, visit, told>>
      BY <2>4 DEF pathVars
    <3>2. SlotInv'
      BY <3>1 DEF SlotInv, Stores, Taken, EnvelopeOf, Sound
    <3>3. Advances
      BY <3>1 DEF Advances
    <3> QED BY <3>1, <3>2, <3>3, VisitKept
  <2> QED BY <2>1, <2>2, <2>3, <2>4 DEF PathNext
<1> QED BY <1>1, <1>2, PathInvHolds, PTL DEF PathSpec, ReadingInv
-----------------------------------------------------------------------------
(* What the console shows.                                                 *)

LEMMA PageTells ==
    ASSUME ReadingInv
    PROVE  PageTellsReading
<1> DEFINE open == RobotDetailBody(ReconcileDetailWithRow(visit, Row),
                                   "technician", TRUE, Disabled)
           now == RobotDetailBody(FetchedDetail, "technician", TRUE, Disabled)
           source == open.source
           evidence == Decode(identity.vendor, open.rawPayload, source.receivedAt)
           then == ToRobotDetail(EncodeRobotDetail(
                      WithFreshness(evidence.envelope, Row.freshness),
                      open.diagnostics.reading.sequenceHealth, open.rawPayload))
<1> SUFFICES ASSUME visit # Null
             PROVE  /\ open.header = now.header /\ open.summary = now.summary
                    /\ open.capabilities = now.capabilities
                    /\ source = Null <=> open.rawPayload = Null
                    /\ source # Null =>
                          /\ evidence.kind = "ok"
                          /\ open.diagnostics = DiagnosticsSection(then)
                          /\ then.lastSeenAt <= open.summary.lastSeen
                          /\ then.lastSeenAt = open.summary.lastSeen =>
                                SummarySection(then) = open.summary
  BY DEF PageTellsReading
<1>0. PathInv /\ SlotInv /\ VisitInv /\ identity.vendor \in Vendors
  BY PathAssumption DEF ReadingInv, PathInv
<1>1. PICK row : row = Row /\ DOMAIN row = RowFields
  BY <1>0, RowIs
<1>2. PICK d, raw : d = visit.diagnostics /\ raw = visit.rawPayload
  OBVIOUS
<1>3. PICK x : x = WithEvidence(row, d, raw)
  OBVIOUS
<1>4. /\ x.diagnostics = d /\ x.rawPayload = raw
      /\ DetailHeader(x, TRUE) = DetailHeader(row, TRUE)
      /\ SummarySection(x) = SummarySection(row)
      /\ CapabilitiesSection(x, Disabled) = CapabilitiesSection(row, Disabled)
  <2>1. Beside(x, row, d, raw)
    BY <1>1, <1>3, EvidenceIsBeside
  <2> QED BY <2>1 DEF Beside
<1>5. PICK y, dy, ry : y = FetchedDetail /\ y = WithEvidence(row, dy, ry)
  BY <1>0, <1>1, RowIs
<1>6. /\ DetailHeader(y, TRUE) = DetailHeader(row, TRUE)
      /\ SummarySection(y) = SummarySection(row)
      /\ CapabilitiesSection(y, Disabled) = CapabilitiesSection(row, Disabled)
  <2>1. Beside(y, row, dy, ry)
    BY <1>1, <1>5, EvidenceIsBeside
  <2> QED BY <2>1 DEF Beside
<1>7. /\ open.header = DetailHeader(row, TRUE) /\ open.summary = SummarySection(row)
      /\ open.capabilities = CapabilitiesSection(row, Disabled)
      /\ open.diagnostics = DiagnosticsSection(x)
      /\ open.rawPayload = raw /\ open.source = DescribeSource(x)
  BY <1>1, <1>2, <1>3, <1>4 DEF ReconcileDetailWithRow, RobotDetailBody
<1>8. /\ now.header = DetailHeader(row, TRUE) /\ now.summary = SummarySection(row)
      /\ now.capabilities = CapabilitiesSection(row, Disabled)
  BY <1>5, <1>6 DEF RobotDetailBody
<1> HIDE DEF open, now
<1>9. CASE d = Null /\ raw = Null
  <2>1. source = Null
    BY <1>4, <1>7, <1>9 DEF DescribeSource
  <2> QED BY <1>7, <1>8, <1>9, <2>1
<1>10. ASSUME NEW n \in Nat, NEW h \in Evaluations, Holds(n, raw),
              d = Diagnostics(EnvelopeOf(raw, n), h)
       PROVE  /\ source # Null /\ raw # Null
              /\ evidence.kind = "ok"
              /\ open.diagnostics = DiagnosticsSection(then)
              /\ then.lastSeenAt <= open.summary.lastSeen
              /\ then.lastSeenAt = open.summary.lastSeen =>
                    SummarySection(then) = open.summary
  <2>1. PICK e : e = EnvelopeOf(raw, n)
    OBVIOUS
  <2>2. /\ raw # Null /\ d # Null
        /\ [adapter |-> e.adapterId, sequence |-> d.sequence,
            receivedAt |-> e.receivedAt] # Null
    <3>1. Taken(raw, n) /\ n \in Int
      BY <1>10 DEF Holds
    <3> QED BY <1>0, <1>10, <2>1, <3>1, EvidenceIsSome
  <2>3. PICK f : f = row.freshness
    OBVIOUS
  <2>4. PICK s : s = WithFreshness(e, f)
    OBVIOUS
  <2>5. Taken(raw, n) /\ n \in Int /\ Observed(slot) /\ n <= slot.reportedAt
    BY <1>10 DEF Holds
  <2>6. /\ Observed(s) /\ s.reportedAt = n /\ e.receivedAt = n + 1
        /\ ToRobotDetail(EncodeRobotDetail(s, h, raw))
             = WithEvidence(ToRobot(s), Diagnostics(e, h), raw)
    BY <1>0, <2>1, <2>4, <2>5, DetailOf
  <2>7. /\ d.adapterId = e.adapterId /\ d.receivedAt = e.receivedAt
        /\ d.sequenceHealth = h
    BY <1>10, <2>1 DEF Diagnostics
  <2>8. source = [adapter |-> e.adapterId, sequence |-> d.sequence,
                  receivedAt |-> e.receivedAt]
    BY <1>4, <1>7, <2>2, <2>7 DEF DescribeSource
  <2>9. source # Null /\ source.receivedAt = n + 1
    BY <2>2, <2>6, <2>8
  <2>10. evidence.kind = "ok" /\ evidence.envelope = e
    BY <1>7, <2>1, <2>5, <2>9 DEF Taken, EnvelopeOf
  <2>11. open.diagnostics.reading = d /\ open.diagnostics = DiagnosticsSection(x)
    BY <1>4, <1>7, <2>2 DEF DiagnosticsSection
  <2>12. PICK r : r = ToRobot(s)
    OBVIOUS
  <2>13. DOMAIN r = RowFields /\ r.lastSeenAt = n
    BY <2>6, <2>12 DEF ToRobot, RowFields
  <2>14. then = WithEvidence(r, d, raw)
    BY <1>1, <1>7, <1>10, <2>1, <2>3, <2>4, <2>6, <2>7, <2>10, <2>11, <2>12
  <2>15. PICK t : t = then /\ t = WithEvidence(r, d, raw)
    BY <2>14
  <2>16. /\ t.diagnostics = d /\ t.lastSeenAt = n
         /\ SummarySection(t) = SummarySection(r)
    <3>1. Beside(t, r, d, raw)
      BY <2>13, <2>15, EvidenceIsBeside
    <3> QED BY <2>13, <3>1 DEF Beside
  <2>17. DiagnosticsSection(t) = DiagnosticsSection(x)
    BY <1>4, <2>16 DEF DiagnosticsSection, SequenceDisplay
  <2>18. PICK m \in Nat, g \in Kept :
           /\ Stores(m, g) /\ slot.reportedAt = m
           /\ row = ToRobot(WithFreshness(EnvelopeOf(retained, m), g))
    BY <1>0, <1>1, <2>5, RowIs
  <2>19. row.lastSeenAt = m /\ row.freshness = g
    <3>1. row.lastSeenAt = EnvelopeOf(retained, m).reportedAt /\ row.freshness = g
      BY <2>18 DEF ToRobot, WithFreshness
    <3>2. slot.reportedAt = EnvelopeOf(retained, m).reportedAt
      BY <2>18 DEF Stores, WithFreshness
    <3> QED BY <2>18, <3>1, <3>2
  <2>20. SummarySection(row).lastSeen = m
    BY <2>19 DEF SummarySection
  <2>21. n = m => SummarySection(r) = SummarySection(row)
    <3>1. SUFFICES ASSUME n = m PROVE r = row
      OBVIOUS
    <3>2. raw = retained
      BY <1>10, <2>18, <3>1 DEF Holds
    <3> QED BY <2>1, <2>3, <2>4, <2>12, <2>18, <2>19, <3>1, <3>2
  <2> HIDE DEF source, evidence, then
  <2> QED BY <1>7, <2>2, <2>5, <2>9, <2>10, <2>11, <2>15, <2>16, <2>17, <2>18, <2>20, <2>21
<1>11. \/ d = Null /\ raw = Null
       \/ \E n \in Nat, h \in Evaluations :
             Holds(n, raw) /\ d = Diagnostics(EnvelopeOf(raw, n), h)
  BY <1>0, <1>2 DEF VisitInv
<1> HIDE DEF source, evidence, then
<1>12. CASE \E n \in Nat, h \in Evaluations :
               Holds(n, raw) /\ d = Diagnostics(EnvelopeOf(raw, n), h)
  BY <1>7, <1>8, <1>10, <1>12
<1> QED BY <1>9, <1>11, <1>12
(* What is known of the row of a robot that reported as its dialect has    *)
(* it.                                                                     *)
LEMMA ToldRow ==
    ASSUME ReadingInv, told # Null
    PROVE  \E e, f : /\ Sound(told) /\ Tells(e, identity, told)
                     /\ DOMAIN e.capabilities = Declared
                     /\ f = slot.freshness
                     /\ Row = ToRobot(WithFreshness(e, f))
                     /\ FetchedDetail.diagnostics.sequence =
                          IF "sequence" \in Declared THEN told.sequence ELSE Null
<1>1. PathInv /\ SlotInv
  BY DEF ReadingInv
<1>2. PICK id \in Identity : id = identity /\ id.vendor \in Vendors
  BY <1>1, PathAssumption DEF PathInv
<1>3. Observed(slot)
  BY <1>1, SlotIsObserved
<1>4. PICK n \in Nat, h \in Evaluations, f \in Kept :
         /\ Stores(n, f) /\ slot.freshness = f
         /\ Row = ToRobot(WithFreshness(EnvelopeOf(retained, n), f))
         /\ FetchedDetail = WithEvidence(Row, Diagnostics(EnvelopeOf(retained, n), h), retained)
  BY <1>1, <1>3, RowIs
<1>5. PICK p \in RobotState : p = told /\ Sound(p) /\ p.sequence = n
  BY <1>4 DEF Stores, Sound
<1>6. PICK at \in Int : at = n + 1
  OBVIOUS
<1>7. PICK payload : payload = BuildPayload(id, p, n) /\ payload = retained
  BY <1>2, <1>4, <1>5 DEF Stores
<1>8. PICK e : e = Decode(id.vendor, BuildPayload(id, p, n), at).envelope
  OBVIOUS
<1>9. Tells(e, id, p)
  <2>1. n \in Int
    OBVIOUS
  <2> QED BY <1>2, <1>8, <2>1, BuiltTells
<1>10. e = EnvelopeOf(retained, n)
  BY <1>2, <1>6, <1>7, <1>8 DEF EnvelopeOf
<1>11. DOMAIN e.capabilities = Declares(id.vendor)
  <2>1. Decode(id.vendor, payload, at).kind = "ok"
    BY <1>2, <1>4, <1>6, <1>7 DEF Stores, Taken
  <2>2. PICK vendor \in Vendors : vendor = id.vendor
    BY <1>2
  <2>3. DecodedFrom(Decode(vendor, payload, at).envelope, vendor, payload, at)
    BY <2>1, <2>2, DecodedEnvelope
  <2> QED BY <1>7, <1>8, <2>2, <2>3 DEF DecodedFrom
<1>12. Declares(id.vendor) = Declared
  BY <1>2 DEF Declares, Declared
<1>13. FetchedDetail.diagnostics.sequence =
         IF "sequence" \in Declared THEN p.sequence ELSE Null
  <2>1. PICK row, d : row = Row /\ d = Diagnostics(e, h)
    OBVIOUS
  <2>2. DOMAIN row = RowFields
    BY <1>1, <2>1, RowIs
  <2>3. FetchedDetail = WithEvidence(row, d, retained)
    BY <1>4, <1>10, <2>1
  <2>4. PICK raw : raw = retained
    OBVIOUS
  <2>5. Beside(WithEvidence(row, d, raw), row, d, raw)
    BY <2>2, EvidenceIsBeside
  <2>6. FetchedDetail.diagnostics = d
    BY <2>3, <2>4, <2>5 DEF Beside
  <2>7. d.sequence = IF "sequence" \in Declared THEN p.sequence ELSE Null
    BY <1>9, <1>11, <1>12, <2>1 DEF Diagnostics, Tells
  <2> QED BY <2>6, <2>7
<1> QED BY <1>2, <1>4, <1>5, <1>9, <1>10, <1>11, <1>12, <1>13

LEMMA RowTells ==
    ASSUME ReadingInv
    PROVE  RowTellsReading
<1> SUFFICES ASSUME told # Null PROVE RowTellsReading
  BY DEF RowTellsReading
<1>1. PICK e, f : /\ Sound(told) /\ Tells(e, identity, told)
                  /\ DOMAIN e.capabilities = Declared
                  /\ Row = ToRobot(WithFreshness(e, f))
                  /\ FetchedDetail.diagnostics.sequence =
                       IF "sequence" \in Declared THEN told.sequence ELSE Null
  BY ToldRow
<1>2. /\ Row.id = e.robotId /\ Row.vendor = e.vendorId
      /\ Row.status = e.core.status /\ Row.health = e.core.health
      /\ Row.batteryPercent = e.core.batteryPercent
      /\ Row.position = e.core.position /\ Row.capabilities = e.capabilities
  BY <1>1 DEF ToRobot, WithFreshness
<1>3. /\ ChargeUnit = TellsUnit(identity.vendor, 100, 10000)
      /\ PoseUnit = TellsUnit(identity.vendor, 10, 100)
  BY DEF ChargeUnit, PoseUnit, TellsUnit
<1>4. identity.vendor \in Vendors
  BY PathAssumption DEF ReadingInv, PathInv
<1>5. Declared = Declares(identity.vendor)
  BY <1>4 DEF Declared, Declares
<1> HIDE DEF Row
<1> QED BY <1>1, <1>2, <1>3, <1>5 DEF RowTellsReading, Tells

LEMMA TroubleShows ==
    ASSUME ReadingInv
    PROVE  TroubleIsVisible
<1> DEFINE chip == StatusPresentation(Row)
           panels == PanelCapabilities(Row, Disabled)
           D == {name \in DOMAIN Row.capabilities :
                    CAPABILITY_KINDS[name] = "operator" /\ name \notin Disabled}
<1>1. PathInv /\ SlotInv
  BY DEF ReadingInv
<1>2. panels = InCanonicalOrder(D)
  BY DEF PanelCapabilities
<1>3. Row.freshness = slot.freshness
  <2>1. CASE ~Observed(slot)
    BY <1>1, <2>1, RowIs DEF ToRegisteredRobot
  <2>2. CASE Observed(slot)
    <3>1. PICK n \in Nat, f \in Kept :
             /\ slot.freshness = f
             /\ Row = ToRobot(WithFreshness(EnvelopeOf(retained, n), f))
      BY <1>1, <2>2, RowIs
    <3> QED BY <3>1 DEF ToRobot, WithFreshness
  <2> QED BY <2>1, <2>2
<1>4. chip.current <=> slot.freshness = "live"
  BY <1>3 DEF StatusPresentation
<1>5. ~chip.current => BatteryDisplay(Row) = Null /\ PositionDisplay(Row) = Null
  BY DEF StatusPresentation, BatteryDisplay, PositionDisplay
<1>6. ASSUME ~Observed(slot)
      PROVE  chip.variant = "unknown" /\ panels = << >>
  <2>1. Row = ToRegisteredRobot(slot)
    BY <1>1, <1>6, RowIs
  <2>2. Row.status = "unknown" /\ Row.health = Null /\ Row.capabilities = << >>
    BY <2>1 DEF ToRegisteredRobot
  <2>3. Null # "critical" /\ Null # "degraded"
    BY PathAssumption DEF Levels
  <2>4. chip.variant = "unknown"
    BY <2>2, <2>3 DEF StatusPresentation, Variant
  <2>5. D = {} /\ D \in SUBSET CapabilityNames
    BY <2>2
  <2> HIDE DEF D
  <2>6. Orders(InCanonicalOrder(D), D)
    BY <2>5, OrderedAre
  <2> QED BY <1>2, <2>4, <2>5, <2>6 DEF Orders
<1>7. ASSUME told # Null
      PROVE  /\ chip.label = told.status
             /\ told.status = "fault" <=> chip.variant = "fault"
             /\ (told.health # "nominal" \/ told.lidarFaulted \/ told.battery < 10000)
                   <=> chip.variant \in {"fault", "degraded"}
             /\ {panels[i] : i \in DOMAIN panels} = Declared \ ({"sequence"} \cup Disabled)
             /\ panels[1] = "dock"
  <2>1. PICK e, f : /\ Sound(told) /\ Tells(e, identity, told)
                    /\ DOMAIN e.capabilities = Declared
                    /\ Row = ToRobot(WithFreshness(e, f))
    BY <1>7, ToldRow
  <2>2. /\ Row.status = told.status /\ Row.health = told.health
        /\ DOMAIN Row.capabilities = Declared
    BY <2>1 DEF ToRobot, WithFreshness, Tells
  <2>3. /\ told.health = HealthFor(told.status, told.battery, told.lidarFaulted)
        /\ told.status \in {"idle", "busy", "charging", "fault"}
        /\ told.battery \in Int
    BY <2>1, Scales DEF Sound, RobotState, SimStatus
  <2>4. chip.label = told.status /\ chip.variant = Variant(told.status, told.health)
    BY <2>2 DEF StatusPresentation
  <2>5. told.status = "fault" <=> Variant(told.status, told.health) = "fault"
    BY <2>3 DEF Variant, HealthFor
  <2>6. (told.health # "nominal" \/ told.lidarFaulted \/ told.battery < 10000)
           <=> Variant(told.status, told.health) \in {"fault", "degraded"}
    BY <2>3 DEF Variant, HealthFor
  <2>7. identity.vendor \in Vendors /\ Disabled \subseteq {"lidarHealth"}
    BY <1>1, PathAssumption DEF PathInv
  <2>8. /\ D = Declared \ ({"sequence"} \cup Disabled)
        /\ "dock" \in D /\ D \in SUBSET CapabilityNames
    BY <2>2, <2>7 DEF Declared, CAPABILITY_KINDS, CapabilityNames, Vendors
  <2> HIDE DEF D
  <2>9. PICK s : s = InCanonicalOrder(D) /\ Orders(s, D)
    BY <2>8, OrderedAre
  <2>10. {s[i] : i \in DOMAIN s} = D /\ s[1] = "dock"
    <3>1. /\ \A k \in DOMAIN s : s[k] \in D
          /\ \A name \in D : \E k \in DOMAIN s : s[k] = name
          /\ s[1] = "dock"
      BY <2>8, <2>9 DEF Orders
    <3> QED BY <3>1
  <2> QED BY <1>2, <2>4, <2>5, <2>6, <2>8, <2>9, <2>10
<1> QED BY <1>4, <1>5, <1>6, <1>7 DEF TroubleIsVisible
-----------------------------------------------------------------------------
(* The row tells what the robot last reported, and an open page what the   *)
(* row and one accepted reading say, whatever was reported, refused and    *)
(* opened before.                                                          *)
THEOREM ConsoleAlwaysTells == PathSpec => []ConsoleTellsReading
<1>1. ReadingInv => ConsoleTellsReading
  BY RowTells, PageTells DEF ConsoleTellsReading
<1> QED BY <1>1, ReadingInvHolds, PTL

(* An operator always sees trouble, and never takes for current what is    *)
(* not.                                                                    *)
THEOREM TroubleIsAlwaysVisible == PathSpec => []TroubleIsVisible
<1>1. ReadingInv => TroubleIsVisible
  BY TroubleShows
<1> QED BY <1>1, ReadingInvHolds, PTL
-----------------------------------------------------------------------------
(* What is stored can be served, as long as it is readable.                *)
ReachInv == Observed(slot) => Readable(identity, retained)

LEMMA ReadableIsServable ==
    ASSUME ReadingInv, ReachInv
    PROVE  AcceptedIsServable
<1> DEFINE peer == RegisteredRobotState(Peer)
           wire == ToWireRobot(slot)
<1>1. PathInv /\ SlotInv
  BY DEF ReadingInv
<1>2. /\ ToWireRobot(peer) = peer /\ ~Observed(peer)
      /\ peer.siteId = Peer.siteId /\ peer.freshness = "unknown"
  BY DEF RegisteredRobotState, Observed, ToWireRobot
<1> HIDE DEF peer
<1>3. /\ Snapshot.sites = {identity.siteId, Peer.siteId}
      /\ Snapshot.robots = {ToWireRobot(s) : s \in {slot, peer}}
  BY DEF Snapshot, EncodeFleetSnapshot, peer
<1>4. Snapshot.robots = {wire, peer}
  BY <1>2, <1>3
<1>5. CASE ~Observed(slot)
  <2>1. slot = RegisteredRobotState(identity)
    BY <1>1, <1>5, SlotIsObserved
  <2>2. wire = slot /\ wire.siteId = identity.siteId /\ wire.freshness = "unknown"
    BY <1>5, <2>1 DEF ToWireRobot, RegisteredRobotState
  <2> QED BY <1>2, <1>3, <1>4, <1>5, <2>2 DEF AcceptedIsServable, SnapshotConforms
<1>6. CASE Observed(slot)
  <2>1. PICK n \in 0..robot.sequence, f \in Kept : Stores(n, f)
    BY <1>1, <1>6, SlotIsObserved
  <2>2. PICK id \in Identity : id = identity /\ id.vendor \in Vendors
    BY <1>1, PathAssumption DEF PathInv
  <2>3. PICK at, raw : at = n + 1 /\ raw = retained
    OBVIOUS
  <2>4. PICK e : e = Decode(id.vendor, raw, at).envelope
    OBVIOUS
  <2>5. Decode(id.vendor, raw, at).kind = "ok" /\ Readable(id, raw)
    BY <1>6, <2>1, <2>2, <2>3 DEF Stores, Taken, ReachInv
  <2>6. Carried(e, id)
    BY <2>2, <2>4, <2>5, ReadableIsCarried
  <2>7. DOMAIN e.capabilities \subseteq CapabilityNames
    <3>1. PICK vendor \in Vendors : vendor = id.vendor
      BY <2>2
    <3>2. DecodedFrom(Decode(vendor, raw, at).envelope, vendor, raw, at)
      BY <2>5, <3>1, DecodedEnvelope
    <3> QED BY <2>4, <3>1, <3>2 DEF DecodedFrom
  <2>8. PICK c : c = e.capabilities
    OBVIOUS
  <2>9. CapabilitiesConform(EncodeCapabilities(c))
    BY <2>6, <2>7, <2>8, EncodedConforms DEF Carried
  <2>10. slot = WithFreshness(e, f)
    BY <2>1, <2>2, <2>3, <2>4 DEF Stores, EnvelopeOf
  <2>11. wire = EncodeCanonicalEnvelope(slot)
    BY <1>6 DEF ToWireRobot
  <2>12. /\ wire.siteId = id.siteId /\ wire.core = e.core /\ wire.freshness = f
         /\ wire.capabilities = EncodeCapabilities(c)
         /\ Observed(wire)
    BY <2>6, <2>8, <2>10, <2>11
       DEF EncodeCanonicalEnvelope, WithFreshness, Observed, Carried
  <2> HIDE DEF wire
  <2>13. EnvelopeConforms(wire)
    BY <2>6, <2>9, <2>12 DEF EnvelopeConforms, Carried, Kept, FreshnessStates
  <2> QED BY <1>2, <1>3, <1>4, <2>2, <2>12, <2>13 DEF AcceptedIsServable, SnapshotConforms
<1> QED BY <1>5, <1>6

LEMMA StaysReadable ==
    ASSUME \A v \in Vendors : \A d \in Distortions[v] : InReach(d),
           PathInv, ReachInv, [PathNext]_pathVars
    PROVE  ReachInv'
<1>1. PICK id \in Identity : id = identity /\ id.vendor \in Vendors
  BY PathAssumption DEF PathInv
<1>2. ASSUME EvolveRobot, UNCHANGED identity, NEW raw, NEW truth, Ingest(raw, truth),
             Readable(id, raw)
      PROVE  ReachInv'
  <2>1. retained' = raw \/ UNCHANGED <<slot, retained>>
    BY <1>2 DEF Ingest
  <2>2. CASE retained' = raw
    BY <1>1, <1>2, <2>2 DEF ReachInv
  <2>3. CASE UNCHANGED <<slot, retained>>
    BY <1>2, <2>3 DEF ReachInv, Observed
  <2> QED BY <2>1, <2>2, <2>3
<1>3. CASE Report \/ Misreport
  <2>1. EvolveRobot /\ UNCHANGED identity
    BY <1>3 DEF Report, Misreport
  <2>2. PICK p \in RobotState : p = robot'
    BY <2>1, EvolvedIsSound DEF PathInv, Sound
  <2>3. PICK now : now = SentAt
    OBVIOUS
  <2>4. CASE Report
    <3>1. PICK raw : raw = BuildPayload(id, p, now) /\ Ingest(raw, robot')
      BY <1>1, <2>2, <2>3, <2>4 DEF Report
    <3>2. Readable(id, raw)
      BY <1>1, <3>1, BuiltIsReadable
    <3> QED BY <1>2, <2>1, <3>1, <3>2
  <2>5. CASE Misreport
    <3>1. PICK d \in Distortions[id.vendor] :
             Ingest([BuildPayload(id, p, now) EXCEPT ![d[1]] = d[2]], Null)
      BY <1>1, <2>2, <2>3, <2>5 DEF Misreport
    <3>2. InReach(d)
      BY <1>1
    <3>3. PICK raw : raw = [BuildPayload(id, p, now) EXCEPT ![d[1]] = d[2]]
      OBVIOUS
    <3>4. Readable(id, raw)
      BY <1>1, <3>2, <3>3, BuiltIsReadable
    <3>5. Ingest(raw, Null)
      BY <3>1, <3>3
    <3> QED BY <1>2, <2>1, <3>4, <3>5
  <2> QED BY <1>3, <2>4, <2>5
<1>4. CASE GoQuiet
  BY <1>4 DEF GoQuiet, ReachInv
<1>5. CASE OpenDetail \/ UNCHANGED pathVars
  BY <1>5 DEF OpenDetail, pathVars, ReachInv, Observed
<1> QED BY <1>3, <1>4, <1>5 DEF PathNext

(* As long as payloads outside the dialect say a place the contract can    *)
(* carry, the fleet snapshot can be decoded, whatever else is wrong with   *)
(* them and whatever the robot goes through: the coordinate is the only    *)
(* range that the adapters leave open.                                     *)
THEOREM AcceptedIsAlwaysServable ==
    ASSUME \A v \in Vendors : \A d \in Distortions[v] : InReach(d)
    PROVE  PathSpec => []AcceptedIsServable
<1>1. PathInit => ReachInv
  BY DEF PathInit, ReachInv, Observed, RegisteredRobotState
<1>2. PathInv /\ ReachInv /\ [PathNext]_pathVars => ReachInv'
  BY StaysReadable
<1>3. ReadingInv /\ ReachInv => AcceptedIsServable
  BY ReadableIsServable
<1>4. ReadingInv => PathInv
  BY DEF ReadingInv
<1> QED BY <1>1, <1>2, <1>3, <1>4, ReadingInvHolds, PTL DEF PathSpec
==============================================================================
