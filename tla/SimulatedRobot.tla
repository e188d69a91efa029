---------------------------- MODULE SimulatedRobot ----------------------------
(***************************************************************************)
(* How one simulated robot's observed values evolve from reading to        *)
(* reading (packages/simulator simulatedRobot.ts, createFleet.ts).         *)
(*                                                                         *)
(* Charge and tank are in hundred-thousandths of full, coordinates in      *)
(* tenths of a millimetre: finer than any dialect, so that every dialect   *)
(* has something to round.  A random draw is a choice.  The heading itself *)
(* is left out, for no adapter reads it: a busy robot moves in any of      *)
(* Directions.                                                             *)
(***************************************************************************)
EXTENDS Integers

CONSTANTS
    Elapsed,      \* seconds that may pass between two readings: 1 / --hz, or
                  \* more when the scheduler has coalesced overdue work
    Directions,   \* <<cos, sin>> of the headings, in hundredths
    Built         \* states createFleet may give the robot

Full       == 100000
HalfExtent == 400000    \* SITE_HALF_EXTENT_M
Speed      == 4500      \* SPEED_M_PER_SECOND
SeekDock   == 20000     \* BATTERY_SEEK_DOCK
ResumeWork == 95000     \* BATTERY_RESUME_WORK
LidarRpm   == 600

(* One reading carries a robot at most across the site: with longer ones   *)
(* the single reflection of Reflect does not bring it back inside.         *)
ASSUME StepAssumption ==
    /\ Elapsed \subseteq Nat
    /\ \A e \in Elapsed : e * Speed <= 2 * HalfExtent
    /\ Directions \subseteq (-100..100) \X (-100..100)

VARIABLE robot    \* RobotState

SimStatus == {"idle", "busy", "charging", "fault"}
SimHealth == {"nominal", "degraded", "critical"}

Coordinates == -HalfExtent..HalfExtent

RobotState == [battery : 0..Full, x : Coordinates, y : Coordinates,
               status : SimStatus, health : SimHealth, docked : BOOLEAN,
               lidarFaulted : BOOLEAN, lidarRpm : {0, LidarRpm},
               waterLevel : 0..Full, sequence : Nat]

(* Mutant: nothing keeps a value in its range. *)
Unclamped(value, low, high) == value

Clamp(value, low, high) ==
    IF value < low THEN low ELSE IF value > high THEN high ELSE value

(* A coordinate past the edge comes back by as much. *)
Reflect(value, extent) ==
    IF value > extent THEN extent - (value - extent)
    ELSE IF value < -extent THEN -extent - (value + extent)
    ELSE value

(* Battery per second: CHARGE_GAIN, BUSY_DRAIN and IDLE_DRAIN. *)
ChargeRate(status) ==
    CASE status = "charging" -> 550 [] status = "busy" -> -90 [] OTHER -> -20

(* What nextStatus may draw. *)
NextStatuses(status, battery) ==
    CASE status = "fault" -> {"idle", "fault"}
      [] status = "charging" ->
            {IF battery >= ResumeWork THEN "idle" ELSE "charging"}
      [] OTHER ->
            IF battery <= SeekDock THEN {"charging"}
            ELSE {"idle", "busy", "fault"}

HealthFor(status, battery, lidarFaulted) ==
    IF status = "fault" THEN "critical"
    ELSE IF lidarFaulted \/ battery < 10000 THEN "degraded"
    ELSE "nominal"

(* initialState: charge, tank and position within these. *)
LeastCharge == 35000
LeastTank   == 40000
StartExtent == 300000

InitialStates ==
    [battery : LeastCharge..Full, x : -StartExtent..StartExtent,
     y : -StartExtent..StartExtent, status : {"idle", "busy"},
     health : {"nominal"}, docked : {FALSE}, lidarFaulted : {FALSE},
     lidarRpm : {LidarRpm}, waterLevel : LeastTank..Full, sequence : {0}]

ASSUME BuiltAssumption == Built \subseteq InitialStates

SimInit == robot \in Built

(* evolveRobot: the robot after seconds more, having drawn status, moved   *)
(* towards d if it is busy, and kept its lidar fault if stays.             *)
Evolved(p, seconds, status, d, stays) ==
    LET battery == Clamp(p.battery + ChargeRate(p.status) * seconds, 0, Full)
        faulted == status = "fault" \/ (p.lidarFaulted /\ stays)
    IN  [battery      |-> battery,
         x            |-> Reflect(p.x + 45 * seconds * d[1], HalfExtent),
         y            |-> Reflect(p.y + 45 * seconds * d[2], HalfExtent),
         status       |-> status,
         health       |-> HealthFor(status, battery, faulted),
         docked       |-> status = "charging",
         lidarFaulted |-> faulted,
         lidarRpm     |-> IF faulted THEN 0 ELSE LidarRpm,
         waterLevel   |-> Clamp(IF status = "busy" THEN p.waterLevel - 60 * seconds
                                ELSE p.waterLevel, 0, Full),
         sequence     |-> p.sequence + 1]

(* A heading is drawn only to move, a recovery only from a lidar fault. *)
EvolveRobot ==
    \E seconds \in Elapsed :
        LET battery == Clamp(robot.battery + ChargeRate(robot.status) * seconds,
                             0, Full)
        IN  \E status \in NextStatuses(robot.status, battery) :
            \E d \in IF status = "busy" THEN Directions ELSE {<<0, 0>>},
               stays \in IF robot.lidarFaulted /\ status # "fault"
                         THEN BOOLEAN ELSE {FALSE} :
                robot' = Evolved(robot, seconds, status, d, stays)

SimSpec == SimInit /\ [][EvolveRobot]_robot
-----------------------------------------------------------------------------
(* Every value the robot may report is a possible one: charge and tank     *)
(* within full, the robot on its site, docked exactly while it charges and *)
(* critical exactly while it is at fault (evolveRobot: "battery and        *)
(* position are bounded on every path").                                   *)
RobotInRange ==
    /\ robot \in RobotState
    /\ robot.docked <=> robot.status = "charging"
    /\ robot.health = "critical" <=> robot.status = "fault"
    /\ robot.lidarFaulted <=> robot.lidarRpm = 0
==============================================================================
