--------------------------- MODULE MCTelemetryPath ---------------------------
(* Small instances of TelemetryPath for TLC. *)
EXTENDS TelemetryPath

CONSTANTS r1, r2, north, south, dock1    \* names

(* One robot of each vendor. *)
MCIdentity == [robotId : {r1}, siteId : {north}, vendor : Vendors,
               model : {"model"}, dockId : {dock1}]

MCPeer == [robotId |-> r2, siteId |-> south, vendor |-> "A", model |-> "model",
           dockId |-> dock1]

(* Off every dialect's grid, near half a unit, near the edge and near full;
   from the lower charge a robot at fault gets nearly flat. *)
MCBuilt ==
    [battery : {35305, 99996}, x : {-299996}, y : {123450}, status : {"busy"},
     health : {"nominal"}, docked : {FALSE}, lidarFaulted : {FALSE},
     lidarRpm : {LidarRpm}, waterLevel : {40507}, sequence : {0}]

MCDirections == {<<100, 0>>, <<-60, 80>>}

(* Codes, states, levels and instants outside the documented dialect, and *)
(* a coordinate at the edge of what the contract can carry.               *)
Strange == {<<"state", "paused">>, <<"level", 10001>>, <<"timestamp", Null>>,
            <<"x_m", -MaxPosition>>}

MCDistortions ==
    [v \in Vendors |->
        CASE v = "A" -> Strange \cup {<<"health", "fine">>, <<"rpm", 10001>>}
          [] v = "B" -> {<<"status_code", 4>>, <<"health_code", 3>>,
                         <<"dock_state", 2>>, <<"batt_pct", 101>>, <<"ts", Null>>,
                         <<"x_cm", MaxPosition \div 10>>}
          [] v = "C" -> Strange \cup {<<"level_pct", 101>>}]

(* A frame or unit error: further than any site reaches. *)
FarDistortions == [v \in Vendors |->
    IF v = "B" THEN {<<"x_cm", MaxPosition \div 10 + 1>>}
    ELSE {<<"x_m", MaxPosition + 1>>}]
==============================================================================
