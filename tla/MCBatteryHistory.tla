--------------------------- MODULE MCBatteryHistory ---------------------------
(* Small instances of BatteryHistory for TLC. *)
EXTENDS BatteryHistory

MCLevel == {1, 2, 3}
==============================================================================
