------------------------------ MODULE MCRobotPage ------------------------------
(* Small instances of RobotPage for TLC. *)
EXTENDS RobotPage

CONSTANTS r1, r2

\* The second robot is a wrong link.
MCRegistered == {r1}
==============================================================================
