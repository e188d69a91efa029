-------------------------- MODULE MCTelemetryDelivery --------------------------
(* Small instances of TelemetryDelivery for TLC: robots are their indices. *)
EXTENDS TelemetryDelivery

\* The first robot's dialect carries a counter, the second's does not.
MCNumbered == {1}

MCDroppable == {2}
==============================================================================
