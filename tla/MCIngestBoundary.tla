-------------------------- MODULE MCIngestBoundary --------------------------
(* A small instance of IngestBoundary for TLC: two robots of a vendor that *)
(* numbers its readings, whose payloads all carry one undeclared field,    *)
(* and one robot of a vendor that does not number them.                    *)
EXTENDS IngestBoundary

CONSTANTS c1, c2, b1

MCVendorOf == [r \in Robot |-> IF r = b1 THEN "B" ELSE "C"]

MCUndeclared == [v \in Vendor |-> IF v = "C" THEN {1} ELSE {0}]
=============================================================================
