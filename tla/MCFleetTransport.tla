--------------------------- MODULE MCFleetTransport ---------------------------
(* Small instances of FleetTransport for TLC: one robot whose rows carry a *)
(* single version, so that only sessions and sequences tell messages apart *)
EXTENDS FleetTransport

CONSTANTS r1, s1, s2    \* a robot and two server runtimes

Carrying(seqs) == [session : {s1, s2}, seq : seqs, rows : {[r \in Robot |-> 0]}]

\* A snapshot before the first flush or after it, and frames of that flush.
MCSnapshots == Carrying(0..1)
MCFrames == Carrying({1})
==============================================================================
