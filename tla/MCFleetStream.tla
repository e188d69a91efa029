---------------------------- MODULE MCFleetStream ----------------------------
(* Small instances of FleetStream for TLC. *)
EXTENDS FleetStream, TLC

CONSTANTS r1, r2    \* two robots

Symmetric == Permutations(Robot)

\* A session flushes at most once per change and MaxElsewhere times more.
MaxFlushes == MaxChanges + MaxElsewhere

MCMessages == [session : Session, seq : 0..MaxFlushes,
               rows : [Robot -> 1..MaxChanges \cup {Null}]]

\* No bound of FleetTransport may stop a frame or a close that this module
\* allows: every flush of a session may be buffered, and besides what drops
\* each restart closes at most one live socket.
ASSUME BoundsSuffice ==
    /\ MaxFlushes <= MaxBuffer
    /\ MaxDrops + Cardinality(Session) - 1 <= MaxFaults
==============================================================================
