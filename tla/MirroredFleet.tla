----------------------------- MODULE MirroredFleet -----------------------------
(***************************************************************************)
(* What the stream promises of the rows a console shows, without sockets,  *)
(* frames or snapshots: every row is a state the server really had for     *)
(* that robot, and it only moves forward.  A robot a restarted server has  *)
(* not heard yet goes back to having no row.                               *)
(***************************************************************************)
EXTENDS Naturals

CONSTANTS Robot, Null

VARIABLES
    newest,    \* per robot: the version the server last stored; 0 = none
    rows       \* per robot: the version the console shows, or Null

vars == <<newest, rows>>

Init ==
    /\ newest = [r \in Robot |-> 0]
    /\ rows = [r \in Robot |-> Null]

Report(r) ==
    /\ newest' = [newest EXCEPT ![r] = @ + 1]
    /\ UNCHANGED rows

Shown(r) == IF rows[r] = Null THEN 0 ELSE rows[r]

(* Any set of rows may be brought forward together, as a frame or a        *)
(* snapshot does; none of them past what the server has.                   *)
Show ==
    /\ UNCHANGED newest
    /\ rows' \in [Robot -> (UNION {1..newest[r] : r \in Robot}) \cup {Null}]
    /\ \A r \in Robot : rows'[r] # Null => rows'[r] \in Shown(r)..newest[r]

Next == Show \/ \E r \in Robot : Report(r)

Spec == Init /\ [][Next]_vars
==============================================================================
