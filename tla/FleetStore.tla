------------------------------ MODULE FleetStore ------------------------------
(***************************************************************************)
(* The console's fleet resource (web/src/entities/robot/fleetStore): its   *)
(* phase and the rows it holds.  A row is the version of the robot's state *)
(* it was last given, or Null when the console has none.  Notification     *)
(* scheduling, site directory and provenance instants are left out.        *)
(***************************************************************************)
EXTENDS StreamLifecycle, Sequences, FiniteSetsExt

CONSTANT Robot

ResourcePhase == {"loading", "ready", "refreshing", "recoverable-error",
                  "terminal-error"}

Rows == [Robot -> Nat \cup {Null}]

(* held is whether a snapshot was ever applied (held # null). *)
StoreState == [phase : ResourcePhase,
               held  : BOOLEAN,
               rows  : Rows]

InitialStore == [phase |-> "loading",
                 held  |-> FALSE,
                 rows  |-> [r \in Robot |-> Null]]

(* Refreshing only over settled rows. *)
SnapshotStart(st) ==
    [st EXCEPT !.phase = IF st.held THEN "refreshing" ELSE "loading"]

(* The snapshot is the whole fleet: it replaces, never merges. *)
ApplySnapshot(st, rows) ==
    [phase |-> "ready", held |-> TRUE, rows |-> rows]

(* Which of the batches at these positions name r. *)
Naming(batches, at, r) == {i \in at : batches[i].rows[r] # Null}

(* Rows after the batches at these positions, in order: each robot is as   *)
(* the last one that names it says, or as it was.                          *)
Overlay(rows, batches, at) ==
    [r \in Robot |->
        IF Naming(batches, at, r) = {} THEN rows[r]
        ELSE batches[Max(Naming(batches, at, r))].rows[r]]

ApplyBatches(st, batches, at) ==
    [st EXCEPT !.rows = Overlay(@, batches, at)]

RecoverableFailure(st) == [st EXCEPT !.phase = "recoverable-error"]

TerminalFailure(st) == [st EXCEPT !.phase = "terminal-error"]

(* Mutant: every terminal cause is offered as recoverable. *)
FollowAnyCause(st, s) ==
    CASE s.phase \in {"connecting", "reconnecting"} -> SnapshotStart(st)
      [] s.phase = "failed" -> RecoverableFailure(st)
      [] OTHER -> st

(* What a transition of the stream does to the resource: onConnectionState *)
(* in useFleetTransport.  A contract failure has already said so itself.   *)
Follow(st, s) ==
    CASE s.phase \in {"connecting", "reconnecting"} -> SnapshotStart(st)
      [] s.phase = "failed" /\ s.cause # "contract" -> RecoverableFailure(st)
      [] OTHER -> st
==============================================================================
