----------------------------- MODULE ResourceHook -----------------------------
(***************************************************************************)
(* What the console's fetching hooks (web/src/entities/robot               *)
(* useRobotDetail, useRobotHistory) have in common, as functions on the    *)
(* hook's state: an id, an attempt that retry advances, an effect that     *)
(* fetches whenever either changed and aborts the fetch before, and a      *)
(* result kept together with the id it is for.                             *)
(***************************************************************************)
EXTENDS Naturals

CONSTANTS
    Robot,    \* what a page may be asked to show
    Null      \* nothing loaded, no effect run yet

(* RobotDetailState and RobotHistoryState are records of a status; a ready *)
(* one names the robot in the response and, of a detail, its version.      *)
Loading == [status |-> "loading"]

Ended == [status : {"not-found", "recoverable", "terminal"}]
Answer == [status : {"ready"}, robot : Robot, version : Nat] \cup Ended

(* ran is what the effect last ran for; heard, the request whose signal is *)
(* not aborted; loaded, the last result that was listened for.             *)
Loaded == [forId : Robot, value : Answer]
Hook == [id : Robot, attempt : Nat, ran : (Robot \X Nat) \cup {Null},
         heard : Nat, loaded : Loaded \cup {Null}]

Mounted(id) ==
    [id |-> id, attempt |-> 0, ran |-> Null, heard |-> 0, loaded |-> Null]

(* Mutant: the effect depends on nothing. *)
EffectDueOnce(h) == h.ran = Null

(* The render has changed what the effect depends on. *)
EffectDue(h) == h.ran # <<h.id, h.attempt>>

(* Cleanup of the previous effect, and request n instead of its own.       *)
EffectRuns(h, n) == [h EXCEPT !.ran = <<h.id, h.attempt>>, !.heard = n]

RetryClicked(h) == [h EXCEPT !.attempt = @ + 1]

(* Mutant: whatever answers is shown. *)
LandsUnchecked(h, n, id, value) ==
    [h EXCEPT !.loaded = [forId |-> id, value |-> value]]

(* Request n, made for id, has settled. *)
Lands(h, n, id, value) ==
    IF n = h.heard THEN [h EXCEPT !.loaded = [forId |-> id, value |-> value]]
    ELSE h

(* Mutant: the result for the robot before is shown until the new one's.   *)
ShownUnchecked(h) == IF h.loaded # Null THEN h.loaded.value ELSE Loading

Shown(h) ==
    IF h.loaded # Null /\ h.loaded.forId = h.id THEN h.loaded.value ELSE Loading
==============================================================================
