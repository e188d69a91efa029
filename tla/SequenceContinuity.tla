-------------------------- MODULE SequenceContinuity --------------------------
(***************************************************************************)
(* What the server makes of a robot's counter (server/src/state/           *)
(* currentStateStore): which reading is newer, and the continuity counts   *)
(* the diagnostic endpoint serves.                                         *)
(***************************************************************************)
EXTENDS Integers

CONSTANT Null    \* the code's null: no reading yet, a dialect without a counter

(* SequenceHealth: not evaluated for a dialect without a counter. *)
Evaluated(g, d) == [evaluated |-> TRUE, gaps |-> g, duplicates |-> d]
NotEvaluated    == [evaluated |-> FALSE, gaps |-> 0, duplicates |-> 0]
SequenceHealth  == [evaluated : BOOLEAN, gaps : Nat, duplicates : Nat]

(* Whether a reading replaces the stored one; a dialect without a counter  *)
(* is taken as it comes.                                                   *)
IsNewer(previous, next) == next # Null /\ previous # Null => next > previous

CountDuplicate(current) ==
    IF current # Null /\ current.evaluated
    THEN [current EXCEPT !.duplicates = @ + 1]
    ELSE Evaluated(0, 1)

(* Mutant: the gap counts the reading that closed it. *)
MissingInclusive(previous, next) ==
    IF previous = Null \/ next <= previous THEN 0 ELSE next - previous

Missing(previous, next) ==
    IF previous = Null \/ next <= previous THEN 0 ELSE next - previous - 1

AdvanceSequenceHealth(current, previous, next) ==
    IF next = Null THEN NotEvaluated
    ELSE IF current = Null THEN Evaluated(0, 0)
    ELSE IF ~current.evaluated THEN Evaluated(0, 0)
    ELSE [current EXCEPT !.gaps = @ + Missing(previous, next)]
==============================================================================
