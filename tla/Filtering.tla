------------------------------- MODULE Filtering -------------------------------
(***************************************************************************)
(* Array.prototype.filter: the elements of s at the positions that pass,   *)
(* in their order.                                                         *)
(***************************************************************************)
EXTENDS Integers, SequencesExt

Filtered(s, positions) ==
    LET kept == FlattenSeq([i \in 1..Len(s) |->
                               IF i \in positions THEN <<i>> ELSE <<>>])
    IN  [k \in 1..Len(kept) |-> s[kept[k]]]
==============================================================================
