----------------------------- MODULE HistoryRing -----------------------------
(***************************************************************************)
(* RingBuffer (server/src/state/ringBuffer): a fixed number of slots with  *)
(* a write cursor, that overwrites its oldest entry once full.  Slots are  *)
(* numbered from zero; an unwritten one (undefined) has no value.          *)
(***************************************************************************)
EXTENDS Integers, Sequences, Filtering

Ring(Value, capacity) ==
    [slots : UNION {[written -> Value] : written \in SUBSET (0..(capacity - 1))},
     cursor : 0..(capacity - 1),
     count : 0..capacity]

EmptyRing == [slots |-> <<>>, cursor |-> 0, count |-> 0]

Written(slots, i, value) ==
    [k \in DOMAIN slots \cup {i} |-> IF k = i THEN value ELSE slots[k]]

(* Mutant: the count stops one short of the capacity. *)
PushCountsFewer(ring, value, capacity) ==
    [slots  |-> Written(ring.slots, ring.cursor, value),
     cursor |-> (ring.cursor + 1) % capacity,
     count  |-> IF ring.count + 1 < capacity THEN ring.count + 1 ELSE ring.count]

Push(ring, value, capacity) ==
    [slots  |-> Written(ring.slots, ring.cursor, value),
     cursor |-> (ring.cursor + 1) % capacity,
     count  |-> IF ring.count < capacity THEN ring.count + 1 ELSE ring.count]

(* Mutants: read from the first slot; read from the slot after the oldest. *)
SlotFromFirst(ring, capacity, k) == k - 1

SlotAfterOldest(ring, capacity, k) ==
    LET start == (ring.cursor - ring.count + capacity + 1) % capacity
    IN  (start + k - 1) % capacity

(* The slot of the k-th oldest entry.                                      *)
SlotOf(ring, capacity, k) ==
    LET start == (ring.cursor - ring.count + capacity) % capacity
    IN  (start + k - 1) % capacity

(* toArray: the entries, oldest first, without any slot that has none.     *)
ToArray(ring, capacity) ==
    LET slot == [k \in 1..ring.count |-> SlotOf(ring, capacity, k)]
        read == Filtered(slot, {k \in 1..ring.count : slot[k] \in DOMAIN ring.slots})
    IN  [k \in DOMAIN read |-> ring.slots[read[k]]]
==============================================================================
