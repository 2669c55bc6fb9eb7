----------------------------- MODULE HandleMap -----------------------------
(***************************************************************************)
(* What the scratch indexes of the stages promise (slot_index.rs,          *)
(* transaction.rs): a map from handles to values in which a slot has at    *)
(* most one generation at a time.                                          *)
(***************************************************************************)
CONSTANTS Handles,   (* [slot, gen] *)
          Values, NoValue

VARIABLE map

Init == map = [h \in Handles |-> NoValue]

Put(h, v) ==
  map' = [k \in Handles |-> IF k = h THEN v
                            ELSE IF k.slot = h.slot THEN NoValue ELSE map[k]]

Drop(h) == map' = [map EXCEPT ![h] = NoValue]

Clear == map' = [h \in Handles |-> NoValue]

Next ==
  \/ \E h \in Handles : Drop(h) \/ \E v \in Values : Put(h, v)
  \/ Clear

Spec == Init /\ [][Next]_map
=============================================================================
