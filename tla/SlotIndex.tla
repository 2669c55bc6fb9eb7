----------------------------- MODULE SlotIndex -----------------------------
(***************************************************************************)
(* SlotIndex and SlotSet (slot_index.rs): lookup storage with one entry    *)
(* per slot, stamped with an epoch.  clear() forgets every entry by moving *)
(* the epoch on, until the epoch's width is exhausted.                     *)
(***************************************************************************)
EXTENDS Integers, Sequences, SequencesExt

CONSTANTS
  Slots, Generations, Values, NoValue,
  EpochMax        (* u64::MAX *)

SlotIndexConstants ==
  Slots \subseteq Nat /\ EpochMax \in Nat \ {0} /\ NoValue \notin Values

Handles == [slot : Slots, gen : Generations]

VARIABLES
  entries,   (* slot -> [epoch, key, value], or Vacant *)
  epoch,
  touched    (* slots first written in this epoch *)

vars == <<entries, epoch, touched>>

Vacant == [epoch |-> 0]

Init ==
  /\ entries = [s \in Slots |-> Vacant] /\ epoch = 1 /\ touched = <<>>

(* Mutant: the epoch starts over and the entries stay. *)
ClearedWrapping ==
  IF epoch < EpochMax THEN epoch' = epoch + 1 /\ UNCHANGED entries
  ELSE epoch' = 1 /\ UNCHANGED entries

Cleared ==
  IF epoch < EpochMax THEN epoch' = epoch + 1 /\ UNCHANGED entries
  ELSE epoch' = 1 /\ entries' = [s \in Slots |-> Vacant]

Clear == touched' = <<>> /\ Cleared

Noted(s) == touched' = IF entries[s].epoch # epoch THEN Append(touched, s) ELSE touched

Insert(h, v) ==
  /\ entries' = [entries EXCEPT ![h.slot] = [epoch |-> epoch, key |-> h, value |-> v]]
  /\ Noted(h.slot) /\ UNCHANGED epoch

Get(h) ==
  LET x == entries[h.slot] IN
  IF x.epoch = epoch /\ x.key = h THEN x.value ELSE NoValue

Next == Clear \/ \E h \in Handles, v \in Values : Insert(h, v)

Spec == Init /\ [][Next]_vars

(***************************************************************************)
(* Properties.                                                             *)
(***************************************************************************)
(* The slots touched in this epoch are listed once each, and they are the  *)
(* slots a lookup can find something in.                                   *)
TouchedExact ==
  /\ IsInjective(touched)
  /\ ToSet(touched) = {s \in Slots : \E h \in Handles : h.slot = s /\ Get(h) # NoValue}

(* The storage behaves as a map from full handles: nothing of an earlier   *)
(* epoch or of another generation is ever found, also when the epoch has   *)
(* run out.                                                                *)
AsMap == INSTANCE HandleMap WITH map <- [h \in Handles |-> Get(h)]
MapSpec == AsMap!Spec
=============================================================================
