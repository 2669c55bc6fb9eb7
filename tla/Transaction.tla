---------------------------- MODULE Transaction ----------------------------
(***************************************************************************)
(* IndexedTransaction (transaction.rs), the scratch arena in which a stage *)
(* collects the candidate records of a component: entries in the order     *)
(* they were touched, an index from slots to entries, and a bit per slot.  *)
(* Between components the arena is reused; an entry is retired when its    *)
(* candidate is staged for publication.                                    *)
(***************************************************************************)
EXTENDS Integers, FiniteSets, Sequences, SequencesExt

CONSTANTS
  MaxSlots,        (* bound: slots of the world *)
  Generations, Values, NoValue,
  MaxEntries       (* the arena's own bound, at most *)

TransactionConstants == MaxSlots \in Nat \ {0} /\ MaxEntries \in Nat

Slots == 0..(MaxSlots - 1)
Handles == [slot : Slots, gen : Generations]
Unused == -1

VARIABLES
  slotToIndex,   (* sequence, by slot + 1: position in entries, or Unused *)
  touchedBits,   (* slots whose bit is set *)
  entries,       (* sequence of [handle, candidate] *)
  maxEntries,
  retired        (* the publication index: entries already retired *)

vars == <<slotToIndex, touchedBits, entries, maxEntries, retired>>

Init ==
  /\ slotToIndex = <<>> /\ touchedBits = {} /\ entries = <<>>
  /\ maxEntries = 0 /\ retired = 0

EntrySlots == {entries[i].handle.slot : i \in DOMAIN entries}

(* drain_entries and clear. *)
Drained == [i \in DOMAIN slotToIndex |-> IF i - 1 \in EntrySlots THEN Unused ELSE slotToIndex[i]]

Clear ==
  /\ slotToIndex' = Drained /\ touchedBits' = touchedBits \ EntrySlots
  /\ entries' = <<>> /\ retired' = 0 /\ UNCHANGED maxEntries

(* Vec::resize: shortened, or lengthened with Unused. *)
Resized(index, n) == [i \in 1..n |-> IF i \in DOMAIN index THEN index[i] ELSE Unused]

Prepare(slots, max) ==
  /\ slotToIndex' = Resized(Drained, slots) /\ touchedBits' = touchedBits \ EntrySlots
  /\ entries' = <<>> /\ retired' = 0 /\ maxEntries' = max

(* A slot touched before is refused under another generation and else      *)
(* left as it is.                                                          *)
Touch(h, v) ==
  /\ retired = 0 /\ h.slot < Len(slotToIndex)
  /\ slotToIndex[h.slot + 1] = Unused /\ Len(entries) < maxEntries
  /\ entries' = Append(entries, [handle |-> h, candidate |-> v])
  /\ slotToIndex' = [slotToIndex EXCEPT ![h.slot + 1] = Len(entries)]
  /\ touchedBits' = touchedBits \union {h.slot}
  /\ UNCHANGED <<maxEntries, retired>>

(* entry_index, as a position in entries; 0 when there is none. *)
EntryIndex(h) ==
  IF /\ h.slot \in touchedBits /\ h.slot < Len(slotToIndex)
     /\ slotToIndex[h.slot + 1] # Unused
     /\ entries[slotToIndex[h.slot + 1] + 1].handle = h
    THEN slotToIndex[h.slot + 1] + 1 ELSE 0

(* candidate_mut *)
Write(h, v) ==
  /\ EntryIndex(h) # 0
  /\ entries' = [entries EXCEPT ![EntryIndex(h)].candidate = v]
  /\ UNCHANGED <<slotToIndex, touchedBits, maxEntries, retired>>

SortByHandle ==
  LET sorted == SortSeq(entries, LAMBDA x, y : x.handle.slot < y.handle.slot) IN
  /\ retired = 0 /\ entries' = sorted
  /\ slotToIndex' = [i \in DOMAIN slotToIndex |->
       IF \E k \in DOMAIN sorted : sorted[k].handle.slot = i - 1
         THEN (CHOOSE k \in DOMAIN sorted : sorted[k].handle.slot = i - 1) - 1
         ELSE slotToIndex[i]]
  /\ UNCHANGED <<touchedBits, maxEntries, retired>>

(* Entries are retired in order, as they are staged. *)
Retire ==
  LET slot == entries[retired + 1].handle.slot IN
  /\ retired < Len(entries)
  /\ slotToIndex' = [slotToIndex EXCEPT ![slot + 1] = Unused]
  /\ touchedBits' = touchedBits \ {slot}
  /\ retired' = retired + 1 /\ UNCHANGED <<entries, maxEntries>>

(* clear_retired, once every entry is retired; the slots were reset then. *)
ClearRetired ==
  /\ entries # <<>> /\ retired = Len(entries)
  /\ entries' = <<>> /\ retired' = 0
  /\ UNCHANGED <<slotToIndex, touchedBits, maxEntries>>

Next ==
  \/ Clear \/ SortByHandle \/ Retire \/ ClearRetired
  \/ \E slots \in 1..MaxSlots, max \in 0..MaxEntries : Prepare(slots, max)
  \/ \E h \in Handles, v \in Values : Touch(h, v) \/ Write(h, v)

Spec == Init /\ [][Next]_vars

(***************************************************************************)
(* Properties.                                                             *)
(***************************************************************************)
(* Index, bits and entries agree: the slots in use are those of the        *)
(* entries not yet retired, each at its entry, so that an arena without    *)
(* entries is clean for the next component.                                *)
IndexExact ==
  LET live == {i \in DOMAIN entries : i > retired} IN
  /\ touchedBits = {entries[i].handle.slot : i \in live}
  /\ \A i \in live : slotToIndex[entries[i].handle.slot + 1] = i - 1
  /\ \A i \in DOMAIN slotToIndex : slotToIndex[i] # Unused => i - 1 \in touchedBits
  /\ Cardinality(touchedBits) = Cardinality(live) /\ Len(entries) <= maxEntries

(* Through all reuse, resizing, sorting and retiring, the arena behaves as *)
(* a map from full handles to candidates.                                  *)
AsMap == INSTANCE HandleMap
  WITH map <- [h \in Handles |-> IF EntryIndex(h) = 0 THEN NoValue
                                 ELSE entries[EntryIndex(h)].candidate]
MapSpec == AsMap!Spec
=============================================================================
