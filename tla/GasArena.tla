------------------------------ MODULE GasArena ------------------------------
(***************************************************************************)
(* Mixture slots of the in-process backend: the arena and its free list    *)
(* (src/gas.rs, GasArena) and the count of turfs that name each slot       *)
(* (src/turfs.rs, TurfGases).  A mixture object of the game that is        *)
(* deleted gives its slot back at once; a turf that still names the slot   *)
(* is read by every pass until it is registered anew or removed, so the    *)
(* slot must wait for it.                                                  *)
(***************************************************************************)
EXTENDS Integers, SequencesExt, FiniteSetsExt

CONSTANTS
  Objects,   (* mixture objects of the game *)
  Turfs,
  MaxSlots,  (* bound: slots of the arena *)
  MaxSpare   (* bound: slots added beside the one asked for *)

GasArenaConstants ==
  /\ MaxSlots \in Nat /\ MaxSpare \in Nat
  /\ IsFiniteSet(Objects) /\ IsFiniteSet(Turfs)

NoSlot == -1
Slots == 0..MaxSlots - 1

VARIABLES
  length,      (* slots of GAS_MIXTURES *)
  free,        (* NEXT_GAS_IDS *)
  active,      (* ACTIVE_MIXTURE_SLOTS *)
  slotOf,      (* _extools_pointer_gasmixture of each object that lives *)
  mixOf,       (* the slot each graph node names *)
  refcounts    (* mix_refcounts, zero beyond its end *)

vars == <<length, free, active, slotOf, mixOf, refcounts>>

Init ==
  /\ length = 0 /\ free = <<>> /\ active = 0
  /\ slotOf = [o \in Objects |-> NoSlot]
  /\ mixOf = [t \in Turfs |-> NoSlot]
  /\ refcounts = [s \in Slots |-> 0]

(* gas_mix_is_referenced. *)
Referenced(slot) == refcounts[slot] > 0

(* Mutant: any free slot will do. *)
ReusableAny == DOMAIN free

Reusable == {i \in DOMAIN free : free[i] < length /\ ~Referenced(free[i])}

(* swap_remove: the last entry takes the place of the one removed. *)
SwapRemove(seq, i) == SubSeq([seq EXCEPT ![i] = Last(seq)], 1, Len(seq) - 1)

(* register_mix takes the newest free slot that no turf names. *)
RegisterReuse(o) ==
  /\ slotOf[o] = NoSlot /\ Reusable # {}
  /\ LET i == Max(Reusable) IN
     /\ slotOf' = [slotOf EXCEPT ![o] = free[i]]
     /\ free' = SwapRemove(free, i)
  /\ active' = active + 1
  /\ UNCHANGED <<length, mixOf, refcounts>>

(* Or it adds a slot, and as many spare ones as the capacities of the two  *)
(* vectors suggest.                                                        *)
RegisterGrow(o, spare) ==
  /\ slotOf[o] = NoSlot /\ Reusable = {} /\ length + 1 + spare <= MaxSlots
  /\ slotOf' = [slotOf EXCEPT ![o] = length]
  /\ free' = free \o [i \in 1..spare |-> length + i]
  /\ length' = length + 1 + spare
  /\ active' = active + 1
  /\ UNCHANGED <<mixOf, refcounts>>

Listed(slot) == slot \in Range(free)

(* unregister_mix, from the object's Del. *)
Unregister(o) ==
  /\ slotOf[o] # NoSlot
  /\ slotOf' = [slotOf EXCEPT ![o] = NoSlot]
  /\ IF Listed(slotOf[o]) THEN UNCHANGED <<free, active>>
     ELSE free' = Append(free, slotOf[o]) /\ active' = active - 1
  /\ UNCHANGED <<length, mixOf, refcounts>>

AcquireMix(counts, slot) == [counts EXCEPT ![slot] = @ + 1]
ReleaseMix(counts, slot) == [counts EXCEPT ![slot] = IF @ = 0 THEN 0 ELSE @ - 1]

(* insert_turf. *)
InsertedCounts(t, slot) ==
  IF mixOf[t] = slot THEN refcounts
  ELSE IF mixOf[t] = NoSlot THEN AcquireMix(refcounts, slot)
  ELSE AcquireMix(ReleaseMix(refcounts, mixOf[t]), slot)

(* update_air_ref of an open turf, whose air is the object. *)
InsertTurf(t, o) ==
  /\ slotOf[o] # NoSlot
  /\ mixOf' = [mixOf EXCEPT ![t] = slotOf[o]]
  /\ refcounts' = InsertedCounts(t, slotOf[o])
  /\ UNCHANGED <<length, free, active, slotOf>>

(* update_air_ref of a turf that is closed or removed. *)
RemoveTurf(t) ==
  /\ mixOf[t] # NoSlot
  /\ mixOf' = [mixOf EXCEPT ![t] = NoSlot]
  /\ refcounts' = ReleaseMix(refcounts, mixOf[t])
  /\ UNCHANGED <<length, free, active, slotOf>>

Next ==
  \/ \E o \in Objects : RegisterReuse(o) \/ Unregister(o)
  \/ \E o \in Objects, spare \in 0..MaxSpare : RegisterGrow(o, spare)
  \/ \E t \in Turfs, o \in Objects : InsertTurf(t, o)
  \/ \E t \in Turfs : RemoveTurf(t)

Spec == Init /\ [][Next]_vars

(***************************************************************************)
(* Properties.                                                             *)
(***************************************************************************)
(* A slot has one owner: two objects never share one, and none that an     *)
(* object has is listed as free, whatever grew and was reused in between.  *)
OneOwner ==
  \A o \in Objects : slotOf[o] # NoSlot =>
    /\ slotOf[o] < length /\ ~Listed(slotOf[o])
    /\ \A p \in Objects \ {o} : slotOf[p] # slotOf[o]

(* The count of a slot is what a scan of the graph would give, with the    *)
(* turfs that share a mixture and those that change it (mix_refcounts      *)
(* replaces the scan).                                                     *)
CountsAreScans == \A s \in Slots : refcounts[s] = Cardinality({t \in Turfs : mixOf[t] = s})

(* An object that is given a slot finds no turf of a former owner on it.   *)
NewOwnerAlone ==
  [][\A o \in Objects : slotOf[o] = NoSlot /\ slotOf'[o] # NoSlot =>
       \A t \in Turfs : mixOf[t] # slotOf'[o]]_vars

(* The two ways the code counts mixtures agree with the objects there are: *)
(* the counter of active slots, and amt_gases, the slots not listed.       *)
CountsAgree ==
  LET living == Cardinality({o \in Objects : slotOf[o] # NoSlot})
  IN  active = living /\ length - Len(free) = living

(* The slots as the game uses them: one owner each, who meets no turf of a *)
(* former one, and counts that can be relied on.                           *)
SlotsSound == [](OneOwner /\ CountsAreScans /\ CountsAgree) /\ NewOwnerAlone
=============================================================================
