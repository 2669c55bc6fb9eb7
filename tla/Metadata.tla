------------------------------ MODULE Metadata ------------------------------
(***************************************************************************)
(* The gas and reaction registries (crates/dogmos-core/src/metadata.rs):   *)
(* what a batch of registrations must satisfy to be installed, the order   *)
(* reactions are tried in, and when a reaction is reactable.               *)
(*                                                                         *)
(* Numbers are integers or NonFinite (NaN and the infinities). A batch is  *)
(* a sequence of registrations in the order DreamMaker sent them.          *)
(***************************************************************************)
EXTENDS Integers, Sequences, FiniteSets, SequencesExt

CONSTANTS
    NonFinite,    \* a float that is not finite
    None,         \* an optional field that is absent
    MaxGasSlots,  \* MAX_GAS_SLOTS
    BurnScale,    \* a common multiple of the registered burn rates
    F32Exact,     \* up to here every number on the wire is an f32
    F32Max        \* beyond this the cast to f32 gives an infinity

MetadataAssumption ==
    /\ NonFinite \notin Int /\ None \notin Int
    /\ {MaxGasSlots, F32Exact, F32Max} \subseteq Nat

\* What the shim sends (GasRegistration, ReactionRegistration).
Numbers == Int \cup {NonFinite}
Optional == Numbers \cup {None}
ItemLists == Seq([gas : Nat, amount : Numbers])

GasRegistrations ==
    [id : Nat, key : STRING, heat : Numbers, fusion : Numbers, enthalpy : Numbers,
     visible : Optional, radiation : Numbers,
     role : [kind : {"none", "oxidizer", "fuel"}, min : Numbers, rate : Numbers],
     products : ItemLists]

ReactionRegistrations ==
    [id : Nat, key : STRING, priority : Numbers, minT : Optional, maxT : Optional,
     minEnergy : Optional, minFire : Optional, needs : ItemLists, exec : STRING]

NonNegative(v) == v # NonFinite /\ v >= 0

OptNonNegative(v) == v # None => NonNegative(v)

-----------------------------------------------------------------------------
(* ServiceState::install_gases, install_reactions: the numbers arrive as   *)
(* f64 and are kept as f32, which rounds and overflows.                    *)

AsF32(v) ==
    IF v \in {None, NonFinite} THEN v
    ELSE IF v > F32Max THEN NonFinite
    ELSE IF v > F32Exact THEN 2 * (v \div 2) ELSE v

Items(items) == [i \in DOMAIN items |-> [items[i] EXCEPT !.amount = AsF32(@)]]

CoreGas(g) ==
    [g EXCEPT !.heat = AsF32(@), !.fusion = AsF32(@), !.enthalpy = AsF32(@),
              !.visible = AsF32(@), !.radiation = AsF32(@),
              !.role.min = AsF32(@), !.role.rate = AsF32(@), !.products = Items(@)]

CoreReaction(r) ==
    [r EXCEPT !.priority = AsF32(@), !.minT = AsF32(@), !.maxT = AsF32(@),
              !.minEnergy = AsF32(@), !.minFire = AsF32(@), !.needs = Items(@)]

-----------------------------------------------------------------------------
(* Validation.                                                             *)

\* The numbers 1 .. n in the order given by `before`, a set of pairs.
Sorted(n, before) ==
    [p \in 1 .. n |-> CHOOSE i \in 1 .. n :
                        Cardinality({j \in 1 .. n : << j, i >> \in before}) = p - 1]

\* sort_unstable_by_key(|entry| entry.id). Entries with one id are refused, in
\* whichever order they come.
IdsBefore(entries) ==
    {p \in (DOMAIN entries) \X (DOMAIN entries) :
        \/ entries[p[1]].id < entries[p[2]].id
        \/ entries[p[1]].id = entries[p[2]].id /\ p[1] < p[2]}

ById(entries) ==
    LET order == Sorted(Len(entries), IdsBefore(entries))
    IN  [p \in 1 .. Len(entries) |-> entries[order[p]]]

\* windows(2).find_map: neighbours of the sorted batch with one id.
RepeatsId(sorted) == \E i \in 1 .. Len(sorted) - 1 : sorted[i].id = sorted[i + 1].id

EmptyKey == ""

\* The keys inserted into ids_by_key before entry i.
KeysBefore(sorted, i) == {sorted[j].key : j \in 1 .. i - 1}

\* The checks every registration of either kind goes through, in order.
EntryError(sorted, i) ==
    IF sorted[i].id # i - 1 THEN "not_dense"
    ELSE IF sorted[i].key = EmptyKey THEN "empty_key"
    ELSE IF sorted[i].key \in KeysBefore(sorted, i) THEN "duplicate_key"
    ELSE "ok"

ValidFireRole(role) ==
    \/ role.kind = "none"
    \/ /\ role.kind = "oxidizer"
       /\ NonNegative(role.min) /\ NonNegative(role.rate)
    \/ /\ role.kind = "fuel"
       /\ NonNegative(role.min) /\ NonNegative(role.rate) /\ role.rate > 0

\* Items name a gas each; no gas may be named twice, and every number is sane.
ValidItems(items, count) ==
    /\ \A i \in DOMAIN items : items[i].gas < count /\ NonNegative(items[i].amount)
    /\ \A i, j \in DOMAIN items : items[i].gas = items[j].gas => i = j

ValidGas(gas, count) ==
    /\ NonNegative(gas.heat) /\ gas.heat > 0
    /\ gas.fusion # NonFinite /\ gas.enthalpy # NonFinite
    /\ OptNonNegative(gas.visible) /\ NonNegative(gas.radiation)
    /\ ValidFireRole(gas.role)
    /\ ValidItems(gas.products, count)

\* The first error of a walk over a batch, "ok" when there is none.
FirstError(results) ==
    LET bad == {i \in DOMAIN results : results[i] # "ok"}
    IN IF bad = {} THEN "ok"
       ELSE results[CHOOSE i \in bad : \A j \in bad : i <= j]

GasResult(sorted, i) ==
    IF EntryError(sorted, i) # "ok" THEN EntryError(sorted, i)
    ELSE IF ValidGas(sorted[i], Len(sorted)) THEN "ok" ELSE "invalid"

GasError(entries) ==
    LET sorted == ById(entries)
    IN IF Len(entries) > MaxGasSlots THEN "too_many"
       ELSE IF RepeatsId(sorted) THEN "duplicate_id"
       ELSE FirstError([i \in DOMAIN sorted |-> GasResult(sorted, i)])

ValidReaction(r, gases) ==
    /\ r.priority # NonFinite
    /\ OptNonNegative(r.minT) /\ OptNonNegative(r.maxT)
    /\ (r.minT # None /\ r.maxT # None) => r.minT <= r.maxT
    /\ OptNonNegative(r.minEnergy) /\ OptNonNegative(r.minFire)
    /\ ValidItems(r.needs, Len(gases))

\* ids_by_priority_bits: two reactions may not share a priority (+0 and -0 are
\* one number here).
RepeatsPriority(sorted, i) ==
    \E j \in 1 .. i - 1 : sorted[j].priority = sorted[i].priority

ReactionResult(sorted, gases, i) ==
    IF EntryError(sorted, i) # "ok" THEN EntryError(sorted, i)
    ELSE IF ~ValidReaction(sorted[i], gases) THEN "invalid"
    ELSE IF RepeatsPriority(sorted, i) THEN "duplicate_priority"
    ELSE "ok"

ReactionError(entries, gases) ==
    LET sorted == ById(entries)
    IN IF RepeatsId(sorted) THEN "duplicate_id"
       ELSE FirstError([i \in DOMAIN sorted |-> ReactionResult(sorted, gases, i)])

\* Reactions are tried from the highest priority down.
PriorityOrder(reactions) ==
    Sorted(Len(reactions),
           {p \in (DOMAIN reactions) \X (DOMAIN reactions) :
               reactions[p[1]].priority > reactions[p[2]].priority})

-----------------------------------------------------------------------------
(* When a reaction is reactable. A mixture holds gases[i] moles of the gas *)
(* with id i - 1.                                                          *)

Total(f) == FoldSeq(+, 0, f)

ThermalEnergy(gases, mix) ==
    Total([i \in DOMAIN gases |-> gases[i].heat * mix.gases[i]]) * mix.temperature

\* The moles of gas i hot enough to burn, times the temperature.
Available(gases, mix, i) ==
    IF mix.gases[i] = 0 \/ mix.temperature <= gases[i].role.min THEN 0
    ELSE mix.gases[i] * (mix.temperature - gases[i].role.min)

Oxidation(gases, mix) ==
    Total([i \in DOMAIN gases |->
        IF gases[i].role.kind = "oxidizer"
        THEN Available(gases, mix, i) * gases[i].role.rate ELSE 0])

Fuel(gases, mix) ==
    Total([i \in DOMAIN gases |->
        IF gases[i].role.kind = "fuel"
        THEN Available(gases, mix, i) * (BurnScale \div gases[i].role.rate) ELSE 0])

\* reaction_conditions_met; min(oxidation, fuel) >= minimum, free of fractions.
Reactable(r, gases, mix) ==
    /\ r.minT # None => mix.temperature >= r.minT
    /\ r.maxT # None => mix.temperature <= r.maxT
    /\ \A i \in DOMAIN r.needs : mix.gases[r.needs[i].gas + 1] >= r.needs[i].amount
    /\ r.minEnergy # None => ThermalEnergy(gases, mix) >= r.minEnergy
    /\ r.minFire # None =>
          /\ Oxidation(gases, mix) >= r.minFire * mix.temperature
          /\ Fuel(gases, mix) >= r.minFire * mix.temperature * BurnScale

-----------------------------------------------------------------------------
(* What installation promises, stated without the walk.                    *)

DenseAndNamed(entries) ==
    /\ {entries[i].id : i \in DOMAIN entries} = 0 .. Len(entries) - 1
    /\ Cardinality({entries[i].key : i \in DOMAIN entries} \ {EmptyKey}) = Len(entries)

GasBatchOk(entries) ==
    /\ Len(entries) <= MaxGasSlots
    /\ DenseAndNamed(entries)
    /\ \A i \in DOMAIN entries : ValidGas(entries[i], Len(entries))

ReactionBatchOk(entries, gases) ==
    /\ DenseAndNamed(entries)
    /\ \A i \in DOMAIN entries : ValidReaction(entries[i], gases)
    /\ Cardinality({entries[i].priority : i \in DOMAIN entries}) = Len(entries)
=============================================================================
