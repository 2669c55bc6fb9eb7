-------------------------- MODULE MixtureCommands --------------------------
(***************************************************************************)
(* The mixture commands of DogmosWorld (world.rs): apply_command and the   *)
(* helpers behind it, apply_mixture_state and reconcile_pipenet, on        *)
(* registered mixtures.                                                    *)
(*                                                                         *)
(* Moles are counted in a unit below MOLAR_ACCURACY and temperatures in    *)
(* whole degrees; divisions round down, as floats round.  A command the    *)
(* code refuses changes nothing and is no step.  Requests that only read   *)
(* are the Snapshot of a client, which later sends a state computed from   *)
(* what it read.                                                           *)
(***************************************************************************)
EXTENDS Integers, FiniteSets, Sequences, Functions

CONSTANTS
  Handles, Gases,      (* registered mixtures; gas ids, 1..n *)
  SpecificHeat,        (* gas -> specific heat *)
  Accuracy,            (* MOLAR_ACCURACY *)
  MinimumMoles,        (* MINIMUM_CALCULATED_MOLES *)
  FloatMax,            (* f32::MAX *)
  RevisionMax,         (* u32::MAX *)
  MinimumTemperature,
  Ratios,              (* ratios <<n, d>>, n / d *)
  Amounts, Deltas,     (* arguments of commands: moles, mole changes, *)
  Temperatures, Heats, (* temperatures, heat, *)
  Volumes, Capacities, (* volumes and minimum heat capacities *)
  InitialMoles,        (* what a mixture may hold at first *)
  MaxCommands          (* bound: commands applied *)

MixtureConstants ==
  /\ IsFiniteSet(Handles) /\ IsFiniteSet(Gases) /\ Gases = 1..Cardinality(Gases)
  /\ SpecificHeat \in [Gases -> Nat]
  /\ {Accuracy, MinimumMoles, FloatMax, RevisionMax, MinimumTemperature, MaxCommands} \subseteq Nat
  /\ 0 < Accuracy /\ Accuracy < MinimumMoles /\ MinimumMoles < FloatMax
  /\ \A r \in Ratios : r[2] \in Nat \ {0} /\ r[1] \in 0..r[2]
  /\ Amounts \subseteq 0..FloatMax /\ InitialMoles \subseteq 0..FloatMax
  /\ Volumes \subseteq Nat /\ Capacities \subseteq Nat
  /\ Deltas \subseteq Int /\ Heats \subseteq Int
  /\ \A t \in Temperatures : t \in Nat /\ t >= MinimumTemperature

VARIABLES
  mix,      (* handle -> MixtureRecord *)
  seen,     (* handle -> what the client last read *)
  last,     (* history: the kind of the last command *)
  commands  (* number of commands *)

vars == <<mix, seen, last, commands>>

Least(x, y) == IF x < y THEN x ELSE y
Most(x, y) == IF x < y THEN y ELSE x

(* No command leaves a temperature below MINIMUM_TEMPERATURE_K. *)
Floor(t) == Most(t, MinimumTemperature)

(***************************************************************************)
(* Helpers on gases and records.                                           *)
(***************************************************************************)
(* canonicalize_gases: the trace sink. *)
Canonical(gases) == [g \in Gases |-> IF gases[g] < MinimumMoles THEN 0 ELSE gases[g]]

Saturated(n) == Least(n, FloatMax)

Plus(gases, added) == [g \in Gases |-> Saturated(gases[g] + added[g])]
Minus(gases, removed) == [g \in Gases |-> gases[g] - removed[g]]
Part(n, r) == (n * r[1]) \div r[2]
Scaled(gases, r) == [g \in Gases |-> Saturated(Part(gases[g], r))]

Total(gases) == SumFunctionOnSet(gases, Gases)

(* quantize: to the nearest multiple of MOLAR_ACCURACY. *)
Quantized(n) == ((2 * n + Accuracy) \div (2 * Accuracy)) * Accuracy

(* quantized_removal of every gas. *)
Removed(gases, r) == [g \in Gases |-> Least(Quantized(Part(gases[g], r)), gases[g])]

RawCapacity(gases) == Total([g \in Gases |-> SpecificHeat[g] * gases[g]])

(* heat_capacity, record_heat_capacity *)
HeatCapacity(m) == Most(RawCapacity(m.gases), m.minimum)

MeanTemperature(c1, t1, c2, t2, default) ==
  IF c1 + c2 > 0 THEN (c1 * t1 + c2 * t2) \div (c1 + c2) ELSE default

(* merge_record and the body of merge_mixtures. *)
Merged(m, giver) ==
  [m EXCEPT !.gases = Plus(@, giver.gases),
            !.temperature = MeanTemperature(HeatCapacity(m), @,
                              HeatCapacity(giver), giver.temperature, @)]

(* scale_record *)
ScaledRecord(m, r) ==
  [m EXCEPT !.gases = [g \in Gases |->
                         IF Scaled(@, r)[g] <= Accuracy THEN 0 ELSE Scaled(@, r)[g]]]

NewRecord ==
  [gases |-> [g \in Gases |-> 0], temperature |-> MinimumTemperature, volume |-> 1,
   minimum |-> 0, immutable |-> FALSE, revision |-> 0]

(* remove_ratio_into_record: what is taken out, and what stays. *)
TakenOut(m, r) ==
  IF r[1] = 0 THEN NewRecord
  ELSE [NewRecord EXCEPT
          !.gases = IF m.immutable
                      THEN [g \in Gases |-> Quantized(Part(m.gases[g], r))]
                      ELSE Removed(m.gases, r),
          !.temperature = m.temperature]

(* Mutant: what is taken out stays as well. *)
LeftOverKept(m, r) == m

LeftOver(m, r) ==
  IF m.immutable THEN m ELSE [m EXCEPT !.gases = Minus(@, Removed(@, r))]

(***************************************************************************)
(* Commands.  Init: mixtures just registered or seeded.                    *)
(***************************************************************************)
Unread == [revision |-> -1]

Init ==
  /\ \E n \in [Handles -> InitialMoles], t \in [Handles -> Temperatures],
        c \in [Handles -> Capacities] :
       mix = [h \in Handles |->
                [NewRecord EXCEPT !.gases = [g \in Gases |-> IF g = 1 THEN n[h] ELSE 0],
                                  !.temperature = t[h], !.minimum = c[h]]]
  /\ seen = [h \in Handles |-> Unread] /\ last = "none" /\ commands = 0

(* Mutant: the revision stays. *)
CommittedSilently(m) == [m EXCEPT !.gases = Canonical(@)]

Committed(m) == [m EXCEPT !.gases = Canonical(@), !.revision = @ + 1]

Applied(kind, new) ==
  /\ commands' = commands + 1
  /\ mix' = new /\ last' = kind /\ UNCHANGED seen

(* mutate_mixture: "changed" is what the closure reports about new. *)
Mutate(h, kind, new, changed) ==
  /\ mix[h].revision # RevisionMax
  /\ Applied(kind, [mix EXCEPT ![h] = IF changed THEN Committed(new) ELSE new])

SetField(h, new) ==
  ~mix[h].immutable /\ new # mix[h] /\ Mutate(h, "set", new, TRUE)

SetMoles(h, g, n) ==
  SetField(h, [mix[h] EXCEPT !.gases[g] = IF n < MinimumMoles THEN 0 ELSE n])

AdjustMoles(h, g, d) ==
  /\ mix[h].gases[g] + d <= FloatMax
  /\ SetField(h, [mix[h] EXCEPT !.gases[g] = Most(@ + d, 0)])

AdjustMolesTemperature(h, g, n, t) ==
  LET m     == mix[h]
      added == n * SpecificHeat[g]
  IN
  /\ n > Accuracy /\ ~m.immutable
  /\ Mutate(h, "set", [m EXCEPT !.gases[g] = Saturated(@ + n),
                                !.temperature = Floor(MeanTemperature(HeatCapacity(m), @,
                                                        added, Floor(t), @))], TRUE)

(* AdjustMultiple: the adjustments accumulate gas by gas, none may         *)
(* overflow; only the gases listed are committed.                          *)
AdjustMultiple(h, list) ==
  LET sums[i \in 0..Len(list)] ==
        IF i = 0 THEN mix[h].gases
        ELSE [sums[i - 1] EXCEPT ![list[i].gas] = Most(@ + list[i].delta, 0)]
  IN
  /\ \A i \in 1..Len(list) : sums[i][list[i].gas] <= FloatMax
  /\ SetField(h, [mix[h] EXCEPT !.gases = [g \in Gases |->
       IF \E i \in 1..Len(list) : list[i].gas = g
         THEN Canonical(sums[Len(list)])[g] ELSE @[g]]])

SetTemperature(h, t) == SetField(h, [mix[h] EXCEPT !.temperature = Floor(t)])
SetVolume(h, v) == SetField(h, [mix[h] EXCEPT !.volume = v])
SetMinimumHeatCapacity(h, c) == SetField(h, [mix[h] EXCEPT !.minimum = c])
Clear(h) == SetField(h, [mix[h] EXCEPT !.gases = [g \in Gases |-> 0]])
MarkImmutable(h) == SetField(h, [mix[h] EXCEPT !.immutable = TRUE])

(* Add, up to the last gas that is there.  "changed" is taken before       *)
(* traces are dropped; an addend too small to change a float (d = 0 here)  *)
(* drops traces and reports nothing.                                       *)
Add(h, d) ==
  LET m       == mix[h]
      active  == {g \in Gases : \E k \in Gases : k >= g /\ m.gases[k] # 0}
      sum     == [g \in Gases |-> IF g \in active
                                    THEN Saturated(Most(m.gases[g] + d, 0)) ELSE m.gases[g]]
      dropped == [g \in Gases |-> IF g \in active THEN Canonical(sum)[g] ELSE sum[g]]
  IN  ~m.immutable /\ Mutate(h, "add", [m EXCEPT !.gases = dropped], sum # m.gases)

Multiply(h, r) == r[1] # r[2] /\ SetField(h, [mix[h] EXCEPT !.gases = Canonical(Scaled(@, r))])

CopyFrom(receiver, giver) ==
  /\ receiver # giver
  /\ SetField(receiver, [mix[receiver] EXCEPT !.gases = mix[giver].gases,
                                              !.temperature = mix[giver].temperature])

(* AdjustHeat: without capacity the quotient is infinite or no number, and *)
(* the floor is what remains of it unless it is +infinity.                 *)
AdjustHeat(h, heat) ==
  LET c == HeatCapacity(mix[h]) IN
  /\ c > 0 \/ heat <= 0
  /\ SetField(h, [mix[h] EXCEPT !.temperature =
                    IF c = 0 THEN MinimumTemperature ELSE Floor((c * @ + heat) \div c)])

EqualizeWith(receiver, total) ==
  /\ receiver # total /\ mix[total].volume > 0
  /\ SetField(receiver,
       [mix[receiver] EXCEPT
          !.gases = Canonical([g \in Gases |->
                      Saturated((mix[total].gases[g] * mix[receiver].volume)
                                  \div mix[total].volume)]),
          !.temperature = mix[total].temperature])

(* A pair of records is replaced where it changed, if no changed record's  *)
(* revision is exhausted (transfer_ratio_to, share_ratio,                  *)
(* commit_pair_temperatures).                                              *)
ReplacePair(kind, new) ==
  LET changed == {h \in DOMAIN new : new[h] # mix[h]} IN
  /\ changed # {} /\ \A h \in changed : mix[h].revision # RevisionMax
  /\ Applied(kind, [h \in Handles |->
       IF h \in changed THEN [new[h] EXCEPT !.revision = @ + 1] ELSE mix[h]])

Pair(a, x, b, y) == [h \in {a, b} |-> IF h = a THEN x ELSE y]

(* TemperatureShare at coefficient r; heat flows by the harmonic capacity. *)
TemperatureShare(a, b, r) ==
  LET x  == mix[a]
      y  == mix[b]
      cx == HeatCapacity(x)
      cy == HeatCapacity(y)
      heat == (r[1] * (x.temperature - y.temperature) * cx * cy) \div (r[2] * (cx + cy))
      Moved(m, d) == IF m.immutable THEN m ELSE [m EXCEPT !.temperature = Floor(@ + d)]
  IN
  /\ a # b /\ x.temperature # y.temperature /\ cx > 0 /\ cy > 0
  /\ ReplacePair("heat", Pair(a, Moved(x, -(heat \div cx)), b, Moved(y, heat \div cy)))

(* TemperatureShareNonGas with a body at t of capacity c. *)
TemperatureShareNonGas(h, t, c, r) ==
  LET m  == mix[h]
      cm == HeatCapacity(m)
      heat == (r[1] * (m.temperature - t) * cm * c) \div (r[2] * (cm + c))
  IN
  /\ m.temperature # t /\ cm > 0 /\ c > 0
  /\ SetField(h, [m EXCEPT !.temperature = Floor(@ - heat \div cm)])

Merge(receiver, giver) ==
  /\ receiver # giver /\ ~mix[receiver].immutable
  /\ Mutate(receiver, "merge", Merged(mix[receiver], mix[giver]), TRUE)

(* remove_ratio_into; RemoveAmountInto keeps the traces. *)
RemoveInto(source, dest, r, canonicalize) ==
  LET s == mix[source]
      d == mix[dest]
      removed == Removed(s.gases, r)
      Cleaned(gases) == IF canonicalize THEN Canonical(gases) ELSE gases
  IN
  /\ source # dest /\ r[1] # 0 /\ ~d.immutable
  /\ s.revision # RevisionMax /\ d.revision # RevisionMax
  /\ Applied("remove", [mix EXCEPT
       ![dest] = [d EXCEPT !.gases = Cleaned(removed), !.temperature = s.temperature,
                           !.revision = @ + 1],
       ![source] = IF s.immutable THEN s
                   ELSE [s EXCEPT !.gases = Cleaned(Minus(@, removed)), !.revision = @ + 1]])

(* The ratio that takes n moles out of what the source holds. *)
RatioOf(source, n) ==
  LET total == Total(mix[source].gases) IN
  IF total = 0 THEN <<0, 1>> ELSE <<Least(n, total), total>>

RemoveRatioInto(source, dest, r) == RemoveInto(source, dest, r, TRUE)
RemoveAmountInto(source, dest, n) == RemoveInto(source, dest, RatioOf(source, n), FALSE)

(* transfer_gases: the gases of a mask; the new temperature divides the    *)
(* energy by the capacity of the gases alone.                              *)
TransferGases(source, dest, r, mask) ==
  LET s == mix[source]
      d == mix[dest]
      moved == [g \in Gases |-> IF g \in mask THEN Part(s.gases[g], r) ELSE 0]
      after == Canonical(Plus(d.gases, moved))
      energy == HeatCapacity(d) * d.temperature
                + s.temperature * RawCapacity([g \in Gases |->
                    IF g \in mask THEN Most(after[g] - d.gases[g], 0) ELSE 0])
  IN
  /\ source # dest /\ r[1] # 0 /\ ~s.immutable /\ ~d.immutable
  /\ s.revision # RevisionMax /\ d.revision # RevisionMax
  /\ \A g \in mask : d.gases[g] + moved[g] <= FloatMax
  /\ Applied("select", [mix EXCEPT
       ![source] = Committed([s EXCEPT !.gases = Minus(@, moved)]),
       ![dest] = Committed([d EXCEPT !.gases = after,
                   !.temperature = IF RawCapacity(after) > 0
                                     THEN energy \div RawCapacity(after) ELSE @])])

(* TransferByFlags: the registry turns flags into a mask. *)
TransferByFlags(source, dest, n, mask) ==
  /\ n > 0 /\ mask # {} /\ Total(mix[source].gases) > 0
  /\ TransferGases(source, dest, RatioOf(source, n), mask)

(* transfer_ratio_to *)
TransferRatio(source, dest, r) ==
  LET s == mix[source]
      d == mix[dest]
      removed  == Removed(s.gases, r)
      after    == Canonical(Plus(d.gases, removed))
      retained == RawCapacity([g \in Gases |-> Most(after[g] - d.gases[g], 0)])
  IN
  /\ source # dest /\ r[1] # 0
  /\ ReplacePair("transfer", Pair(
       source, IF s.immutable THEN s ELSE [s EXCEPT !.gases = Canonical(Minus(@, removed))],
       dest, IF d.immutable THEN d
             ELSE [d EXCEPT !.gases = after,
                            !.temperature = MeanTemperature(HeatCapacity(d), @,
                                              retained, s.temperature, @)]))

TransferAmount(source, dest, n) == TransferRatio(source, dest, RatioOf(source, n))

(* share_ratio *)
Shared(x, y, r, oneWay) ==
  LET copy == [NewRecord EXCEPT !.gases = y.gases, !.temperature = y.temperature]
      pool == IF oneWay THEN Merged(ScaledRecord(copy, r), TakenOut(x, r))
              ELSE Merged(TakenOut(x, r), TakenOut(y, r))
      between == ScaledRecord(pool, <<1, 2>>)
      Mixed(m) == IF m.immutable THEN m
                  ELSE LET n == Merged(LeftOver(m, r), between)
                       IN  [n EXCEPT !.gases = Canonical(@)]
  IN  <<Mixed(x), IF oneWay THEN y ELSE Mixed(y)>>

ShareRatio(a, b, r, oneWay) ==
  LET new == Shared(mix[a], mix[b], r, oneWay) IN
  a # b /\ ReplacePair(IF oneWay THEN "add" ELSE "transfer", Pair(a, new[1], b, new[2]))

(***************************************************************************)
(* Batches: apply_mixture_state, from what the client read, and            *)
(* reconcile_pipenet.                                                      *)
(***************************************************************************)
Snapshot(h) ==
  /\ seen' = [seen EXCEPT ![h] = mix[h]]
  /\ UNCHANGED <<mix, last, commands>>

Uploadable(batch) ==
  /\ \A i \in DOMAIN batch :
       LET m == mix[batch[i].handle] IN
       m.revision = batch[i].expected /\ (~m.immutable => m.revision # RevisionMax)
  /\ \A i, j \in DOMAIN batch : i # j => batch[i].handle # batch[j].handle

Uploaded(batch) ==
  [h \in Handles |->
     IF ~mix[h].immutable /\ \E i \in DOMAIN batch : batch[i].handle = h
       THEN LET u == batch[CHOOSE i \in DOMAIN batch : batch[i].handle = h]
            IN  Committed([mix[h] EXCEPT !.gases = u.gases, !.temperature = u.temperature,
                                       !.volume = u.volume])
       ELSE mix[h]]

(* The client sends what it read with gas 1 set to n, for one mixture or two. *)
ApplyMixtureState(hs, n) ==
  LET batch == [i \in DOMAIN hs |->
                  [handle |-> hs[i], expected |-> seen[hs[i]].revision,
                   gases |-> [seen[hs[i]].gases EXCEPT ![1] = n],
                   temperature |-> seen[hs[i]].temperature,
                   volume |-> seen[hs[i]].volume]]
  IN
  /\ \A i \in DOMAIN hs : seen[hs[i]] # Unread
  /\ Uploadable(batch) /\ Applied("upload", Uploaded(batch))

ReconcilePipenet(hs) ==
  LET Sum(f) == SumFunctionOnSet(f, hs)
      volume == Sum([h \in hs |-> mix[h].volume])
      gases  == [g \in Gases |-> Sum([h \in hs |-> mix[h].gases[g]])]
      heat   == Sum([h \in hs |-> HeatCapacity(mix[h])])
      energy == Sum([h \in hs |-> HeatCapacity(mix[h]) * mix[h].temperature])
      temp   == IF heat = 0 THEN MinimumTemperature ELSE Floor(energy \div heat)
  IN
  /\ volume # 0
  /\ \A h \in hs : ~mix[h].immutable => mix[h].revision # RevisionMax
  /\ \A g \in Gases : gases[g] <= FloatMax
  /\ Applied("transfer", [h \in Handles |->
       IF h \in hs /\ ~mix[h].immutable
         THEN Committed([mix[h] EXCEPT
                !.gases = [g \in Gases |-> (gases[g] * mix[h].volume) \div volume],
                !.temperature = temp])
         ELSE mix[h]])

(* The mixtures commands may name, until the bound is reached. *)
Named == IF commands < MaxCommands THEN Handles ELSE {}

Next ==
  \/ \E h \in Named :
       \/ Snapshot(h) \/ Clear(h) \/ MarkImmutable(h)
       \/ \E g \in Gases :
            \/ \E n \in Amounts : SetMoles(h, g, n)
            \/ \E d \in Deltas : AdjustMoles(h, g, d)
            \/ \E n \in Amounts, t \in Temperatures : AdjustMolesTemperature(h, g, n, t)
       \/ \E g, k \in Gases, d, e \in Deltas :
            AdjustMultiple(h, <<[gas |-> g, delta |-> d], [gas |-> k, delta |-> e]>>)
       \/ \E t \in Temperatures : SetTemperature(h, t)
       \/ \E v \in Volumes : SetVolume(h, v)
       \/ \E c \in Capacities : SetMinimumHeatCapacity(h, c)
       \/ \E d \in Deltas \union {0} : Add(h, d)
       \/ \E r \in Ratios \union {<<2, 1>>} : Multiply(h, r)
       \/ \E heat \in Heats : AdjustHeat(h, heat)
       \/ \E t \in Temperatures, c \in Capacities, r \in Ratios :
            TemperatureShareNonGas(h, t, c, r)
  \/ \E a, b \in Named :
       \/ CopyFrom(a, b) \/ EqualizeWith(a, b) \/ Merge(a, b)
       \/ \E r \in Ratios :
            \/ TemperatureShare(a, b, r) \/ RemoveRatioInto(a, b, r) \/ TransferRatio(a, b, r)
            \/ \E mask \in SUBSET Gases : TransferGases(a, b, r, mask)
            \/ \E oneWay \in BOOLEAN : ShareRatio(a, b, r, oneWay)
       \/ \E n \in Amounts :
            \/ RemoveAmountInto(a, b, n) \/ TransferAmount(a, b, n)
            \/ \E mask \in SUBSET Gases : TransferByFlags(a, b, n, mask)
            \/ ApplyMixtureState(<<a>>, n) \/ ApplyMixtureState(<<a, b>>, n)
  \/ \E hs \in SUBSET Named : ReconcilePipenet(hs)

Spec == Init /\ [][Next]_vars

(***************************************************************************)
(* Properties.                                                             *)
(***************************************************************************)
(* Mole counts are finite and not negative, temperatures stay above the    *)
(* floor, revisions do not wrap (docs/agent/numerical-invariants.md).      *)
TypeOK ==
  \A h \in Handles :
    /\ mix[h].gases \in [Gases -> 0..FloatMax]
    /\ mix[h].temperature >= MinimumTemperature
    /\ mix[h].revision \in 0..RevisionMax

(* "Immutable mixtures do not change through mutators", whichever command  *)
(* reaches them and in whichever role.                                     *)
ImmutableFixed == [][\A h \in Handles : mix[h].immutable => mix'[h] = mix[h]]_vars

(* A state that was computed from a snapshot is accepted only while the    *)
(* mixture still holds what was read, traces aside: the expected revision  *)
(* of apply_mixture_state detects every command in between.                *)
UploadFresh ==
  [][last' = "upload" =>
       \A h \in Handles : mix'[h] # mix[h] =>
         [seen[h] EXCEPT !.gases = Canonical(@)] = [mix[h] EXCEPT !.gases = Canonical(@)]]_vars

Moles(g) == SumFunctionOnSet([h \in Handles |-> mix[h].gases[g]], Handles)
NoneImmutable == \A h \in Handles : ~mix[h].immutable

(* Moving gas between mixtures creates none, and loses no more than the    *)
(* trace sink takes from each of the mixtures committed.                   *)
MovesConserve ==
  [][(commands' # commands /\ last' \in {"transfer", "select", "remove"} /\ NoneImmutable
      /\ \A g \in Gases : Moles(g) <= FloatMax) =>
       \A g \in Gases :
         /\ Moles(g)' <= Moles(g)
         /\ last' # "remove" =>
              Moles(g) - Moles(g)' <= Cardinality(Handles) * (MinimumMoles + Accuracy)]_vars

(***************************************************************************)
(* Two documented promises the commands do not keep (README, section 4).   *)
(* No run checks them.                                                     *)
(***************************************************************************)

(* "canonicalizes each positive per-gas result below 0.01 mole to zero at  *)
(* state-commit boundaries": no command leaves a trace behind.             *)
NoTraces == \A h \in Handles : Canonical(mix[h].gases) = mix[h].gases

(* "Merge, remove, transfer ... conserve total moles or energy": moving    *)
(* selected gases makes no mixture hotter than the hottest one was.        *)
TransferHeatsNothing ==
  [][commands' # commands /\ last' = "select" =>
       \A h \in Handles : \E k \in Handles : mix'[h].temperature <= mix[k].temperature]_vars
=============================================================================
