------------------------------ MODULE DmLists ------------------------------
(***************************************************************************)
(* The list of numbers each DreamMaker proc takes and gives back, as the   *)
(* shim reads and writes it (crates/dogmos-byond/src/lib.rs). The game has *)
(* no integers: every number is an f32, exact up to 2^Precision, and wider *)
(* integers travel as words of WordBits bits, the lowest first.            *)
(*                                                                         *)
(* A number is a natural number or one of three sorts of f32 that no index *)
(* may be. Read... returns {request} when the shim sends a request, {}     *)
(* when the proc reports an error. A handle is <<slot, generation>>.       *)
(***************************************************************************)
EXTENDS Integers, Sequences, FiniteSets, SequencesExt

CONSTANTS
    WordBits,    \* bits of the u16 words
    Precision,   \* bits of an f32's significand
    MaxRecords,  \* the limit on the records of a batch
    MaxGas,      \* MAX_GAS_SLOTS
    MaxEvents,   \* PRODUCTION_MAX_CALLBACK_EVENTS
    MaxLimit     \* MAX_STAGE_WORK_ITEMS

PrecisionAssumption ==
    /\ WordBits \in Nat \ {0} /\ Precision \in Nat
    /\ WordBits < Precision /\ Precision < 2 * WordBits

\* The payload tables of the protocol that the shim consults.
Codec == INSTANCE WireCodec
             WITH MaxOps <- MaxRecords, MaxPayload <- 0, MaxText <- 0

Fraction == -1
Negative == -2
NonFinite == -3

None == <<>>

Some(value) == <<value>>

If(condition, value) == IF condition THEN {value} ELSE {}

-----------------------------------------------------------------------------
(* Numbers and words.                                                      *)

\* The f32 nearest to n, ties to the even significand.
Float(n) ==
    LET shift == CHOOSE k \in 0 .. 2 * WordBits :
                   /\ n < 2 ^ (Precision + k)
                   /\ k > 0 => n >= 2 ^ (Precision + k - 1)
        ulp == 2 ^ shift
        low == (n \div ulp) * ulp
        up == \/ 2 * (n - low) > ulp
              \/ 2 * (n - low) = ulp /\ (n \div ulp) % 2 = 1
    IN  IF up THEN low + ulp ELSE low

MaxExact == 2 ^ Precision

Exact32(x) == x \in 0 .. MaxExact

Exact16(x) == Exact32(x) /\ x < 2 ^ WordBits

ExactBool(x) == Exact32(x) /\ x \in {0, 1}

\* ScalarValue::encode, and the same test in finite_byond_scalar.
Finite(x) == x # NonFinite

AllFinite(xs) == \A i \in DOMAIN xs : Finite(xs[i])

Words32(value) == <<value % 2 ^ WordBits, (value \div 2 ^ WordBits) % 2 ^ WordBits>>

Words64(value) ==
    [i \in 1 .. 4 |-> (value \div 2 ^ (WordBits * (i - 1))) % 2 ^ WordBits]

Join32(low, high) == low + high * 2 ^ WordBits

Join64(words) ==
    words[1] + words[2] * 2 ^ WordBits + words[3] * 2 ^ (2 * WordBits)
      + words[4] * 2 ^ (3 * WordBits)

ExactWords(words) == \A i \in DOMAIN words : Exact16(words[i])

Handle(slot, generation) == <<slot, generation>>

Chunk(list, size, i) == SubSeq(list, size * (i - 1) + 1, size * i)

\* validate_fixed_records, then each record: all of them or an error.
ReadRecords(list, size, maximum, Valid(_), Record(_)) ==
    LET count == Len(list) \div size IN
    If(/\ Len(list) % size = 0
       /\ count <= maximum
       /\ \A i \in 1 .. count : Valid(Chunk(list, size, i)),
       [i \in 1 .. count |-> Record(Chunk(list, size, i))])

-----------------------------------------------------------------------------
(* Callbacks and continuations.                                            *)

ReadDrain(list) ==
    If(/\ Len(list) = 7
       /\ ExactWords(list)
       /\ list[1] \in {1, 2}
       /\ Join32(list[6], list[7]) <= MaxEvents
       /\ (list[1] = 1) <=> (Join64(SubSeq(list, 2, 5)) = 0),
       [scope |-> list[1], transaction |-> Join64(SubSeq(list, 2, 5)),
        max |-> Join32(list[6], list[7])])

TokenIn(list) ==
    [generation |-> Join32(list[1], list[2]), id |-> Join64(SubSeq(list, 3, 6)),
     deadline |-> Join64(SubSeq(list, 7, 10))]

ReadToken(list) ==
    IF Len(list) = 10 /\ ExactWords(list)
    THEN If(TokenIn(list).id # 0 /\ TokenIn(list).deadline # 0, TokenIn(list))
    ELSE {}

\* append_continuation_token_fields.
TokenNumbers(token) ==
    Words32(token.generation) \o Words64(token.id) \o Words64(token.deadline)

ReadResume(list) ==
    IF Len(list) = 11
    THEN {[token |-> t, result |-> list[11]] :
            t \in IF Exact32(list[11]) /\ list[11] < 8
                  THEN ReadToken(SubSeq(list, 1, 10)) ELSE {}}
    ELSE {}

-----------------------------------------------------------------------------
(* Mixtures.                                                               *)

\* kind, flags, primary, secondary, three scalars, gas, reserved, aux, reserved.
CommandCells(list) ==
    <<list[1], list[2], 0, list[5] + list[6], list[7], list[8], list[9], list[10], 0,
      list[11], 0>>

\* The protocol decodes what the shim wrote: flags beyond the variant's and any
\* number the variant does not use are errors.
ReadCommand(list) ==
    LET kind == list[1] IN
        IF /\ Len(list) = 11
           /\ Exact16(list[1]) /\ Exact16(list[2]) /\ Exact16(list[10])
           /\ \A i \in {3, 4, 5, 6, 11} : Exact32(list[i])
           /\ AllFinite(SubSeq(list, 7, 9))
        THEN If(/\ kind \in 1 .. 36
                /\ list[2] <= (IF kind \in {13, 35, 36} THEN 1 ELSE 0)
                /\ Codec!UnusedZero(CommandCells(list))
                /\ kind = 36 /\ list[2] = 1 => list[7] # Negative,
                [kind |-> kind, flags |-> list[2], primary |-> Handle(list[3], list[4]),
                 secondary |-> Handle(list[5], list[6]), scalars |-> SubSeq(list, 7, 9),
                 gas |-> list[10], aux |-> list[11]])
        ELSE {}

ReadContinuationCommand(list) ==
    IF Len(list) = 21
    THEN {[token |-> t, command |-> c] :
            t \in ReadToken(SubSeq(list, 1, 10)), c \in ReadCommand(SubSeq(list, 11, 21))}
    ELSE {}

\* slot, generation, then pairs of gas and delta. The protocol takes MaxGas.
ReadAdjust(list) ==
    IF Len(list) >= 2 /\ Exact32(list[1]) /\ Exact32(list[2])
    THEN {[handle |-> Handle(list[1], list[2]), adjustments |-> pairs] :
            pairs \in ReadRecords(SubSeq(list, 3, Len(list)), 2, MaxGas,
                                  LAMBDA r : Exact16(r[1]) /\ Finite(r[2]),
                                  LAMBDA r : [gas |-> r[1], delta |-> r[2]])}
    ELSE {}

ReadContinuationAdjust(list) ==
    IF Len(list) >= 12
    THEN {[token |-> t, adjust |-> a] :
            t \in ReadToken(SubSeq(list, 1, 10)),
            a \in ReadAdjust(SubSeq(list, 11, Len(list)))}
    ELSE {}

ReadLifecycle(list) ==
    ReadRecords(list, 3, MaxRecords,
                LAMBDA r : r[1] \in {1, 2} /\ Exact32(r[2]) /\ Exact32(r[3]),
                LAMBDA r : [action |-> r[1], handle |-> Handle(r[2], r[3])])

\* handles_from_slot_generation_pairs, for pipenets and snapshots alike.
ReadHandles(list) ==
    ReadRecords(list, 2, MaxRecords,
                LAMBDA r : Exact32(r[1]) /\ Exact32(r[2]),
                LAMBDA r : Handle(r[1], r[2]))

\* One handle: a mixture's or a turf's snapshot.
ReadHandle(list) ==
    If(Len(list) = 2 /\ Exact32(list[1]) /\ Exact32(list[2]), Handle(list[1], list[2]))

\* slot, generation, the revision's words, temperature, volume, the gases.
ReadStates(list) ==
    ReadRecords(list, 6 + MaxGas, MaxRecords,
                LAMBDA r : /\ Exact32(r[1]) /\ Exact32(r[2])
                           /\ Exact16(r[3]) /\ Exact16(r[4])
                           /\ AllFinite(SubSeq(r, 5, 6 + MaxGas)),
                LAMBDA r : [handle |-> Handle(r[1], r[2]), revision |-> Join32(r[3], r[4]),
                            scalars |-> SubSeq(r, 5, 6 + MaxGas)])

-----------------------------------------------------------------------------
(* Turfs, edges and heat.                                                  *)

\* The protocol's encoder refuses the mixture of a turf that goes away.
ReadTurfs(list) ==
    ReadRecords(list, 6, MaxRecords,
                LAMBDA r : /\ r[1] \in {1, 2}
                           /\ Exact32(r[2]) /\ Exact32(r[3]) /\ ExactBool(r[4])
                           /\ Exact32(r[5]) /\ Exact32(r[6])
                           /\ r[4] = 0 => r[5] = 0 /\ r[6] = 0
                           /\ r[1] = 2 => r[4] = 0,
                LAMBDA r : [action |-> r[1], turf |-> Handle(r[2], r[3]),
                            mixture |-> IF r[4] = 1 THEN Some(Handle(r[5], r[6])) ELSE None])

\* encode_turf_adjacency_batch takes a pair of slots once and a firelock only
\* on an open edge.
ReadEdges(list) ==
    {edges \in ReadRecords(list, 6, MaxRecords,
                LAMBDA r : /\ \A i \in 1 .. 4 : Exact32(r[i])
                           /\ ExactBool(r[5]) /\ ExactBool(r[6])
                           /\ r[6] = 1 => r[5] = 1,
                LAMBDA r : [left |-> Handle(r[1], r[2]), right |-> Handle(r[3], r[4]),
                            connected |-> r[5], firelock |-> r[6]]) :
       Codec!NoRepeats([i \in DOMAIN edges |-> {edges[i].left[1], edges[i].right[1]}])}

ReadHeatEdges(list) ==
    ReadRecords(list, 5, MaxRecords,
                LAMBDA r : (\A i \in 1 .. 4 : Exact32(r[i])) /\ ExactBool(r[5]),
                LAMBDA r : [left |-> Handle(r[1], r[2]), right |-> Handle(r[3], r[4]),
                            connected |-> r[5]])

\* Temperature, conductivity, capacity and whether space is adjacent.
ReadHeat(list) ==
    ReadRecords(list, 7, MaxRecords,
                LAMBDA r : /\ Exact32(r[1]) /\ Exact32(r[2])
                           /\ ExactBool(r[3]) /\ ExactBool(r[7])
                           /\ r[3] = 0 => \A i \in 4 .. 7 : r[i] = 0
                           /\ AllFinite(SubSeq(r, 4, 6)),
                LAMBDA r : [turf |-> Handle(r[1], r[2]),
                            state |-> IF r[3] = 1 THEN Some(SubSeq(r, 4, 7)) ELSE None])

-----------------------------------------------------------------------------
(* The frontier and the stages.                                            *)

ReadFrontierBegin(list) ==
    If(Len(list) = 6 /\ ExactWords(list),
       [epoch |-> Join64(SubSeq(list, 1, 4)), count |-> Join32(list[5], list[6])])

\* Handles of four words each; the protocol takes each of them once.
ReadWordHandles(list) ==
    {handles \in ReadRecords(list, 4, MaxRecords, ExactWords,
                             LAMBDA r : Handle(Join32(r[1], r[2]), Join32(r[3], r[4]))) :
       handles # <<>> /\ Codec!NoRepeats(handles)}

ReadFrontierAppend(list) ==
    IF Len(list) >= 10 /\ ExactWords(SubSeq(list, 1, 6))
    THEN {[epoch |-> Join64(SubSeq(list, 1, 4)), offset |-> Join32(list[5], list[6]),
           handles |-> hs] : hs \in ReadWordHandles(SubSeq(list, 7, Len(list)))}
    ELSE {}

ReadFrontierMutate(list) ==
    IF Len(list) >= 8 /\ ExactWords(SubSeq(list, 1, 4))
    THEN {[epoch |-> Join64(SubSeq(list, 1, 4)), handles |-> hs] :
            hs \in ReadWordHandles(SubSeq(list, 5, Len(list)))}
    ELSE {}

ReadFrontierCommit(list) ==
    If(Len(list) = 4 /\ ExactWords(list), [epoch |-> Join64(list)])

ReadStage(list) ==
    IF Len(list) = 12 /\ Exact32(list[1]) /\ ExactWords(SubSeq(list, 2, 11))
    THEN If(/\ list[1] \in 1 .. 5 /\ Finite(list[12])
            /\ Join32(list[10], list[11]) \in 1 .. MaxLimit,
            [stage |-> list[1], epoch |-> Join64(SubSeq(list, 2, 5)),
             stage_epoch |-> Join64(SubSeq(list, 6, 9)),
             limit |-> Join32(list[10], list[11]), seconds |-> list[12]])
    ELSE {}

-----------------------------------------------------------------------------
(* Metadata: numeric records, the records' names, and items that name the  *)
(* record they belong to by its index.                                     *)

\* The items of each record, {} when an owner does not exist or has too many.
ReadItems(list, count) ==
    LET Item(r) == [owner |-> r[1] + 1, gas |-> r[2], amount |-> r[3]]
        Of(items, owner) == SelectSeq(items, LAMBDA it : it.owner = owner)
    IN  {[o \in 1 .. count |-> [i \in 1 .. Len(Of(items, o)) |->
                                  <<Of(items, o)[i].gas, Of(items, o)[i].amount>>]] :
           items \in {its \in ReadRecords(list, 3, count * MaxGas,
                                          LAMBDA r : /\ Exact32(r[1]) /\ r[1] < count
                                                     /\ Exact16(r[2]) /\ Finite(r[3]), Item) :
                        \A o \in 1 .. count : Len(Of(its, o)) <= MaxGas}}

\* An optional number: its flag, then a value that is zero when it is absent.
ValidOption(flag, value) == ExactBool(flag) /\ (flag = 0 => value = 0) /\ Finite(value)

OptionIn(flag, value) == IF flag = 1 THEN Some(value) ELSE None

\* id, flags (two words), heat, fusion, visible (flag, moles), enthalpy,
\* radiation, fire role and its two values, product kind.
ValidGas(r, products) ==
    /\ Exact16(r[1]) /\ Exact16(r[2]) /\ Exact16(r[3])
    /\ AllFinite(<<r[4], r[5], r[8], r[9], r[11], r[12]>>)
    /\ ValidOption(r[6], r[7])
    /\ r[10] \in 0 .. 2 /\ (r[10] = 0 => r[11] = 0 /\ r[12] = 0)
    /\ r[13] \in 0 .. 2 /\ (r[13] # 1 => products = <<>>)

GasIn(r, key, name, products) ==
    [id |-> r[1], flags |-> Join32(r[2], r[3]), key |-> key, name |-> name,
     scalars |-> <<r[4], r[5], r[8], r[9]>>, visible |-> OptionIn(r[6], r[7]),
     role |-> SubSeq(r, 10, 12), made |-> r[13], products |-> products]

ReadGases(list, keys, names, products) ==
    LET count == Len(list) \div 13 IN
    IF /\ Len(list) % 13 = 0 /\ count <= MaxGas
       /\ Len(keys) = count /\ Len(names) = count
    THEN {[i \in 1 .. count |-> GasIn(Chunk(list, 13, i), keys[i], names[i], items[i])] :
            items \in {its \in ReadItems(products, count) :
                         \A i \in 1 .. count : ValidGas(Chunk(list, 13, i), its[i])}}
    ELSE {}

\* id (two words), execution, priority, then four optional limits.
ValidReaction(r) ==
    /\ Exact16(r[1]) /\ Exact16(r[2])
    /\ r[3] \in 0 .. 4 /\ Finite(r[4])
    /\ \A i \in {5, 7, 9, 11} : ValidOption(r[i], r[i + 1])

ReactionIn(r, key, needs) ==
    [id |-> Join32(r[1], r[2]), key |-> key, execution |-> r[3], priority |-> r[4],
     limits |-> [i \in 1 .. 4 |-> OptionIn(r[3 + 2 * i], r[4 + 2 * i])], needs |-> needs]

ReadReactions(list, keys, needs) ==
    LET count == Len(list) \div 12 IN
    IF Len(list) % 12 = 0 /\ count <= MaxRecords /\ Len(keys) = count
    THEN {[i \in 1 .. count |-> ReactionIn(Chunk(list, 12, i), keys[i], items[i])] :
            items \in {its \in ReadItems(needs, count) :
                         \A i \in 1 .. count : ValidReaction(Chunk(list, 12, i))}}
    ELSE {}

-----------------------------------------------------------------------------
(* What the procs give back. An answer whose scalar an f32 cannot hold is  *)
(* an error. Integers that are pushed without being split are Float(n).    *)

\* Mutant: the revision is pushed as one number.
SnapshotNumbersShort(s) ==
    If(AllFinite(s.scalars),
       <<Float(s.revision), 0, Float(s.count)>> \o s.scalars \o <<s.immutable>>)

\* append_production_mixture_snapshot; the gases are among the scalars.
SnapshotNumbers(s) ==
    If(AllFinite(s.scalars),
       Words32(s.revision) \o <<Float(s.count)>> \o s.scalars \o <<s.immutable>>)

\* Pipenets and snapshot batches: the handle in front of each snapshot.
RecordNumbers(s) ==
    {<<Float(s.handle[1]), Float(s.handle[2])>> \o list : list \in SnapshotNumbers(s)}

HeatNumbers(state) ==
    IF state = None THEN {<<0, 0, 0, 0, 0>>}
    ELSE If(AllFinite(SubSeq(state[1], 1, 3)), <<1>> \o state[1])

\* mixture_command_response_value; only reaction progress has the four words.
AnswerNumbers(a) ==
    CASE a.kind = 1 -> <<1, Float(a.updated), 0, 0>>
      [] a.kind = 2 -> <<2, a.value, 0, 0>>
      [] a.kind = 3 -> <<3, a.value, a.second, 0>>
      [] a.kind = 4 -> <<4, a.value, 0, 0>>
      [] a.kind = 5 -> <<5, Float(a.flags), Float(a.work), a.pending>>
                         \o Words64(a.transaction)

\* The fields of an event after its header: sequence, transaction, scope, kind,
\* flags, subject and target, values, aux, then the continuation.
EventNumbers(e) ==
    LET token == IF e.token = None THEN [generation |-> 0, id |-> 0, deadline |-> 0]
                 ELSE e.token[1]
    IN  If(Finite(e.value),
           Words64(e.sequence) \o Words64(e.transaction) \o <<e.scope, e.kind, e.flags>>
             \o Words32(e.subject[1]) \o Words32(e.subject[2])
             \o Words32(e.target[1]) \o Words32(e.target[2])
             \o <<e.value>> \o Words32(e.aux)
             \o <<IF e.token = None THEN 0 ELSE 1>> \o TokenNumbers(token))

StageNumbers(r) ==
    Words32(r.work) \o Words32(r.callbacks) \o <<r.pending>> \o Words32(r.remaining)
      \o FlattenSeq([i \in 1 .. 3 |-> Words32(r.seeds[i])])

\* Begin gives back four words, append and mutate two, commit six.
EpochNumbers(epoch) == Words64(epoch)

CommitNumbers(r) == Words64(r.epoch) \o Words32(r.count)

\* Telemetry is depths of two words each and counters of four.
TelemetryNumbers(t) ==
    FlattenSeq([i \in DOMAIN t.depths |-> Words32(t.depths[i])])
      \o FlattenSeq([i \in DOMAIN t.counters |-> Words64(t.counters[i])])

\* validate_current_process_metrics: a size is zero unless its flag is set. The
\* last of the sizes, the host's processor time, is not passed on.
MetricsNumbers(host, service) ==
    LET Told(i) == Words64(host.sizes[i]) IN
    If(/\ host.flags < 16
       /\ \A i \in 1 .. 4 : Codec!Bit(host.flags, i - 1) = 0 => host.sizes[i] = 0,
       Words32(1) \o Words32(host.flags % 8) \o Words32(service.flags) \o Words32(0)
         \o Told(1) \o Told(2) \o Told(3)
         \o Words64(service.rss) \o Words64(service.cpu))

=============================================================================
