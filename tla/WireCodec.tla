----------------------------- MODULE WireCodec -----------------------------
(***************************************************************************)
(* The encoders and decoders of every payload the BYOND client and the     *)
(* service exchange (crates/dogmos-protocol/src: lib.rs,                   *)
(* metadata_wire.rs, continuation_wire.rs, telemetry_wire.rs).             *)
(*                                                                         *)
(* A payload is a tuple of cells, one for each field at its fixed offset,  *)
(* followed by a body of fixed-width records; `ragged` says that its       *)
(* length in bytes fits no whole number of records. Runs of fields that    *)
(* are copied in and out without any test share one cell. A cell holds the *)
(* field's bits as a natural number: the same bits are an integer to one   *)
(* reader and a float to another, so five of them are set aside as the     *)
(* floats the code tells apart. A handle is one cell: slot and generation. *)
(*                                                                         *)
(* An encoder is given a value of the Rust type and returns a set: {p}     *)
(* when it emits the payload p, {} when it reports an error. A decoder     *)
(* returns {m} or {} likewise.                                             *)
(***************************************************************************)
EXTENDS Integers, Sequences, FiniteSets, SequencesExt

CONSTANTS
    MaxOps,      \* the caller's limit on counted records
    MaxGas,      \* MAX_GAS_SLOTS
    MaxPayload,  \* MAX_CONTROL_PAYLOAD, in bytes
    MaxLimit,    \* MAX_STAGE_WORK_ITEMS and the other capacity limits
    MaxText      \* MAX_METADATA_KEY_BYTES, MAX_METADATA_NAME_BYTES

None == <<>>

Some(value) == <<value>>

\* The bits of -0.0, of a negative number, of a NaN or infinity, of an f64
\* that an f32 only approximates (by 1.0), and of one beyond the f32 range.
NegZero == 4
Negative == 5
NonFinite == 6
Inexact == 7
Huge == 8

If(condition, value) == IF condition THEN {value} ELSE {}

Fixed(cells) == [head |-> cells, body |-> <<>>, ragged |-> FALSE]

Counted(head, records) == [head |-> head, body |-> records, ragged |-> FALSE]

\* require_exact_len of a payload without records.
ExactLen(p) == p.body = <<>> /\ ~p.ragged

\* decode_boolean; flags & !1.
Boolean(c) == c \in {0, 1}

\* ScalarValue::encode and decode refuse the same bits.
ScalarValue(c) == c # NonFinite

Scalars(cs) == \A i \in DOMAIN cs : ScalarValue(cs[i])

\* value.0 == 0.0 holds of both zeros; the bytes of only one are zero.
IsZero(c) == c \in {0, NegZero}

Slot(handle) == handle \div 2

Bit(flags, i) == (flags \div 2 ^ i) % 2

OrZero(option) == IF option = None THEN 0 ELSE option[1]

Present(option) == IF option = None THEN 0 ELSE 1

Option(present, value) == IF present = 1 THEN Some(value) ELSE None

NoRepeats(s) == \A i, j \in DOMAIN s : s[i] = s[j] => i = j

\* Each entry encoded by Rec, all or nothing.
Records(Rec(_), entries) ==
    IF \A i \in DOMAIN entries : Rec(entries[i]) # {}
    THEN {[i \in DOMAIN entries |-> CHOOSE r \in Rec(entries[i]) : TRUE]}
    ELSE {}

\* encode_*_batch: checked_encode_count lets every length a u32 can hold pass.
EncodeBatch(Rec(_), entries) ==
    {Counted(<<Len(entries)>>, records) : records \in Records(Rec, entries)}

\* validate_counted_payload with the count in cell i of the head.
CountedAt(p, i, maximum) ==
    p.head[i] <= maximum /\ Len(p.body) = p.head[i] /\ ~p.ragged

DecodeBatch(Rec(_), p, maximum) ==
    IF CountedAt(p, 1, maximum) THEN Records(Rec, p.body) ELSE {}

-----------------------------------------------------------------------------
(* Frames and the handshake.                                               *)

OperationKinds == 1 .. 3 \cup 10 .. 48

\* magic, version, header_len, kind, flags, payload_len, request_id,
\* world_generation, reserved, world_nonce, deadline. Good magic, version and
\* header length are 1.
ValidHeader(h) ==
    /\ h[1] = 1 /\ h[2] = 1 /\ h[3] = 1
    /\ h[4] \in OperationKinds
    /\ h[5] < 4
    /\ Bit(h[5], 1) = 1 => Bit(h[5], 0) = 1
    /\ h[9] = 0
    /\ h[6] <= MaxPayload

\* ProtocolHeader::request and response.
RequestHeader(kind, id, generation, nonce, len) ==
    <<1, 1, 1, kind, 0, len, id, generation, 0, nonce, 1>>

ResponseHeader(h, flags) == [h EXCEPT ![5] = flags]

\* write_frame: the writer decodes its own header before it sends it.
EncodeFrame(f) ==
    If(Len(f.payload) = f.header[6] /\ ValidHeader(f.header),
       Counted(f.header, f.payload))

DecodeFrame(p) ==
    If(ValidHeader(p.head) /\ Len(p.body) = p.head[6] /\ ~p.ragged,
       [header |-> p.head, payload |-> p.body])

\* token, abi, protocol, revision, fingerprint, digest, then the capacities
\* control, batch, callbacks, continuations, frontier, stage, transactions,
\* reserved, bytes, and at last process id, generation, nonce.
EncodeHandshake(m) == {Fixed(m)}

WithinCapacity(c, maximum) == 0 < c /\ c <= maximum

ValidHandshake(h) ==
    /\ h[1] # 0 /\ h[2] = 1 /\ h[3] = 1 /\ h[4] # 0 /\ h[5] # 0 /\ h[6] # 0
    /\ h[16] # 0
    /\ WithinCapacity(h[7], MaxLimit) /\ WithinCapacity(h[9], MaxLimit)
    /\ WithinCapacity(h[10], MaxLimit)
    /\ h[14] = 0 /\ h[11] # 0
    /\ WithinCapacity(h[12], MaxLimit) /\ h[13] # 0

DecodeHandshake(p) == If(ExactLen(p) /\ ValidHandshake(p.head), p.head)

EncodeError(m) == {Fixed(<<m>>)}

DecodeError(p) == If(ExactLen(p) /\ p.head[1] \in 1 .. 25, p.head[1])

-----------------------------------------------------------------------------
(* The frontier.                                                           *)

EncodeFrontierBegin(m) == {Fixed(<<m.epoch, m.count, 0>>)}

DecodeFrontierBegin(p) ==
    If(ExactLen(p) /\ p.head[3] = 0, [epoch |-> p.head[1], count |-> p.head[2]])

ValidHandles(handles) == Len(handles) \in 1 .. MaxOps /\ NoRepeats(handles)

HandleCells(handles) == [i \in DOMAIN handles |-> <<handles[i]>>]

HandlesIn(body) == [i \in DOMAIN body |-> body[i][1]]

EncodeFrontierAppend(m) ==
    If(ValidHandles(m.handles),
       Counted(<<m.epoch, m.offset, Len(m.handles)>>, HandleCells(m.handles)))

DecodeFrontierAppend(p) ==
    If(CountedAt(p, 3, MaxOps) /\ p.head[3] # 0 /\ NoRepeats(p.body),
       [epoch |-> p.head[1], offset |-> p.head[2], handles |-> HandlesIn(p.body)])

EncodeFrontierMutate(m) ==
    If(ValidHandles(m.handles), Counted(<<m.epoch, Len(m.handles)>>, HandleCells(m.handles)))

DecodeFrontierMutate(p) ==
    If(CountedAt(p, 2, MaxOps) /\ p.head[2] # 0 /\ NoRepeats(p.body),
       [epoch |-> p.head[1], handles |-> HandlesIn(p.body)])

EncodeFrontierCommitResponse(m) == {Fixed(<<m.epoch, m.count, 0>>)}

DecodeFrontierCommitResponse(p) ==
    If(ExactLen(p) /\ p.head[3] = 0, [epoch |-> p.head[1], count |-> p.head[2]])

-----------------------------------------------------------------------------
(* Callbacks and continuations.                                            *)

General == 1
Reaction == 2
ReactionFinished == 2
TurfDestructionRequest == 6
RunDmReaction == 7
ReactionProfiled == 8

ValidTransaction(scope, transaction) == (scope = General) <=> (transaction = 0)

ValidAux(kind, aux) ==
    CASE kind = ReactionFinished -> aux \in 1 .. 4
      [] kind = TurfDestructionRequest -> aux = 1
      [] kind \in {RunDmReaction, ReactionProfiled} -> TRUE
      [] OTHER -> aux = 0

\* world_generation, reserved, id, deadline.
EncodeToken(t) == If(t.id # 0 /\ t.deadline # 0, <<t.generation, 0, t.id, t.deadline>>)

DecodeToken(c) ==
    LET t == [generation |-> c[1], id |-> c[3], deadline |-> c[4]] IN
    If(c[2] = 0 /\ EncodeToken(t) # {}, t)

NoToken == <<0, 0, 0, 0>>

\* sequence, transaction, scope, kind, flags, reserved, the handles, a value,
\* aux, reserved, then the continuation token.
EncodeCallback(m) ==
    LET token == IF m.continuation = None THEN {NoToken}
                 ELSE EncodeToken(m.continuation[1])
    IN  {Fixed(<<m.sequence, m.transaction, m.scope, m.kind, m.flags, 0, m.handles,
                 m.value, m.aux, 0>> \o t) :
           t \in IF /\ ValidTransaction(m.scope, m.transaction)
                    /\ m.flags = 0
                    /\ ValidAux(m.kind, m.aux)
                    /\ (m.kind = RunDmReaction) <=> (m.continuation # None)
                    /\ ScalarValue(m.value)
                 THEN token ELSE {}}

DecodeCallback(p) ==
    LET h == p.head
        bytes == SubSeq(h, 11, 14)
        tokens == IF h[4] = RunDmReaction
                  THEN IF bytes # NoToken THEN {Some(t) : t \in DecodeToken(bytes)} ELSE {}
                  ELSE IF bytes # NoToken THEN {} ELSE {None}
    IN  {[sequence |-> h[1], transaction |-> h[2], scope |-> h[3], kind |-> h[4],
          flags |-> h[5], handles |-> h[7], value |-> h[8], aux |-> h[9],
          continuation |-> t] :
           t \in IF /\ ExactLen(p)
                    /\ h[3] \in {General, Reaction} /\ ValidTransaction(h[3], h[2])
                    /\ h[5] = 0 /\ h[6] = 0 /\ h[10] = 0
                    /\ h[4] \in 1 .. 8 /\ ValidAux(h[4], h[9])
                    /\ ScalarValue(h[8])
                 THEN tokens ELSE {}}

EncodeCallbackRequest(m) ==
    If(ValidTransaction(m.scope, m.transaction),
       Fixed(<<m.max, m.scope, 0, m.transaction>>))

DecodeCallbackRequest(p) ==
    LET h == p.head IN
    If(/\ ExactLen(p) /\ h[3] = 0 /\ h[2] \in {General, Reaction}
       /\ ValidTransaction(h[2], h[4]),
       [max |-> h[1], scope |-> h[2], transaction |-> h[4]])

\* REACTION_FLAGS has three bits.
EncodeResume(m) ==
    {Fixed(t \o <<m.result, 0>>) :
       t \in IF m.result < 8 THEN EncodeToken(m.token) ELSE {}}

DecodeResume(p) ==
    {m \in {[token |-> t, result |-> p.head[5]] : t \in DecodeToken(SubSeq(p.head, 1, 4))} :
       ExactLen(p) /\ p.head[6] = 0 /\ EncodeResume(m) # {}}

-----------------------------------------------------------------------------
(* Mixtures.                                                               *)

\* revision, gas_count, temperature to heat capacity, immutable, reserved, gases.
EncodeSnapshot(m) ==
    If(m.count <= MaxGas /\ Scalars(<<m.scalars, m.gases>>),
       Fixed(<<m.revision, m.count, m.scalars, m.immutable, 0, m.gases>>))

DecodeSnapshot(p) ==
    LET h == p.head IN
    If(/\ ExactLen(p) /\ h[2] <= MaxGas /\ Boolean(h[4]) /\ h[5] = 0
       /\ Scalars(<<h[3], h[6]>>),
       [revision |-> h[1], count |-> h[2], scalars |-> h[3], immutable |-> h[4],
        gases |-> h[6]])

\* value.0 as f32: rounded, and infinite beyond the range.
Compact(c) ==
    CASE c = Inexact -> 1
      [] c = Huge -> NonFinite
      [] OTHER -> c

\* encode_pipenet_reconcile_snapshot, with the handle in front.
EncodeCompact(m) ==
    If(m.count <= MaxGas /\ Scalars(<<Compact(m.scalars), Compact(m.gases)>>),
       <<m.handle, m.revision, m.count, Compact(m.scalars), m.immutable, Compact(m.gases)>>)

DecodeCompact(r) ==
    If(r[3] <= MaxGas /\ Boolean(r[5]) /\ Scalars(<<r[4], r[6]>>),
       [handle |-> r[1], revision |-> r[2], count |-> r[3], scalars |-> r[4],
        immutable |-> r[5], gases |-> r[6]])

EncodeSnapshots(m) == EncodeBatch(EncodeCompact, m)

DecodeSnapshots(p) == DecodeBatch(DecodeCompact, p, MaxOps)

EncodeHandle(h) == {<<h>>}

DecodeHandle(r) == {r[1]}

EncodeHandles(m) == EncodeBatch(EncodeHandle, m)

DecodeHandles(p) == DecodeBatch(DecodeHandle, p, MaxOps)

\* handle, expected_revision, reserved, temperature and volume, gases.
EncodeState(m) ==
    If(Scalars(<<m.scalars, m.gases>>), <<m.handle, m.revision, 0, m.scalars, m.gases>>)

\* decode_mixture_state_records does not look at the reserved word.
DecodeState(r) ==
    If(Scalars(<<r[4], r[5]>>),
       [handle |-> r[1], revision |-> r[2], scalars |-> r[4], gases |-> r[5]])

\* validate_mixture_state_batch does, before the records are decoded.
ValidState(r) == r[3] = 0 /\ Scalars(<<r[4], r[5]>>)

EncodeStates(m) == EncodeBatch(EncodeState, m)

DecodeStates(p) ==
    IF CountedAt(p, 1, MaxOps) /\ \A i \in DOMAIN p.body : ValidState(p.body[i])
    THEN Records(DecodeState, p.body) ELSE {}

EncodeUploadBegin(m) == If(m # 0, Fixed(<<m, 0>>))

DecodeUploadBegin(p) == If(ExactLen(p) /\ p.head[1] # 0 /\ p.head[2] = 0, p.head[1])

\* The response checks the id it encodes; commit and abort requests do not.
EncodeUploadId(m) == If(m # 0, Fixed(<<m>>))

EncodeUploadEnd(m) == {Fixed(<<m>>)}

DecodeUploadId(p) == If(ExactLen(p) /\ p.head[1] # 0, p.head[1])

EncodeUploadAppend(m) ==
    IF m.id # 0 /\ m.mutations # <<>>
    THEN {Counted(<<m.id, m.offset, Len(m.mutations)>>, records) :
            records \in Records(EncodeState, m.mutations)}
    ELSE {}

DecodeUploadAppend(p) ==
    IF p.head[1] # 0 /\ p.head[3] # 0 /\ CountedAt(p, 3, MaxOps)
    THEN {[id |-> p.head[1], offset |-> p.head[2], mutations |-> ms] :
            ms \in Records(DecodeState, p.body)}
    ELSE {}

\* gas, reserved, delta.
EncodeAdjustment(a) == If(ScalarValue(a.delta), <<a.gas, 0, a.delta>>)

DecodeAdjustment(r) ==
    If(r[2] = 0 /\ ScalarValue(r[3]), [gas |-> r[1], delta |-> r[3]])

EncodeAdjust(m) ==
    IF Len(m.adjustments) <= MaxGas
    THEN {Counted(<<m.handle, Len(m.adjustments)>>, records) :
            records \in Records(EncodeAdjustment, m.adjustments)}
    ELSE {}

DecodeAdjust(p) ==
    IF CountedAt(p, 2, MaxGas)
    THEN {[handle |-> p.head[1], adjustments |-> as] :
            as \in Records(DecodeAdjustment, p.body)}
    ELSE {}

\* The token in front of the nested request.
EncodeContinuationAdjust(m) ==
    {[p EXCEPT !.head = t \o @] : p \in EncodeAdjust(m.adjust), t \in EncodeToken(m.token)}

DecodeContinuationAdjust(p) ==
    {[token |-> t, adjust |-> a] :
       t \in DecodeToken(SubSeq(p.head, 1, 4)),
       a \in DecodeAdjust([p EXCEPT !.head = SubSeq(@, 5, 6)])}

-----------------------------------------------------------------------------
(* Mixtures' and turfs' lifecycle, adjacency and heat.                     *)

Register == 1
Unregister == 2

EncodeLifecycle(e) == {<<e.action, e.handle>>}

DecodeLifecycle(r) ==
    If(r[1] \in {Register, Unregister}, [action |-> r[1], handle |-> r[2]])

EncodeLifecycles(m) == EncodeBatch(EncodeLifecycle, m)

DecodeLifecycles(p) == DecodeBatch(DecodeLifecycle, p, MaxOps)

EncodeTurf(e) ==
    If(~(e.action = Unregister /\ e.mixture # None),
       <<e.action, e.turf, Present(e.mixture), OrZero(e.mixture)>>)

DecodeTurf(r) ==
    If(/\ r[1] \in {Register, Unregister} /\ Boolean(r[3])
       /\ r[3] = 0 => r[4] = 0
       /\ ~(r[1] = Unregister /\ r[3] = 1),
       [action |-> r[1], turf |-> r[2], mixture |-> Option(r[3], r[4])])

EncodeTurfs(m) == EncodeBatch(EncodeTurf, m)

DecodeTurfs(p) == DecodeBatch(DecodeTurf, p, MaxOps)

\* validate_unique_turf_adjacency: by slots, in either direction.
UniqueEdges(es) == NoRepeats([i \in DOMAIN es |-> {Slot(es[i].left), Slot(es[i].right)}])

EncodeEdge(e) ==
    If(~(e.firelock = 1 /\ e.connected = 0), <<e.left, e.right, e.connected, e.firelock>>)

DecodeEdge(r) ==
    If(Boolean(r[3]) /\ Boolean(r[4]) /\ ~(r[4] = 1 /\ r[3] = 0),
       [left |-> r[1], right |-> r[2], connected |-> r[3], firelock |-> r[4]])

EncodeEdges(m) == IF UniqueEdges(m) THEN EncodeBatch(EncodeEdge, m) ELSE {}

DecodeEdges(p) == {es \in DecodeBatch(DecodeEdge, p, MaxOps) : UniqueEdges(es)}

EncodeHeatEdge(e) == {<<e.left, e.right, e.connected, 0>>}

DecodeHeatEdge(r) ==
    If(Boolean(r[3]) /\ r[4] = 0, [left |-> r[1], right |-> r[2], connected |-> r[3]])

EncodeHeatEdges(m) == EncodeBatch(EncodeHeatEdge, m)

DecodeHeatEdges(p) == DecodeBatch(DecodeHeatEdge, p, MaxOps)

EncodeAdjacency(e) == If(ScalarValue(e.conductivity), <<e.left, e.right, e.conductivity>>)

DecodeAdjacency(r) ==
    If(ScalarValue(r[3]), [left |-> r[1], right |-> r[2], conductivity |-> r[3]])

EncodeAdjacencies(m) == EncodeBatch(EncodeAdjacency, m)

DecodeAdjacencies(p) == DecodeBatch(DecodeAdjacency, p, MaxOps)

\* flags, reserved, and the two scalars of the state.
EncodeHeatState(s) ==
    IF s = None THEN {<<0, 0, 0, 0>>}
    ELSE If(Scalars(<<s[1].temperature, s[1].capacity>>),
            <<1 + 2 * s[1].space, 0, s[1].temperature, s[1].capacity>>)

DecodeHeatState(c) ==
    If(/\ c[1] < 4 /\ c[2] = 0
       /\ ~(Bit(c[1], 1) = 1 /\ Bit(c[1], 0) = 0)
       /\ Scalars(<<c[3], c[4]>>)
       /\ Bit(c[1], 0) = 0 => IsZero(c[3]) /\ IsZero(c[4]),
       Option(Bit(c[1], 0),
              [temperature |-> c[3], capacity |-> c[4], space |-> Bit(c[1], 1)]))

EncodeHeatSnapshot(m) == {Fixed(c) : c \in EncodeHeatState(m)}

DecodeHeatSnapshot(p) == IF ExactLen(p) THEN DecodeHeatState(p.head) ELSE {}

EncodeHeat(e) == {<<e.turf>> \o c : c \in EncodeHeatState(e.state)}

DecodeHeat(r) ==
    {[turf |-> r[1], state |-> s] : s \in DecodeHeatState(SubSeq(r, 2, 5))}

EncodeHeats(m) == EncodeBatch(EncodeHeat, m)

DecodeHeats(p) == DecodeBatch(DecodeHeat, p, MaxOps)

-----------------------------------------------------------------------------
(* Mixture commands.                                                       *)

\* The fields of the variant with number op, by the place they are sent in.
\* A flag is the boolean of ShareRatio; "opt" is an optional first scalar.
CommandFields(op) ==
    (IF op \in {20} \cup 22 .. 24 \cup 28 .. 36 THEN {"second"} ELSE {})
      \cup (IF op \in 1 .. 3 \cup 14 .. 16 \cup {18, 19, 21, 24, 25} \cup 29 .. 35
            THEN {"s1"} ELSE {})
      \cup (IF op \in {13, 36} THEN {"opt"} ELSE {})
      \cup (IF op \in {3, 25} THEN {"s2"} ELSE {})
      \cup (IF op = 25 THEN {"s3"} ELSE {})
      \cup (IF op \in {1, 2, 3, 4, 8} THEN {"gas"} ELSE {})
      \cup (IF op \in {12, 31, 34} THEN {"aux"} ELSE {})
      \cup (IF op = 35 THEN {"flag"} ELSE {})

\* kind, flags, primary, secondary, three scalars, gas_id, reserved, aux, reserved.
EncodeCommand(m) ==
    LET Field(name) == IF name \in DOMAIN m.fields THEN m.fields[name] ELSE 0
        option == IF "opt" \in DOMAIN m.fields THEN m.fields["opt"] ELSE None
        flags == IF m.op \in {13, 36} THEN Present(option) ELSE Field("flag")
        s1 == IF m.op \in {13, 36} THEN OrZero(option) ELSE Field("s1")
    IN  If(/\ m.op = 36 => s1 # Negative
           /\ Scalars(<<s1, Field("s2"), Field("s3")>>),
           Fixed(<<m.op, flags, m.primary, Field("second"), s1, Field("s2"), Field("s3"),
                   Field("gas"), 0, Field("aux"), 0>>))

UsesSecondary(kind) == kind \in {20} \cup 22 .. 24 \cup 28 .. 36

\* Mutant: 24 (TemperatureShare) is missing from the decoder's table.
UsesS1Without24(kind, flags) ==
    \/ kind \in 1 .. 3 \cup 14 .. 16 \cup 18 .. 19 \cup {21, 25} \cup 29 .. 35
    \/ kind \in {13, 36} /\ Bit(flags, 0) = 1

UsesS1(kind, flags) ==
    \/ kind \in 1 .. 3 \cup 14 .. 16 \cup 18 .. 19 \cup {21} \cup 24 .. 25 \cup 29 .. 35
    \/ kind \in {13, 36} /\ Bit(flags, 0) = 1

\* Every byte the variant does not use must be zero.
UnusedZero(c) ==
    /\ ~UsesSecondary(c[1]) => c[4] = 0
    /\ ~UsesS1(c[1], c[2]) => c[5] = 0
    /\ c[1] \notin {3, 25} => c[6] = 0
    /\ c[1] # 25 => c[7] = 0
    /\ c[1] \notin 1 .. 4 \cup {8} => c[8] = 0
    /\ c[1] \notin {12, 31, 34} => c[10] = 0

\* The match that builds the variant from the cells it uses.
Variant(c) ==
    LET Cell(name) ==
            CASE name = "second" -> c[4]
              [] name = "s1" -> c[5]
              [] name = "opt" -> Option(Bit(c[2], 0), c[5])
              [] name = "s2" -> c[6]
              [] name = "s3" -> c[7]
              [] name = "gas" -> c[8]
              [] name = "aux" -> c[10]
              [] name = "flag" -> Bit(c[2], 0)
    IN  [op |-> c[1], primary |-> c[3],
         fields |-> [name \in CommandFields(c[1]) |-> Cell(name)]]

DecodeCommand(p) ==
    LET c == p.head IN
    IF /\ ExactLen(p)
       /\ c[1] \in 1 .. 36
       /\ c[9] = 0 /\ c[11] = 0
       /\ c[2] <= (IF c[1] \in {13, 35, 36} THEN 1 ELSE 0)
       /\ Scalars(<<c[5], c[6], c[7]>>)
       /\ UnusedZero(c)
       /\ c[1] = 36 /\ c[2] = 1 => c[5] # Negative
    THEN {Variant(c)} ELSE {}

EncodeContinuationCommand(m) ==
    {Fixed(t \o p.head) : t \in EncodeToken(m.token), p \in EncodeCommand(m.command)}

DecodeContinuationCommand(p) ==
    {[token |-> t, command |-> m] :
       t \in DecodeToken(SubSeq(p.head, 1, 4)),
       m \in DecodeCommand([p EXCEPT !.head = SubSeq(@, 5, 15)])}

\* The five answers: kind, value, and sixteen bytes that are two words and a
\* double word. The first scalar is the two words; its exponent is in the high one.
EncodeAnswer(m) ==
    CASE m.kind = 1 -> {Fixed(<<1, m.updated, 0, 0, 0>>)}
      [] m.kind = 2 -> If(ScalarValue(m.a[2]), Fixed(<<2, 0, m.a[1], m.a[2], 0>>))
      [] m.kind = 3 -> If(Scalars(<<m.a[2], m.b>>), Fixed(<<3, 0, m.a[1], m.a[2], m.b>>))
      [] m.kind = 4 -> {Fixed(<<4, m.value, 0, 0, 0>>)}
      [] m.kind = 5 -> If(m.flags < 8, Fixed(<<5, m.flags, m.work, m.pending, m.transaction>>))

DecodeAnswer(p) ==
    LET c == p.head
        Zero(from) == \A i \in from .. 5 : c[i] = 0
        a == <<c[3], c[4]>>
    IN  IF ~ExactLen(p) THEN {}
        ELSE CASE c[1] = 1 /\ Zero(3) -> {[kind |-> 1, updated |-> c[2]]}
               [] c[1] = 2 /\ c[2] = 0 /\ Zero(5) ->
                    If(ScalarValue(c[4]), [kind |-> 2, a |-> a])
               [] c[1] = 3 /\ c[2] = 0 ->
                    If(Scalars(<<c[4], c[5]>>), [kind |-> 3, a |-> a, b |-> c[5]])
               [] c[1] = 4 /\ Zero(3) -> If(Boolean(c[2]), [kind |-> 4, value |-> c[2]])
               [] c[1] = 5 ->
                    If(c[2] < 8 /\ Boolean(c[4]),
                       [kind |-> 5, flags |-> c[2], work |-> c[3], pending |-> c[4],
                        transaction |-> c[5]])
               [] OTHER -> {}

-----------------------------------------------------------------------------
(* Stages, telemetry and metadata.                                         *)

EncodeStage(m) ==
    If(m.limit \in 1 .. MaxLimit /\ ScalarValue(m.seconds),
       Fixed(<<m.stage, 0, m.epochs, m.limit, 0, m.seconds>>))

DecodeStage(p) ==
    LET h == p.head IN
    If(/\ ExactLen(p) /\ h[2] = 0 /\ h[5] = 0 /\ h[4] \in 1 .. MaxLimit
       /\ h[1] \in 1 .. 5 /\ ScalarValue(h[6]),
       [stage |-> h[1], epochs |-> h[3], limit |-> h[4], seconds |-> h[6]])

EncodeStageResponse(m) == {Fixed(<<m.work, m.pending, m.counts, 0>>)}

DecodeStageResponse(p) ==
    LET h == p.head IN
    If(ExactLen(p) /\ Boolean(h[2]) /\ h[4] = 0,
       [work |-> h[1], pending |-> h[2], counts |-> h[3]])

\* The depths and counters, then flags, reserved, rss, cpu, stage_kind.
EncodeTelemetry(m) ==
    {Fixed(<<m.counters, m.available, 0, m.rss, m.cpu, m.stage>>)}

DecodeTelemetry(p) ==
    LET h == p.head IN
    If(/\ ExactLen(p) /\ h[2] < 4 /\ h[3] = 0 /\ h[6] <= 5
       /\ Bit(h[2], 0) = 0 => h[4] = 0
       /\ Bit(h[2], 1) = 0 => h[5] = 0,
       [counters |-> h[1], available |-> h[2], rss |-> h[4], cpu |-> h[5], stage |-> h[6]])

\* A list of (gas, scalar) items in MaxGas fixed slots <<gas, pad, scalar, pad>>.
EmptyItem == <<0, 0, 0, 0>>

ItemCells(items) ==
    FlattenSeq([i \in 1 .. MaxGas |->
        IF i <= Len(items) THEN <<items[i].gas, 0, items[i].amount, 0>> ELSE EmptyItem])

ValidItemList(items) ==
    Len(items) <= MaxGas /\ \A i \in DOMAIN items : ScalarValue(items[i].amount)

ItemCell(c, i) == SubSeq(c, 4 * i - 3, 4 * i)

ValidItemCells(c, count) ==
    /\ count <= MaxGas
    /\ \A i \in 1 .. MaxGas :
         IF i <= count
         THEN c[4 * i - 2] = 0 /\ c[4 * i] = 0 /\ ScalarValue(c[4 * i - 1])
         ELSE ItemCell(c, i) = EmptyItem

ItemsIn(c, count) == [i \in 1 .. count |-> [gas |-> c[4 * i - 3], amount |-> c[4 * i - 1]]]

\* A string as its length, whether its bytes are UTF-8 and the padding.
TextCells(len) == <<len, 0, 0>>

ValidText(c) == c[1] <= MaxText /\ c[2] = 0 /\ c[3] = 0

\* id, key, role, product kind, product count, option flags, plain scalars,
\* moles_visible, role values, products. The name is treated like the key.
EncodeGas(m) ==
    If(/\ m.key <= MaxText
       /\ ValidItemList(m.products)
       /\ Scalars(<<m.scalars, OrZero(m.visible), m.burn>>),
       <<m.id>> \o TextCells(m.key)
         \o <<m.role, m.made, Len(m.products), Present(m.visible), m.scalars,
              OrZero(m.visible), m.burn>>
         \o ItemCells(m.products))

DecodeGas(r) ==
    LET items == SubSeq(r, 12, Len(r)) IN
    If(/\ ValidText(SubSeq(r, 2, 4))
       /\ Boolean(r[8])
       /\ Scalars(SubSeq(r, 9, 11))
       /\ r[8] = 0 => r[10] = 0
       /\ r[5] \in 0 .. 2 /\ (r[5] = 0 => r[11] = 0)
       /\ ValidItemCells(items, r[7])
       /\ r[6] \in 0 .. 2 /\ (r[6] # 1 => r[7] = 0),
       [id |-> r[1], key |-> r[2], role |-> r[5], made |-> r[6],
        products |-> ItemsIn(items, r[7]), visible |-> Option(r[8], r[10]),
        scalars |-> r[9], burn |-> r[11]])

EncodeGases(m) == IF Len(m) <= MaxGas THEN EncodeBatch(EncodeGas, m) ELSE {}

DecodeGases(p) == DecodeBatch(DecodeGas, p, MaxGas)

\* id, key, execution, option flags, requirement count, priority, two of the
\* four optional limits, requirements.
EncodeReaction(m) ==
    If(/\ m.key <= MaxText
       /\ ValidItemList(m.needs)
       /\ Scalars(<<m.priority, OrZero(m.low), OrZero(m.high)>>),
       <<m.id>> \o TextCells(m.key)
         \o <<m.execution, Present(m.low) + 2 * Present(m.high), Len(m.needs), m.priority,
              OrZero(m.low), OrZero(m.high)>>
         \o ItemCells(m.needs))

DecodeReaction(r) ==
    LET items == SubSeq(r, 11, Len(r)) IN
    If(/\ ValidText(SubSeq(r, 2, 4))
       /\ r[6] < 4
       /\ Scalars(SubSeq(r, 8, 10))
       /\ Bit(r[6], 0) = 0 => r[9] = 0
       /\ Bit(r[6], 1) = 0 => r[10] = 0
       /\ r[5] \in 0 .. 4
       /\ ValidItemCells(items, r[7]),
       [id |-> r[1], key |-> r[2], execution |-> r[5], priority |-> r[8],
        low |-> Option(Bit(r[6], 0), r[9]), high |-> Option(Bit(r[6], 1), r[10]),
        needs |-> ItemsIn(items, r[7])])

EncodeReactions(m) == IF Len(m) <= MaxOps THEN EncodeBatch(EncodeReaction, m) ELSE {}

DecodeReactions(p) == DecodeBatch(DecodeReaction, p, MaxOps)

=============================================================================
