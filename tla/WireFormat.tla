----------------------------- MODULE WireFormat -----------------------------
(***************************************************************************)
(* One payload on its way between the BYOND client and the service: a side *)
(* encodes a message, the bytes travel, the other side decodes them. The   *)
(* payload may also come from a peer of another build or a foreign sender: *)
(* then up to MaxAltered of its fields hold bits this encoder did not      *)
(* write, or its length is another.                                        *)
(***************************************************************************)
EXTENDS WireCodec

CONSTANTS
    Kinds,       \* the messages of the run
    MaxAltered   \* how many fields a foreign payload differs in

VARIABLES
    kind,      \* the message's kind, "" before it is sent
    sent,      \* <<message>>
    wire,      \* <<payload>> once it is encoded
    altered,   \* how many fields of it have been changed
    received   \* <<the decoder's answer>>: {} or {message}

vars == <<kind, sent, wire, altered, received>>

-----------------------------------------------------------------------------
(* The values of the Rust types, one or two of each sort a check tells     *)
(* apart, the ones an encoder should refuse included.                      *)

Word == {0, 1}
Handle == {0, 2, 3}
Scalar == {0, 1, NegZero, Negative, NonFinite}
Optional(S) == {None} \cup {Some(v) : v \in S}
Lists(S) == {<<>>} \cup {<<a>> : a \in S} \cup {<<a, b>> : a, b \in S}
              \cup {<<a, a, a>> : a \in S}
Tokens == [generation : Word, id : Word, deadline : Word]
Items == {<<>>, <<[gas |-> 0, amount |-> 0]>>, <<[gas |-> 1, amount |-> NonFinite]>>,
          <<[gas |-> 1, amount |-> 1], [gas |-> 0, amount |-> NegZero]>>,
          <<[gas |-> 0, amount |-> 0], [gas |-> 0, amount |-> 0], [gas |-> 0, amount |-> 0]>>}

Commands ==
    UNION {[op : {op}, primary : {0, 2},
            fields : [CommandFields(op) -> IF "opt" \in CommandFields(op)
                                           THEN {None} \cup {Some(v) : v \in Scalar}
                                           ELSE {0, 1}]] : op \in 1 .. 36 \ {36}}
      \cup {[op |-> 36, primary |-> 0, fields |-> [second |-> h, opt |-> o]] :
              h \in {0, 2}, o \in Optional(Scalar)}
      \cup {[op |-> 19, primary |-> 2, fields |-> [s1 |-> v]] : v \in Scalar}

Answers ==
    {[kind |-> 1, updated |-> w] : w \in Word}
      \cup {[kind |-> 2, a |-> <<w, v>>] : w \in Word, v \in Scalar}
      \cup {[kind |-> 3, a |-> <<w, v>>, b |-> u] : w \in Word, v, u \in Scalar}
      \cup {[kind |-> 4, value |-> w] : w \in Word}
      \cup {[kind |-> 5, flags |-> f, work |-> w, pending |-> b, transaction |-> t] :
              f \in {0, 3, 8}, w, b, t \in Word}

\* Headers are made by ProtocolHeader::request and response.
Frames ==
    {[header |-> ResponseHeader(RequestHeader(k, id, 1, 1, Len(body)), flags),
      payload |-> body] :
       k \in {1, 3, 10, 48}, id \in Word, flags \in {0, 1, 3},
       body \in {<<>>, <<<<7>>>>, <<<<7>>, <<0>>>>, <<<<0>>, <<0>>, <<0>>>>}}

\* The shim's and the service's own handshake: well-formed, whatever its limits.
Handshakes ==
    {<<1, 1, 1, 1, 1, 1, a, b, c, 2, 1, d, 1, 0, 1, pid, g, n>> :
       a, c, d \in {1, 2}, b \in Word, pid \in {1, 2}, g, n \in Word}

Messages(k) ==
    CASE k = "frame" -> Frames
      [] k = "handshake" -> Handshakes
      [] k = "error" -> 1 .. 25
      [] k \in {"frontier_begin", "frontier_committed"} -> [epoch : Word, count : Word]
      [] k = "frontier_append" ->
           [epoch : Word, offset : Word, handles : Lists(Handle)]
      [] k = "frontier_mutate" -> [epoch : Word, handles : Lists(Handle)]
      [] k = "callback" ->
           [sequence : {1}, transaction : Word, scope : {General, Reaction}, kind : 1 .. 8,
            flags : Word, handles : {2}, value : {0, Negative, NonFinite}, aux : {0, 1, 2},
            continuation : Optional(Tokens)]
      [] k = "callback_request" ->
           [max : Word, scope : {General, Reaction}, transaction : Word]
      [] k = "resume" -> [token : Tokens, result : {0, 7, 8}]
      [] k = "snapshot" ->
           [revision : Word, count : {0, 2, 3}, scalars : Scalar, immutable : Word,
            gases : Scalar]
      [] k = "snapshots" ->
           Lists([handle : {2}, revision : {1}, count : {2, 3},
                  scalars : {0, NonFinite, Inexact, Huge}, immutable : {1},
                  gases : {NegZero, Inexact}])
      [] k = "handles" -> Lists(Handle)
      [] k = "states" ->
           Lists([handle : {0, 2}, revision : Word, scalars : {1, NonFinite}, gases : {NegZero}])
      [] k = "upload_begin" -> Word
      [] k \in {"upload_id", "upload_end"} -> Word
      [] k = "upload_append" ->
           [id : Word, offset : Word,
            mutations : Lists([handle : {2}, revision : Word, scalars : {1, NonFinite},
                               gases : {0}])]
      [] k = "adjust" ->
           [handle : {0, 2},
            adjustments : Lists([gas : Word, delta : {0, Negative, NonFinite}])]
      [] k = "continuation_adjust" ->
           [token : Tokens,
            adjust : [handle : {2}, adjustments : Lists([gas : Word, delta : {Negative}])]]
      [] k = "lifecycle" -> Lists([action : {Register, Unregister}, handle : Handle])
      [] k = "turfs" ->
           Lists([action : {Register, Unregister}, turf : {2}, mixture : Optional({0, 2})])
      [] k = "edges" ->
           Lists([left : {2, 4}, right : {3, 5}, connected : Word, firelock : Word])
      [] k = "heat_edges" -> Lists([left : {2}, right : {4, 5}, connected : Word])
      [] k = "adjacency" -> Lists([left : {2}, right : {4}, conductivity : Scalar])
      [] k = "heat_snapshot" ->
           Optional([temperature : Scalar, capacity : Scalar, space : Word])
      [] k = "heat" ->
           Lists([turf : {2}, state : Optional([temperature : {0, 1, NonFinite},
                                                capacity : {NegZero}, space : Word])])
      [] k = "command" -> Commands
      [] k = "continuation_command" ->
           [token : Tokens, command : {c \in Commands : c.op \in {3, 13, 36} /\ c.primary = 0}]
      [] k = "answer" -> Answers
      [] k = "stage" ->
           [stage : 1 .. 5, epochs : Word, limit : {0, 1, MaxLimit, MaxLimit + 1},
            seconds : Scalar]
      [] k = "stage_response" -> [work : Word, pending : Word, counts : Word]
      [] k = "telemetry" ->
           {m \in [counters : Word, available : 0 .. 3, rss : Word, cpu : Word, stage : 0 .. 5] :
              /\ Bit(m.available, 0) = 0 => m.rss = 0
              /\ Bit(m.available, 1) = 0 => m.cpu = 0}
      [] k = "gases" ->
           LET entry == [id : {1}, key : {0, MaxText, MaxText + 1}, role : 0 .. 2,
                         made : 0 .. 2, products : Items, visible : Optional({0, NegZero}),
                         scalars : {1}, burn : {0, 1}]
           IN  {<<>>} \cup {<<e>> : e \in {e \in entry : /\ e.role = 0 => e.burn = 0
                                                         /\ e.made # 1 => e.products = <<>>}}
      [] k = "reactions" ->
           {<<>>} \cup {<<e>> : e \in
              [id : {1}, key : {0, MaxText, MaxText + 1}, execution : {0, 4},
               priority : {0, Negative, NonFinite}, low : Optional({0, 1}),
               high : Optional({NegZero}), needs : Items]}

Encode(k, m) ==
    CASE k = "frame" -> EncodeFrame(m)
      [] k = "handshake" -> EncodeHandshake(m)
      [] k = "error" -> EncodeError(m)
      [] k = "frontier_begin" -> EncodeFrontierBegin(m)
      [] k = "frontier_append" -> EncodeFrontierAppend(m)
      [] k = "frontier_mutate" -> EncodeFrontierMutate(m)
      [] k = "frontier_committed" -> EncodeFrontierCommitResponse(m)
      [] k = "callback" -> EncodeCallback(m)
      [] k = "callback_request" -> EncodeCallbackRequest(m)
      [] k = "resume" -> EncodeResume(m)
      [] k = "snapshot" -> EncodeSnapshot(m)
      [] k = "snapshots" -> EncodeSnapshots(m)
      [] k = "handles" -> EncodeHandles(m)
      [] k = "states" -> EncodeStates(m)
      [] k = "upload_begin" -> EncodeUploadBegin(m)
      [] k = "upload_id" -> EncodeUploadId(m)
      [] k = "upload_end" -> EncodeUploadEnd(m)
      [] k = "upload_append" -> EncodeUploadAppend(m)
      [] k = "adjust" -> EncodeAdjust(m)
      [] k = "continuation_adjust" -> EncodeContinuationAdjust(m)
      [] k = "lifecycle" -> EncodeLifecycles(m)
      [] k = "turfs" -> EncodeTurfs(m)
      [] k = "edges" -> EncodeEdges(m)
      [] k = "heat_edges" -> EncodeHeatEdges(m)
      [] k = "adjacency" -> EncodeAdjacencies(m)
      [] k = "heat_snapshot" -> EncodeHeatSnapshot(m)
      [] k = "heat" -> EncodeHeats(m)
      [] k = "command" -> EncodeCommand(m)
      [] k = "continuation_command" -> EncodeContinuationCommand(m)
      [] k = "answer" -> EncodeAnswer(m)
      [] k = "stage" -> EncodeStage(m)
      [] k = "stage_response" -> EncodeStageResponse(m)
      [] k = "telemetry" -> EncodeTelemetry(m)
      [] k = "gases" -> EncodeGases(m)
      [] k = "reactions" -> EncodeReactions(m)

Decode(k, p) ==
    CASE k = "frame" -> DecodeFrame(p)
      [] k = "handshake" -> DecodeHandshake(p)
      [] k = "error" -> DecodeError(p)
      [] k = "frontier_begin" -> DecodeFrontierBegin(p)
      [] k = "frontier_append" -> DecodeFrontierAppend(p)
      [] k = "frontier_mutate" -> DecodeFrontierMutate(p)
      [] k = "frontier_committed" -> DecodeFrontierCommitResponse(p)
      [] k = "callback" -> DecodeCallback(p)
      [] k = "callback_request" -> DecodeCallbackRequest(p)
      [] k = "resume" -> DecodeResume(p)
      [] k = "snapshot" -> DecodeSnapshot(p)
      [] k = "snapshots" -> DecodeSnapshots(p)
      [] k = "handles" -> DecodeHandles(p)
      [] k = "states" -> DecodeStates(p)
      [] k = "upload_begin" -> DecodeUploadBegin(p)
      [] k \in {"upload_id", "upload_end"} -> DecodeUploadId(p)
      [] k = "upload_append" -> DecodeUploadAppend(p)
      [] k = "adjust" -> DecodeAdjust(p)
      [] k = "continuation_adjust" -> DecodeContinuationAdjust(p)
      [] k = "lifecycle" -> DecodeLifecycles(p)
      [] k = "turfs" -> DecodeTurfs(p)
      [] k = "edges" -> DecodeEdges(p)
      [] k = "heat_edges" -> DecodeHeatEdges(p)
      [] k = "adjacency" -> DecodeAdjacencies(p)
      [] k = "heat_snapshot" -> DecodeHeatSnapshot(p)
      [] k = "heat" -> DecodeHeats(p)
      [] k = "command" -> DecodeCommand(p)
      [] k = "continuation_command" -> DecodeContinuationCommand(p)
      [] k = "answer" -> DecodeAnswer(p)
      [] k = "stage" -> DecodeStage(p)
      [] k = "stage_response" -> DecodeStageResponse(p)
      [] k = "telemetry" -> DecodeTelemetry(p)
      [] k = "gases" -> DecodeGases(p)
      [] k = "reactions" -> DecodeReactions(p)

-----------------------------------------------------------------------------
(* Sending, altering and receiving.                                        *)

Init == kind = "" /\ sent = None /\ wire = None /\ altered = 0 /\ received = None

\* One side sends a message. An encoder that reports an error sends nothing.
Send ==
    /\ kind = ""
    /\ \E k \in Kinds : \E m \in Messages(k) :
         /\ kind' = k /\ sent' = Some(m)
         /\ wire' \in {Some(p) : p \in Encode(k, m)}
    /\ UNCHANGED <<altered, received>>

InTransit == wire # None /\ received = None

\* Bits at and beyond the edges of the checks. An f32 cell is exact.
Bits == (0 .. 8 \cup {26, 37, 49}) \ (IF kind = "snapshots" THEN {Inexact, Huge} ELSE {})

Changed(p) ==
    /\ InTransit
    /\ altered < MaxAltered
    /\ wire' = Some(p)
    /\ altered' = altered + 1
    /\ sent' = None
    /\ UNCHANGED <<kind, received>>

OtherField ==
    \E i \in DOMAIN wire[1].head, v \in Bits : Changed([wire[1] EXCEPT !.head[i] = v])

OtherRecord ==
    \E i \in DOMAIN wire[1].body : \E j \in DOMAIN wire[1].body[i], v \in Bits :
        Changed([wire[1] EXCEPT !.body[i][j] = v])

OtherLength ==
    \/ Changed([wire[1] EXCEPT !.ragged = TRUE])
    \/ wire[1].body # <<>> /\ Changed([wire[1] EXCEPT !.body = Front(@)])
    \/ wire[1].body # <<>> /\ Changed([wire[1] EXCEPT !.body = Append(@, Last(@))])

Receive ==
    /\ InTransit
    /\ received' = Some(Decode(kind, wire[1]))
    /\ UNCHANGED <<kind, sent, wire, altered>>

Next ==
    \/ Send
    \/ InTransit /\ OtherField
    \/ InTransit /\ OtherRecord
    \/ InTransit /\ OtherLength
    \/ Receive

Spec == Init /\ [][Next]_vars

-----------------------------------------------------------------------------

\* The encoders whose limits are the receiver's to check: the counted batches
\* know no maximum, and an upload's end is not checked for a zero id.
ReceiverRefuses(k, m) ==
    \/ /\ k \in {"handles", "snapshots", "states", "lifecycle", "turfs", "edges",
                 "heat_edges", "adjacency", "heat"}
       /\ Len(m) > MaxOps
    \/ k = "upload_append" /\ Len(m.mutations) > MaxOps
    \/ k = "upload_end" /\ m = 0

\* Snapshots in a batch are sent as f32.
AsReceived(k, m) ==
    IF k = "snapshots"
    THEN [i \in DOMAIN m |-> [m[i] EXCEPT !.scalars = Compact(@), !.gases = Compact(@)]]
    ELSE m

\* What an encoder emits the peer's decoder understands as the same message:
\* the two tables of every message agree on which field is where, which are
\* optional and which values are legal. Only what exceeds the receiver's own
\* limits is refused, and nothing is misread.
SentUnderstood ==
    (received # None /\ altered = 0) =>
        received[1] = IF ReceiverRefuses(kind, sent[1]) THEN {}
                      ELSE {AsReceived(kind, sent[1])}

\* What a decoder is known to overlook: the reserved word of a state in an
\* upload chunk, and the sign of a zero in an absent heat state.
ClearSigns(c) ==
    IF Len(c) = 4 /\ c[1] = 0 THEN <<0, c[2], 0, 0>>
    ELSE IF Len(c) = 5 /\ c[2] = 0 THEN <<c[1], 0, c[3], 0, 0>> ELSE c

Canonical(k, p) ==
    CASE k = "upload_append" -> [p EXCEPT !.body = [i \in DOMAIN @ |-> [@[i] EXCEPT ![3] = 0]]]
      [] k = "heat_snapshot" -> [p EXCEPT !.head = ClearSigns(@)]
      [] k = "heat" -> [p EXCEPT !.body = [i \in DOMAIN @ |-> ClearSigns(@[i])]]
      [] OTHER -> p

\* Decoding is strict: an accepted payload, whoever made it, is byte for byte
\* the encoding of the message it was decoded to, so no reserved word, unused
\* field, absent value, padding, unknown flag or surplus record passes unseen
\* and no message has two encodings. The two exceptions are the ones above.
StrictDecoding ==
    received # None =>
        \A m \in received[1] : Encode(kind, m) = {Canonical(kind, wire[1])}

=============================================================================
