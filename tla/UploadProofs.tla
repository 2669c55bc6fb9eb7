---------------------------- MODULE UploadProofs ----------------------------
(***************************************************************************)
(* Proofs about the upload of mixture states, for any mixtures and         *)
(* contents, any chunk length, batch limit, upload id and revision bound.  *)
(***************************************************************************)
EXTENDS StateUpload, SequenceTheorems, TLAPS

(***************************************************************************)
(* The inductive invariant.  PendingPrefix alone is not inductive: that an *)
(* append continues where the last one ended, and that a commit finds the  *)
(* whole list, also needs the expected length the begin announced, and     *)
(* that an upload no call owns is left only behind a deadline.             *)
(***************************************************************************)
CallType ==
    /\ call \in [pc : {"idle", "direct", "begin", "append", "abort"},
                 batch : Seq(Mutations), id : Nat, offset : Nat,
                 result : {"none", "ok", "error", "dead"}]
    /\ call.offset \in 0 .. Len(call.batch)
    /\ call.pc = "begin" => call.offset = 0
    /\ call.pc # "idle" => call.result = "none"

PendingType ==
    /\ pending \in [id : Nat, expected : Nat, mutations : Seq(Mutations)]
    /\ pending # NoUpload => pending.id # 0

Owned == call.pc = "append" =>
    /\ pending.id = call.id /\ pending.id # 0
    /\ pending.expected = Len(call.batch)
    /\ pending.mutations = SubSeq(call.batch, 1, call.offset)

Released == call.pc = "abort" => pending = NoUpload \/ pending.id = call.id

Unowned == call.pc \in {"idle", "direct", "begin"} /\ alive /\ ~expired => pending = NoUpload

UploadInv ==
    /\ nextId \in Nat
    /\ CallType /\ PendingType /\ Owned /\ Released /\ Unowned

-----------------------------------------------------------------------------

\* values.chunks(): a chunk is never empty, and appended to what was sent before
\* gives a longer prefix of the list, however short the last chunk is.
LEMMA ChunkContinues ==
    ASSUME UploadAssumption, NEW batch \in Seq(Mutations), NEW offset \in Nat,
           offset < Len(batch)
    PROVE  /\ Chunk(batch, offset) \in Seq(Mutations)
           /\ Chunk(batch, offset) # << >>
           /\ Len(Chunk(batch, offset)) \in Nat
           /\ offset + Len(Chunk(batch, offset)) <= Len(batch)
           /\ SubSeq(batch, 1, offset) \o Chunk(batch, offset)
                = SubSeq(batch, 1, offset + Len(Chunk(batch, offset)))
<1> DEFINE end == IF offset + ChunkLen < Len(batch) THEN offset + ChunkLen ELSE Len(batch)
<1>1. ChunkLen \in Nat \ {0} /\ Len(batch) \in Nat
    BY LenProperties DEF UploadAssumption
<1>2. end \in offset + 1 .. Len(batch)
    BY <1>1
<1>3. Chunk(batch, offset) = SubSeq(batch, offset + 1, end)
    BY DEF Chunk
<1> HIDE DEF end
<1>4. /\ SubSeq(batch, offset + 1, end) \in Seq(Mutations)
      /\ Len(SubSeq(batch, offset + 1, end)) = end - offset
    BY <1>1, <1>2, SubSeqProperties
<1>5. SubSeq(batch, 1, offset) \o SubSeq(batch, offset + 1, end) = SubSeq(batch, 1, end)
    BY <1>1, <1>2, ConcatAdjacentSubSeq
<1>6. /\ Len(Chunk(batch, offset)) \in Nat \ {0}
      /\ offset + Len(Chunk(batch, offset)) = end
    BY <1>1, <1>2, <1>3, <1>4
<1>7. Chunk(batch, offset) # << >>
    BY <1>6
<1>8. SubSeq(batch, 1, offset) \o Chunk(batch, offset)
        = SubSeq(batch, 1, offset + Len(Chunk(batch, offset)))
    BY <1>3, <1>5, <1>6
<1>9. offset + Len(Chunk(batch, offset)) <= Len(batch)
    BY <1>1, <1>2, <1>6
<1> QED
    BY <1>3, <1>4, <1>6, <1>7, <1>8, <1>9

\* A batch of DreamMaker is a sequence of mutations no longer than the limit.
LEMMA BatchIsSeq ==
    ASSUME UploadAssumption, NEW batch \in Batches
    PROVE  batch \in Seq(Mutations) /\ Len(batch) \in 1 .. MaxBatch
<1>1. PICK n \in 1 .. MaxBatch : batch \in [1 .. n -> Mutations]
    BY DEF Batches
<1>2. n \in Nat
    BY DEF UploadAssumption
<1> QED
    BY <1>1, <1>2

LEMMA UploadInitial == Init => UploadInv
    BY DEF Init, UploadInv, CallType, PendingType, Owned, Released, Unowned, NoUpload, Idle

\* Where the bound proc stands once it has answered.
LEMMA Finished ==
    ASSUME NEW result, Finish(result)
    PROVE  call' = [pc |-> "idle", batch |-> << >>, id |-> 0, offset |-> 0,
                    result |-> result]
    BY DEF Finish, Idle

\* A finished call is well typed and owns nothing.
LEMMA FinishedKept ==
    ASSUME NEW result \in {"none", "ok", "error", "dead"}, Finish(result)
    PROVE  CallType' /\ Owned' /\ Released' /\ call'.pc = "idle"
<1>1. call' = [pc |-> "idle", batch |-> << >>, id |-> 0, offset |-> 0, result |-> result]
    BY Finished
<1> QED
    BY <1>1 DEF CallType, Owned, Released

(***************************************************************************)
(* Every action keeps it.                                                  *)
(***************************************************************************)
LEMMA UploadKept ==
    ASSUME UploadAssumption, UploadInv, [Next]_vars
    PROVE  UploadInv'
<1> USE DEF UploadInv
<1>1. CASE \E batch \in Offered : Call(batch)
    <2>1. PICK batch \in Batches : Call(batch)
        BY <1>1 DEF Offered
    <2>2. batch \in Seq(Mutations) /\ Len(batch) \in 1 .. MaxBatch /\ MaxBatch \in Nat
        BY BatchIsSeq DEF UploadAssumption
    <2>3. call' = [pc |-> IF Len(batch) > ChunkLen THEN "begin" ELSE "direct",
                   batch |-> batch, id |-> 0, offset |-> 0, result |-> "none"]
        BY <2>1 DEF Call, Idle
    <2>4. CallType'
        BY <2>2, <2>3 DEF CallType
    <2>5. UNCHANGED << pending, nextId, alive, expired >> /\ call.pc = "idle"
        BY <2>1 DEF Call
    <2> QED
        BY <2>3, <2>4, <2>5 DEF PendingType, Owned, Released, Unowned
<1>2. CASE Direct
    <2>1. Finish("ok") \/ Finish("error")
        BY <1>2 DEF Direct
    <2>2. CallType' /\ Owned' /\ Released' /\ call'.pc = "idle"
        BY <2>1, FinishedKept
    <2> QED
        BY <1>2, <2>2 DEF Direct, PendingType, Unowned
<1>3. CASE Begin
    <2>1. CASE BeginOk(Len(call.batch))
        <3>1. /\ pending' = [id |-> nextId, expected |-> Len(call.batch), mutations |-> << >>]
              /\ nextId # 0 /\ nextId' \in Nat
              /\ call' = [call EXCEPT !.pc = "append", !.id = nextId]
              /\ UNCHANGED << alive, expired >>
            BY <1>3, <2>1 DEF Begin, BeginOk, UploadAssumption
        <3>2. call.pc = "begin" /\ call.offset = 0 /\ call.batch \in Seq(Mutations)
            BY <1>3 DEF Begin, CallType
        <3>3. SubSeq(call.batch, 1, 0) = << >>
            BY <3>2, SubSeqEmpty
        <3>4. CallType' /\ call'.pc = "append" /\ call'.id = nextId
              /\ call'.batch = call.batch /\ call'.offset = 0
            BY <3>1, <3>2 DEF CallType
        <3>5. PendingType'
            BY <3>1, <3>2, LenProperties DEF PendingType
        <3> QED
            BY <3>1, <3>3, <3>4, <3>5 DEF Owned, Released, Unowned
    <2>2. CASE ~BeginOk(Len(call.batch))
        <3>1. /\ Finish("error")
              /\ UNCHANGED << pending, nextId, alive, expired >> /\ call.pc = "begin"
            BY <1>3, <2>2 DEF Begin
        <3> QED
            BY <3>1, FinishedKept DEF PendingType, Unowned
    <2> QED
        BY <2>1, <2>2
<1>4. CASE AppendChunk
    <2> DEFINE chunk == Chunk(call.batch, call.offset)
    <2>1. /\ call.batch \in Seq(Mutations) /\ call.offset \in Nat
          /\ call.offset < Len(call.batch) /\ call.pc = "append"
        BY <1>4 DEF AppendChunk, CallType
    <2>2. /\ chunk \in Seq(Mutations) /\ Len(chunk) \in Nat
          /\ call.offset + Len(chunk) <= Len(call.batch)
          /\ SubSeq(call.batch, 1, call.offset) \o chunk
               = SubSeq(call.batch, 1, call.offset + Len(chunk))
        BY <2>1, ChunkContinues
    <2>3. UNCHANGED << nextId, alive, expired >>
        BY <1>4 DEF AppendChunk
    <2>4. CASE AppendOk(call.id, call.offset, chunk)
        <3>1. /\ pending' = [pending EXCEPT !.mutations = pending.mutations \o chunk]
              /\ call' = [call EXCEPT !.offset = call.offset + Len(chunk)]
            BY <1>4, <2>4 DEF AppendChunk
        <3> HIDE DEF chunk
        <3>2. /\ call'.pc = "append" /\ call'.id = call.id
              /\ call'.batch = call.batch /\ call'.offset = call.offset + Len(chunk)
            BY <2>1, <3>1 DEF CallType
        <3>6. call.offset + Len(chunk) \in 0 .. Len(call.batch)
            BY <2>1, <2>2, LenProperties
        <3>7. CallType'
            BY <2>1, <3>1, <3>2, <3>6 DEF CallType
        <3>3. pending.mutations \o chunk \in Seq(Mutations)
            BY <2>2, ConcatProperties DEF PendingType
        <3>5. /\ pending'.id = pending.id /\ pending'.expected = pending.expected
              /\ pending'.mutations = pending.mutations \o chunk
            BY <3>1 DEF PendingType
        <3>4. PendingType'
            BY <2>1, <3>1, <3>3 DEF PendingType, Owned
        <3> QED
            BY <2>1, <2>2, <2>3, <3>2, <3>4, <3>5, <3>7 DEF Owned, Released, Unowned
    <2>5. CASE ~AppendOk(call.id, call.offset, chunk)
        <3>1. call' = [call EXCEPT !.pc = "abort"] /\ pending' = pending
            BY <1>4, <2>5 DEF AppendChunk
        <3> QED
            BY <2>1, <2>3, <3>1 DEF CallType, PendingType, Owned, Released, Unowned
    <2> QED
        BY <2>4, <2>5
<1>5. CASE Commit
    <2>1. /\ call.pc = "append" /\ UNCHANGED << nextId, alive, expired >>
          /\ pending' = IF CommitOk(call.id) THEN NoUpload ELSE pending
        BY <1>5 DEF Commit
    <2>2. PendingType' /\ (pending' = NoUpload \/ pending' = pending)
        BY <2>1 DEF PendingType, NoUpload
    <2>3. CASE CommitOk(call.id) /\ Applicable(world, pending.mutations)
        <3>1. CallType' /\ Owned' /\ Released' /\ call'.pc = "idle"
            BY <1>5, <2>3, FinishedKept DEF Commit
        <3> QED
            BY <2>1, <2>2, <2>3, <3>1 DEF Unowned
    <2>4. CASE ~(CommitOk(call.id) /\ Applicable(world, pending.mutations))
        <3>1. call' = [call EXCEPT !.pc = "abort"]
            BY <1>5, <2>4 DEF Commit
        <3> QED
            BY <2>1, <2>2, <3>1 DEF CallType, Owned, Released, Unowned
    <2> QED
        BY <2>3, <2>4
<1>6. CASE Abort
    <2>1. CallType' /\ Owned' /\ Released' /\ call'.pc = "idle"
        BY <1>6, FinishedKept DEF Abort
    <2>2. pending' = NoUpload
        BY <1>6 DEF Abort, Released, NoUpload
    <2>3. nextId' = nextId
        BY <1>6 DEF Abort
    <2> QED
        BY <2>1, <2>2, <2>3 DEF PendingType, NoUpload, Unowned
<1>7. CASE Expire
    <2>1. CallType' /\ Owned' /\ Released' /\ call'.pc = "idle"
        BY <1>7, FinishedKept DEF Expire
    <2> QED
        BY <1>7, <2>1 DEF Expire, PendingType, Unowned
<1>8. CASE Refuse
    <2>1. CASE call.pc = "append"
        <3>1. call' = [call EXCEPT !.pc = "abort"] /\ UNCHANGED << pending, nextId >>
            BY <1>8, <2>1 DEF Refuse
        <3> QED
            BY <3>1, <2>1 DEF CallType, PendingType, Owned, Released, Unowned
    <2>2. CASE call.pc # "append"
        <3>1. CallType' /\ Owned' /\ Released' /\ call'.pc = "idle"
            BY <1>8, <2>2, FinishedKept DEF Refuse
        <3> QED
            BY <1>8, <2>2, <3>1 DEF Refuse, PendingType, Unowned
    <2> QED
        BY <2>1, <2>2
<1>9. CASE RequestTimesOut
    <2>1. CallType' /\ Owned' /\ Released' /\ call'.pc = "idle"
        BY <1>9, FinishedKept DEF RequestTimesOut
    <2> QED
        BY <1>9, <2>1 DEF RequestTimesOut, PendingType, Unowned
<1>10. CASE \E h \in Handles : Change(h) \/ MarkImmutable(h)
    <2>1. /\ call.pc = "idle" /\ call' = [call EXCEPT !.result = "none"]
          /\ UNCHANGED << pending, nextId, alive, expired >>
        BY <1>10 DEF Change, MarkImmutable
    <2> QED
        BY <2>1 DEF CallType, PendingType, Owned, Released, Unowned
<1>11. CASE UNCHANGED vars
    BY <1>11 DEF vars, CallType, PendingType, Owned, Released, Unowned
<1> QED
    BY <1>1, <1>2, <1>3, <1>4, <1>5, <1>6, <1>7, <1>8, <1>9, <1>10, <1>11 DEF Next

\* UploadInv is an invariant.
THEOREM UploadInvariant ==
    ASSUME UploadAssumption
    PROVE  Spec => []UploadInv
<1>1. UploadInv /\ [Next]_vars => UploadInv'
    BY UploadKept
<1> QED
    BY <1>1, UploadInitial, PTL DEF Spec

\* A commit finds the caller's whole list pending.
LEMMA CommitFindsBatch ==
    ASSUME UploadInv, call.pc = "append", call.offset = Len(call.batch)
    PROVE  pending.mutations = call.batch
<1>1. call.batch \in Seq(Mutations)
    BY DEF UploadInv, CallType
<1>2. SubSeq(call.batch, 1, Len(call.batch)) = call.batch
    BY <1>1, SubSeqFull
<1> QED
    BY <1>2 DEF UploadInv, Owned

\* A step inside a call applies the caller's whole list and answers ok, the short
\* list of Direct or the uploaded one of Commit, or leaves the world alone and does
\* not answer ok.
WholeAnswer ==
    IF call'.result = "ok"
    THEN Applicable(world, call.batch) /\ world' = Applied(world, call.batch)
    ELSE world' = world

LEMMA WholeStep ==
    ASSUME UploadInv, [Next]_vars, call.pc # "idle"
    PROVE  WholeAnswer
<1>1. CallType
    BY DEF UploadInv
<1>2. call.result = "none"
    BY <1>1 DEF CallType
<1>3. CASE Direct
    BY <1>3, Finished DEF Direct, WholeAnswer
<1>4. CASE Commit
    <2>1. pending.mutations = call.batch
        BY <1>4, CommitFindsBatch DEF Commit
    <2>2. CASE CommitOk(call.id) /\ Applicable(world, pending.mutations)
        <3>1. world' = Applied(world, pending.mutations) /\ Finish("ok")
            BY <1>4, <2>2 DEF Commit
        <3> QED
            BY <2>1, <2>2, <3>1, Finished DEF WholeAnswer
    <2>3. CASE ~(CommitOk(call.id) /\ Applicable(world, pending.mutations))
        <3>1. world' = world /\ call' = [call EXCEPT !.pc = "abort"]
            BY <1>4, <2>3 DEF Commit
        <3>2. call'.result # "ok"
            BY <1>1, <1>2, <3>1 DEF CallType
        <3> QED
            BY <3>1, <3>2 DEF WholeAnswer
    <2> QED
        BY <2>2, <2>3
<1>5. CASE Begin \/ AppendChunk \/ Abort \/ Expire \/ Refuse \/ RequestTimesOut
    <2>1. world' = world
        BY <1>5 DEF Begin, AppendChunk, Abort, Expire, Refuse, RequestTimesOut
    <2>2. call'.result # "ok"
        <3>1. CASE Begin
            <4>1. CASE Finish("error")
                BY <4>1, Finished
            <4>2. CASE call' = [call EXCEPT !.pc = "append", !.id = nextId]
                BY <4>2, <1>1, <1>2 DEF CallType
            <4> QED
                BY <3>1, <4>1, <4>2 DEF Begin
        <3>2. CASE AppendChunk
            BY <3>2, <1>1, <1>2 DEF AppendChunk, CallType
        <3>3. CASE Abort \/ Expire \/ RequestTimesOut
            BY <3>3, Finished DEF Abort, Expire, RequestTimesOut
        <3>4. CASE Refuse
            BY <3>4, <1>1, <1>2, Finished DEF Refuse, CallType
        <3> QED
            BY <1>5, <3>1, <3>2, <3>3, <3>4
    <2> QED
        BY <2>1, <2>2 DEF WholeAnswer
<1>6. CASE UNCHANGED vars
    BY <1>2, <1>6 DEF vars, WholeAnswer
<1> QED
    BY <1>3, <1>4, <1>5, <1>6 DEF Next, Call, Change, MarkImmutable

\* dogmos_mixture_state_batch answers ok exactly when it applied DreamMaker's list as
\* a whole, its immutable mixtures passed over and its contents canonical, however the
\* list is cut into chunks, and changes nothing otherwise; what is pending is a prefix of the list being
\* uploaded and, deadlines aside, is gone with the call.
THEOREM UploadTheorem ==
    ASSUME UploadAssumption
    PROVE  Spec => UploadWhole
<1>1. Spec => []UploadInv
    BY UploadInvariant
<1>2. UploadInv /\ [Next]_vars =>
        [call.pc # "idle" =>
            IF call'.result = "ok"
            THEN Applicable(world, call.batch) /\ world' = Applied(world, call.batch)
            ELSE world' = world]_vars
    BY WholeStep DEF WholeAnswer
<1>3. UploadInv => PendingPrefix /\ NoneLeftPending
    BY DEF UploadInv, Owned, Unowned, PendingPrefix, NoneLeftPending
<1> QED
    BY <1>1, <1>2, <1>3, PTL DEF Spec, UploadWhole, WholeBatch
=============================================================================
