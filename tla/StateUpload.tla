---------------------------- MODULE StateUpload ----------------------------
(***************************************************************************)
(* dogmos_mixture_state_batch: DreamMaker hands the shim one list of       *)
(* mixture states, each with the revision it was computed from. A short    *)
(* list is one request; a longer one is cut into chunks and uploaded with  *)
(* begin, append, commit, or abort when something fails. The service keeps *)
(* at most one upload pending and applies it as a whole.                   *)
(*                                                                         *)
(* The shim's session and its deadline are part of the model: a request    *)
(* may time out (the session is then terminated), and the deadline of the  *)
(* whole upload may have passed before a request is even sent.             *)
(***************************************************************************)
EXTENDS Naturals, Sequences, FiniteSets

CONSTANTS
    Handles,       \* mixtures
    Values,        \* contents DreamMaker may send for a mixture
    Valid,         \* those that are finite and not negative (valid_mixture_state)
    Traceless,     \* canonicalize_gases: the contents without their traces
    MaxRevision,   \* u32::MAX, the revision that cannot be advanced
    ChunkLen,      \* PRODUCTION_MAX_MIXTURE_STATE_MUTATIONS
    MaxBatch,      \* PRODUCTION_MAX_BATCH_OPERATIONS and max_batch_operations
    MaxUploadId,   \* the last upload id
    MaxCalls       \* bound: calls of the bound proc

UploadAssumption ==
    /\ {MaxRevision, ChunkLen, MaxBatch, MaxUploadId, MaxCalls} \subseteq Nat \ {0}
    /\ Valid \subseteq Values /\ DOMAIN Traceless = Valid

VARIABLES
    world,     \* Handles -> [rev, val, immutable] of the registered mixtures
    pending,   \* the pending upload: [id, expected, mutations], or NoUpload
    nextId,    \* next_mixture_state_upload_id; 0 when exhausted
    call,      \* the bound proc: [pc, batch, id, offset, late]
    alive,     \* the session has not been terminated
    expired,   \* history: some upload ran past its deadline
    calls      \* how many calls were made

vars == << world, pending, nextId, call, alive, expired, calls >>

NoUpload == [id |-> 0, expected |-> 0, mutations |-> << >>]

Idle == [pc |-> "idle", batch |-> << >>, id |-> 0, offset |-> 0, result |-> "none"]

Mutations == [handle : Handles, rev : 0 .. MaxRevision, val : Values]

Batches == UNION {[1 .. n -> Mutations] : n \in 1 .. MaxBatch}

\* The contents a registered mixture may have.
Settled == {Traceless[v] : v \in Valid}

Init ==
    /\ world = [h \in Handles |->
          [rev |-> 0, val |-> CHOOSE v \in Settled : TRUE, immutable |-> FALSE]]
    /\ pending = NoUpload /\ nextId = 1
    /\ call = Idle /\ alive = TRUE /\ expired = FALSE /\ calls = 0

-----------------------------------------------------------------------------
(* The service.                                                            *)

\* DogmosWorld::apply_mixture_state: every mutation is validated before any is
\* applied; a handle may occur once. Only a mixture that is written needs room for
\* another revision.
Applicable(w, ms) ==
    /\ \A i \in DOMAIN ms :
          LET mixture == w[ms[i].handle] IN
          /\ mixture.rev = ms[i].rev /\ ms[i].val \in Valid
          /\ mixture.immutable \/ mixture.rev < MaxRevision
    /\ \A i, j \in DOMAIN ms : ms[i].handle = ms[j].handle => i = j

\* An immutable mixture of the list is passed over; the call counts it all the same.
Applied(w, ms) ==
    [h \in DOMAIN w |->
        IF ~w[h].immutable /\ \E i \in DOMAIN ms : ms[i].handle = h
        THEN LET i == CHOOSE i \in DOMAIN ms : ms[i].handle = h
             IN  [w[h] EXCEPT !.rev = @ + 1, !.val = Traceless[ms[i].val]]
        ELSE w[h]]

\* begin_mixture_state_upload.
BeginOk(n) == n \in 1 .. MaxBatch /\ pending = NoUpload /\ nextId # 0

\* append_mixture_state_upload: the chunk continues exactly where the last ended.
AppendOk(id, offset, chunk) ==
    /\ pending # NoUpload /\ pending.id = id
    /\ chunk # << >> /\ offset = Len(pending.mutations)
    /\ Len(pending.mutations) + Len(chunk) <= pending.expected

\* commit_mixture_state_upload: an incomplete upload stays pending; a complete
\* one is taken before it is applied, so a refused one is gone.
CommitOk(id) ==
    pending # NoUpload /\ pending.id = id /\ Len(pending.mutations) = pending.expected

-----------------------------------------------------------------------------
(* The bound proc.                                                         *)

\* One list from DreamMaker. The states may be computed from any revision that
\* the mixtures have had.
Call(batch) ==
    /\ call.pc = "idle" /\ alive /\ calls < MaxCalls
    /\ \A i \in DOMAIN batch : batch[i].rev <= world[batch[i].handle].rev
    /\ calls' = calls + 1
    /\ call' = [Idle EXCEPT !.pc = IF Len(batch) > ChunkLen THEN "begin" ELSE "direct",
                            !.batch = batch]
    /\ UNCHANGED << world, pending, nextId, alive, expired >>

Finish(result) == call' = [Idle EXCEPT !.result = result]

\* A short list: one MixtureStateBatch.
Direct ==
    /\ call.pc = "direct"
    /\ IF Applicable(world, call.batch)
       THEN world' = Applied(world, call.batch) /\ Finish("ok")
       ELSE world' = world /\ Finish("error")
    /\ UNCHANGED << pending, nextId, alive, expired, calls >>

Begin ==
    /\ call.pc = "begin"
    /\ IF BeginOk(Len(call.batch))
       THEN /\ pending' = [id |-> nextId, expected |-> Len(call.batch), mutations |-> << >>]
            /\ nextId' = IF nextId = MaxUploadId THEN 0 ELSE nextId + 1
            /\ call' = [call EXCEPT !.pc = "append", !.id = nextId]
       ELSE Finish("error") /\ UNCHANGED << pending, nextId >>
    /\ UNCHANGED << world, alive, expired, calls >>

\* values.chunks(chunk_field_count): the last chunk may be short.
Chunk(batch, offset) ==
    SubSeq(batch, offset + 1,
           IF offset + ChunkLen < Len(batch) THEN offset + ChunkLen ELSE Len(batch))

AppendChunk ==
    /\ call.pc = "append" /\ call.offset < Len(call.batch)
    /\ LET chunk == Chunk(call.batch, call.offset) IN
       IF AppendOk(call.id, call.offset, chunk)
       THEN /\ pending' = [pending EXCEPT !.mutations = @ \o chunk]
            /\ call' = [call EXCEPT !.offset = @ + Len(chunk)]
       ELSE call' = [call EXCEPT !.pc = "abort"] /\ pending' = pending
    /\ UNCHANGED << world, nextId, alive, expired, calls >>

\* Mutant of Commit: entries that are stale are skipped.
CommitApplicable ==
    /\ call.pc = "append" /\ call.offset = Len(call.batch)
    /\ LET ok == SelectSeq(pending.mutations, LAMBDA m : Applicable(world, << m >>)) IN
       IF CommitOk(call.id) /\ Applicable([h \in Handles |-> world[h]], ok)
       THEN world' = Applied(world, ok) /\ Finish("ok")
       ELSE world' = world /\ call' = [call EXCEPT !.pc = "abort"]
    /\ pending' = IF CommitOk(call.id) THEN NoUpload ELSE pending
    /\ UNCHANGED << nextId, alive, expired, calls >>

\* A service error sends an abort, which the service refuses when the commit
\* has already taken the upload.
Commit ==
    /\ call.pc = "append" /\ call.offset = Len(call.batch)
    /\ IF CommitOk(call.id) /\ Applicable(world, pending.mutations)
       THEN world' = Applied(world, pending.mutations) /\ Finish("ok")
       ELSE world' = world /\ call' = [call EXCEPT !.pc = "abort"]
    /\ pending' = IF CommitOk(call.id) THEN NoUpload ELSE pending
    /\ UNCHANGED << nextId, alive, expired, calls >>

\* abort_mixture_state_upload, its answer ignored.
Abort ==
    /\ call.pc = "abort"
    /\ pending' = IF pending.id = call.id THEN NoUpload ELSE pending
    /\ Finish("error")
    /\ UNCHANGED << world, nextId, alive, expired, calls >>

\* remaining_upload_timeout: the deadline of the upload has passed before the
\* next request. No request is sent any more, the abort included.
Expire ==
    /\ call.pc \in {"begin", "append", "abort"}
    /\ expired' = (expired \/ call.pc # "begin")
    /\ Finish("error")
    /\ UNCHANGED << world, pending, nextId, alive, calls >>

\* The service finds the budget of a request elapsed and answers
\* DeadlineExceeded before the dispatch: the session lives, the upload is aborted.
Refuse ==
    /\ call.pc \in {"direct", "begin", "append", "abort"}
    /\ expired' = (expired \/ call.pc = "abort")
    /\ IF call.pc = "append" THEN call' = [call EXCEPT !.pc = "abort"] ELSE Finish("error")
    /\ UNCHANGED << world, pending, nextId, alive, calls >>

\* A request is sent but its answer does not come in time: the session is
\* terminated. The service may or may not have carried the request out.
RequestTimesOut ==
    /\ call.pc \in {"direct", "begin", "append", "abort"}
    /\ alive' = FALSE
    /\ Finish("dead")
    /\ UNCHANGED << world, pending, nextId, expired, calls >>

\* Between two calls DreamMaker and the stages change mixtures.
Change(h) ==
    /\ call.pc = "idle" /\ alive /\ ~world[h].immutable /\ world[h].rev < MaxRevision
    /\ \E v \in Settled \ {world[h].val} :
          world' = [world EXCEPT ![h].rev = @ + 1, ![h].val = v]
    /\ call' = [call EXCEPT !.result = "none"]
    /\ UNCHANGED << pending, nextId, alive, expired, calls >>

\* Command::MarkImmutable, between two calls.
MarkImmutable(h) ==
    /\ call.pc = "idle" /\ alive /\ ~world[h].immutable /\ world[h].rev < MaxRevision
    /\ world' = [world EXCEPT ![h].rev = @ + 1, ![h].immutable = TRUE]
    /\ call' = [call EXCEPT !.result = "none"]
    /\ UNCHANGED << pending, nextId, alive, expired, calls >>

\* The batches DreamMaker may send while calls remain.
Offered == IF calls < MaxCalls /\ call.pc = "idle" /\ alive THEN Batches ELSE {}

Next ==
    \/ \E batch \in Offered : Call(batch)
    \/ Direct
    \/ Begin
    \/ AppendChunk
    \/ Commit
    \/ Abort
    \/ Expire
    \/ Refuse
    \/ RequestTimesOut
    \/ \E h \in Handles : Change(h) \/ MarkImmutable(h)

Spec == Init /\ [][Next]_vars

-----------------------------------------------------------------------------

\* A call that succeeds changed the world once: every mixture of the caller's list
\* that is not immutable went from the revision the list names to the next one and
\* has the state the list gives it, without its traces, whatever the list was cut
\* into; immutable mixtures of the list, and all others, stayed as they were. A
\* call that fails changes nothing.
WholeBatch ==
    [][call.pc # "idle" =>
          IF call'.result = "ok"
          THEN Applicable(world, call.batch) /\ world' = Applied(world, call.batch)
          ELSE world' = world]_vars

\* What is pending is a prefix of the list being uploaded.
PendingPrefix ==
    call.pc = "append" =>
        /\ pending.id = call.id
        /\ pending.mutations = SubSeq(call.batch, 1, call.offset)

\* No upload outlives its call: the next call can begin another. The one way
\* out is the deadline that passes between two requests, after which the
\* abort is not sent either (or is refused as late), the session lives on and
\* the service refuses every later upload.
NoneLeftPending ==
    call.pc = "idle" /\ alive /\ ~expired => pending = NoUpload

\* The batch proc as DreamMaker sees it: a list is applied as a whole (immutable
\* mixtures passed over) or not at all, and the upload behind it is its own and goes with it.
UploadWhole == WholeBatch /\ [](PendingPrefix /\ NoneLeftPending)

=============================================================================
