# Dogmos: TLA+ models, checks and proofs

Dogmos moves the atmospheric simulation of a BYOND game out of the game process.
A 32-bit shim (`dogmos-byond`) talks over a local socket to a service (`dogmosd`,
`dogmos-server`), which owns the world (`dogmos-core`). The models in this
directory follow the Rust source; every definition that stands for code is listed
with its lines in `PROJECT.json` under `map`.

## 1. The system

| Component | State it keeps | Operations | What makes it correct |
|---|---|---|---|
| Frontier (`frontier.rs`, `world.rs`) | committed vector with tombstones, membership map, cached view, an open upload with staging, bitmap and duplicate filter | begin / append / commit of a full upload, incremental add / remove, lazy view | one ordered set of turfs replaced atomically; map, vector, cache and upload never disagree |
| Stage cursor (`stage_cursor.rs`, `world.rs`) | stage identity, epoch, topology revision, next index | chunk, abort | a stage in chunks walks one frontier, each turf once |
| Continuations of the core (`world.rs`) | slot table with generations, free stack | allocate, rotate, complete, invalidate | a suspended reaction has its own slot, is never stale, and its token is used once |
| Lifecycle, ownership (`world.rs`, `ownership.rs`) | mixture and turf slots with generations, reverse indexes | register / unregister batches | a stale handle is refused; the indexes match the slots |
| Topology (`topology.rs`) | packed neighbour arrays, revision | connect, disconnect, firelock, remove | edges are symmetric and name current turfs |
| Stage engine (`world.rs`, `component.rs`, `versioned.rs`) | staged records, publication token, component state | prepare, compute, commit, abort | a stage becomes visible at once or not at all, never over a newer write |
| Scratch storage (`transaction.rs`, `slot_index.rs`) | dense candidates, index by slot stamped with an epoch, a bit per slot | touch, write, sort, retire, clear | behaves as a map from handles, whatever was left from earlier use |
| Turf heat (`world.rs`) | turf temperatures, list of superconducting turfs | set heat, heat stage, swap removal | the list and the turfs' indexes are inverse; a stage is not seen half done |
| Mixture commands (`world.rs`) | gases, temperature, revision of a mixture | merge, remove, transfer, scrub, reconcile, state upload | moving gas creates none; a state computed from older contents is refused |
| Registries and reactions (`metadata.rs`, `world.rs`) | gases, reactions in priority order, suspended passes | install, react, resume | a registry is refused whole; a pass tries each reaction once, in order |
| Service state (`state.rs`) | pending continuations with deadlines, general queue, reaction transactions, depth counter, mixture upload | react, stage chunk, resume, cancel, drain, lifecycle, upload | bounded queues, no lost or doubled event, service and core agree |
| Server session (`dogmos-server/lib.rs`) | active flag, shutdown flag, request sequence | accept, handshake, dispatch, shutdown | one session at a time, requests in order, the process ends |
| Shim (`dogmos-byond`) | worker thread, one request buffer, service process | round trip with timeout, decode, terminate | a late answer is never taken for another request's |
| Legacy backend (`src/src`, `auxcallback`) | gas arena with free list, turf counts, heat thread, global locks, callback channel | mixture and turf registration, heat pass, callback queue, shutdown | a slot has one owner, no deadlock, callbacks of an old world are not run in a new one |
| Wire codecs (`dogmos-protocol`), game lists (`dogmos-byond/lib.rs`) | none | encode, decode, read and write lists of floats | what is sent is what is understood; anything else is refused |
| Identity, metrics, perf | none | hash, measure | stateless |

How they interact: the session thread reads one request at a time and calls
`ServiceState`, which calls `DogmosWorld`; there is no lock because there is no
second caller. All concurrency is therefore *between requests*: a stage, an
upload or a suspended reaction stays open while other requests run. Events go
from the core's `events` to a service queue in the same request and from there to
the client when it drains; a suspended reaction is a token in the core, wrapped by
the service in an id with a deadline, and returned to DM code inside an event.

The hard behaviours are listed under `hazards` in `PROJECT.json`: state held
across requests (stage cursor, staging buffers, suspended reactions), two copies
of the same fact kept in step by hand (vector and map, counter and queues, core
and service continuations), generation reuse and overflow, deadlines that race
with answers, and requests that fail half way.

## 2. Modules

`FrontierSnapshot` — what the frontier promises: an ordered set of turf handles
with an epoch, an upload that is offered piecewise and published as a whole, and
no change while a stage walks.

`Frontier` — `FrontierState` behind the guards of `DogmosWorld`. Variables carry
the names of the fields. `BeginFrontier`, `AppendFrontier`, `CommitFrontier`,
`AddFrontier`, `RemoveFrontier` are the five requests; `StageChunk` and
`StageRejected` are the chunked stage, whose work is abstracted to the handles it
has prepared (`visited`); `RegisterTurf` and `UnregisterTurf` change which handles
are live. `compact()` is part of the add and remove actions. `newestEpoch` and
`visited` are history variables. `Snapshot` instantiates `FrontierSnapshot` with
the view of vector and map, and the received part of staging.

`Continuations` — the continuation table of `DogmosWorld`: the free stack with its
order, generations with the overflow at `MaxGeneration` (`u32::MAX` in the code)
that loses the slot, invalidation by mixture slot and by turf slot. A reaction's
chemistry is abstracted to whether it reaches a DM reaction. The React stage is
two steps, capture and commit, because requests run in between; `StageConflict` is
the commit whose publication loses to a concurrent write and gives its new
continuation back. `issued` is a history variable.

`Callbacks` — extends `Continuations` with `ServiceState`. `Publish` is
`enqueue_world_events_at`: the core's events become one batch of the general queue
or of a reaction transaction, or, when the continuations do not fit, stay in the
core. Expiry happens where the code does it: when a queue is drained
(`expire_continuations_at`, which cancels in the core first) and when an expired
token is used (`require_continuation_at`). A drain that fails ends the session
(`alive`), as the `?` in the session loop does. `Delivered` is the shim's
contiguity check. With `ClientReplaces` the client may re-register a mixture or a
turf that is still registered; without it, it unregisters first. `replaced` is a
history variable: a slot was registered again under a suspended reaction, which the
core then drops and the service keeps (finding 3).

`Versioned`, `StagePublication`, `AtomicStages` — the gas stages. `Versioned` is
`versioned.rs`: a record with an authoritative value and at most one tentative value
under a publication token, and the conflict mark. `StagePublication` runs
ProcessTurfs, React, Equalize and ExcitedGroups over it, item by item, with mixture
commands between items; amounts are abstracted to the set of changes the contents
are made of, which is enough to see a change lost, doubled or shown too early.
`AtomicStages` is the promise: a stage is one change of the mixtures it read, or
none.

`HeatStage` — the TurfHeat stage in chunks and the list of superconducting turfs:
walk, exchange with the gas, conduct, stage a new list, publish. Temperatures are
three ranges, chosen freely where the code computes them.

`SlotIndex`, `Transaction`, `HandleMap` — the scratch storage. `SlotIndex` keeps the
epoch's width: `clear()` at the last epoch must wipe. `HandleMap` is the map both
implement.

`Topology`, `Lifecycle`, `TurfBatch` — `PackedTopology` as operators on a record, the
registered world over it (slots with generations, reverse ownership, edges with
firelocks, heat list, conductivity edges, cached mixture graph, whether a stage is
active) and the two-pass adjacency request of the service.

`MixtureCommands` — every mixture command, the state upload guarded by revision and
the pipenet reconciliation, on moles counted in units below `MOLAR_ACCURACY`;
divisions round down as floats round.

`Metadata`, `ReactionPass` — the two registries with every rule that refuses a batch,
and the reaction pass: try in order on a copy, run native reactions, suspend at the
first one DM must run, resume behind it. How much burns is open; which gases are
used and made, and the direction of the temperature, are the code's. The conditions
of a reaction are tested on the copy as native reactions left it; what is published is
its canonical form, with every amount below `MINIMUM_CALCULATED_MOLES` set to zero
(`Canonical`), so a reaction may have been announced on a trace that others never see.

`StateUpload` — `dogmos_mixture_state_batch` in the shim with the chunks, the overall
deadline and the abort, and the pending upload of the service. The batch itself is the
core's: every record must name the current revision and valid contents, and a mixture
that is to be written must have a revision left; then immutable mixtures are passed
over, though the call counts them, and every other one takes the contents without
their traces. Between calls mixtures change and become immutable.

`Session` — the DreamMaker thread, the shim's I/O worker, dogmosd's accept loop, one
thread per connection and the stderr reader, over the socket. Any request may time
out; the service may fail to start, to listen or to serve, or answer with an error;
other processes may open the socket but never know the token. Calls are numbered, and the number
travels with the answer, so a late answer shows.

`WireCodec`, `WireFormat` — every message with a layout of its own as a tuple of
cells, encoder and decoder; `WireFormat` sends one, possibly altered by a peer of
another build.

`DmLists`, `DmBridge` — the lists of floats the procs read and give back, with exact
integers up to 2^24 and wider ones in words; `DmBridge` carries an identifier from
an answer into the game and back in the next call.

`CallbackChannel`, `HeatWorker`, `LegacyLocks`, `GasArena` — the in-process backend:
the callback queue with its two limits and its lock-free drain, whose pop, look at the
failure latch, release of the bytes and start of the callback are separate steps (the
plain drain releases and then looks, the timed one looks and then releases); the heat thread
across worlds of one library; the global read-write locks with the points where a
call gives control back to the game; mixture slots with the free list and the
turfs that still name a slot.

`FrontierProofs`, `CallbacksProofs`, `StageProofs`, `LifecycleProofs`,
`SessionProofs`, `UploadProofs`, `LegacyProofs`, `MixtureProofs` — the theorems
(section 5). The first extends `Frontier`, the second `Callbacks` (with it
`Continuations`), then `StagePublication`, `Session` and `StateUpload` have one each;
`LifecycleProofs`, `LegacyProofs` and `MixtureProofs` extend the `MC` modules of their
runs, because the properties they prove conjoin those of several instances, and leave
the values of the constants open.

The `MC` modules give the constants values. `MCFrontier` adds a constraint on the
workload and `MCRegistry` holds the gases and reactions of the instances. The others
put several instances into one run: the components share no state at the level
modelled here, so `part` picks, in the initial state, the one a behaviour belongs
to, instead of interleaving steps that commute. Such a module extends one component,
whose constants are in the cfg and whose properties the run names as they are
(`NoOrphan` of `Session`, `GraphFresh` of `Lifecycle`, ...), and instantiates the
others; a property defined in the MC module conjoins named properties of those
instances, which hold the comments on what each one says and which code it is about.
Constants of an instantiated module are assumed by an operator (`HeatConstants`,
`LifecycleConstants`, ...), which the `ASSUME PartsConstants` of the MC module
evaluates.

A rejected request that changes nothing is not a step. Operators whose comment
starts with "Mutant" are deliberate mistakes, used only to show that a property
can fail; no specification refers to them.

## 3. Runs

| Run | Checks | Consists of |
|---|---|---|
| `frontier` | `TypeOK`, `StoreSound`, `UploadAccounted`, `ViewSound`, `SnapshotSpec` | vector, map and tombstones agree (`MapPointsAtOwner`, `TombstonesBounded`, `MembersWithinSlots`); an upload's books are exact; the cached view is fresh and a stage walks one frontier (`CachedViewFresh`, `StageWalksOneFrontier`); the store implements `FrontierSnapshot` |
| `frontier_epoch` (violation) | `CommittedEpochNewest` | finding 1 |
| `continuations` | `TypeOK`, `TableSound`, `ContinuationsCurrent`, `TokensSingleUse` | two reactions, slot reuse, overflow, replacement of mixtures and turfs, a stage with a conflict; `TableSound` is `FreeListSound` and `CapacityHeld` |
| `callbacks` | `QueuesExact`, `GeneralInOrder`, `ServiceAgrees` | exact, bounded, ordered queues even with a client that replaces live mixtures (`CountExact`, `QueuedTokensPending`); until it does so under a suspended reaction, service and core agree (`NothingStranded`, `ContinuationsAgree`, `IncompleteHasContinuation`) |
| `callbacks_gap` (violation) | `BatchesAccepted` | finding 2 |
| `callbacks_replace` (violation) | `NothingStranded` | finding 3 |
| `stages` | `GasStagesSound`, `HeatStagesSound`, `AtomicSpec`, `RevisionTellsContents`, `StagesEnd`, `StorageIsMap` | a stage publishes only over records unchanged since it captured them and leaves suspended mixtures alone (`CapturedFresh`, `SuspendedLeftAlone`); gas stages implement `AtomicStages`; nothing of a heat stage shows before it commits and no command is lost to one (`HeatListExact`, `StagedListExact`, `WritesKept`, `HeatStageInvisible`); equal revisions mean equal contents; a stage that is called for ends; index and arena implement `HandleMap` |
| `lifecycle` | `HandlesCurrent`, `TurfsExact`, `GraphFresh`, `BatchApplied`, `StageSeesFixedWorld` | reverse indexes and heat list equal a scan (`IndexesExact`, `HeatListExact`), edges are entered on both sides, counted once and join registered turfs that have what they carry (`EdgesSound`), turfs hold current mixtures when nothing live is replaced (`TurfsHoldCurrent`); `TurfsExact` is the same in the other worlds; the cached graph is fresh when batches succeed whole; an accepted adjacency batch leaves what it asked for; a stage sees a fixed world and would notice a changed row by the revision |
| `mixtures` | `PassOrdered`, `CommandsConserve`, `UploadFresh`, `AnnouncedReactable` | commands create no gas and lose only traces; immutable mixtures stay; no state computed from older contents is accepted; a registry is refused exactly when it breaks a rule; a pass tries each reaction once in order, stays within the events it reserved, and announces only what is reactable, up to the traces its own publication removes |
| `service` | `NoOrphan`, `AnswersMatch`, `FailsClosed`, `CallsEnd`, `ReactionsEnd` | no dogmosd outlives its session and its last line is reported (`NoneRuns`, `LastWords`); an answer belongs to its call and one connection is served (`OwnAnswer`, `OneAdmitted`); after a timeout nothing is answered; calls return and the worker thread ends; continuations and passes end |
| `traffic` | `WireExact`, `ListsExact`, `UploadWhole` | what is encoded is decoded as meant and nothing altered passes for it; identifiers survive the game's floats and different lists are different requests; a call answers success exactly when the state batch was applied, whole but for the immutable mixtures it passes over, and leaves nothing pending |
| `legacy` | `HeatThreadSound`, `LocksSound`, `SlotsSound`, `ChannelSound`, `LegacyEnds` | one heat thread, owned, never over a taken arena; no lock taken twice and no circle; a slot has one owner and the counts are scans; callbacks run once, in order, in their own world and within both limits, and once one is refused at most one more is started; shutdown returns and accepted callbacks run |

Bounds, and why they are enough:

* *Frontier*: two slots, two generations (the second only for slot 0), batches of two,
  incremental epochs to 3 and uploads to 2: a handle is removed, re-added and
  compacted behind a live one, a slot is reused, an upload is superseded and
  committed under a stage.
* *Continuations*: capacity 2 with two generations per slot reaches a full table,
  reuse, overflow and a lost slot; two mixtures and two turfs tell invalidation of one
  from the other.
* *Callbacks*: queues of two or three events, two continuation ids, two transactions
  and a clock of one or two time-outs reach a full queue, continuations in different
  scopes, expiry of one with the other pending, and a reaction after a failure.
* *Stages*: three turfs in a row, one with an immutable mixture, and two components;
  two tokens (five for components, which publish one each); one command may fall
  between any two items. The index runs through its epochs (`EpochMax = 3`) twice.
* *Lifecycle*: a full neighbour row needs more turfs than `MaxTurfNeighbors`, so one
  instance has three turfs with room for one; reassigning and replacing need two
  mixtures. Revisions wrap (`RevisionWrap`) past what one stage can see.
* *Mixtures*: two mixtures and two gases, amounts on both sides of each threshold, two
  commands in a row; registries contain one batch per rule; two passes. In the passes
  an amount is nothing, a trace or enough (`MaxMoles` and `MinimumCalculated` are 2), and
  a native reaction can leave a trace that the condition of the next one needs;
  mixtures are created with the gases of `Supplied`, the others come from reactions.
* *Service*: three calls reach a timeout followed by a call and a restart; two strays
  meet the accept loop before and during a session.
* *Traffic*: up to two records, texts and payload cells per message; one altered cell
  or length on the wire, two in a list. The words of `DmLists` are narrowed to 6 of 8
  bits; what matters is that one word is exact and two are not. Of a state batch:
  contents with and without traces and invalid ones, lists of two in chunks of one, two
  uploads, and one revision to spend, so that a mixture with none left, a list that
  names a stale revision and an immutable mixture in a list all occur.
* *Legacy*: two worlds, calls nested twice, three objects over five slots, and a queue
  whose item and byte limits are each reached first in some behaviour. A producer is
  refused while a callback is between look and start, in both drains.

The named bounds only cut behaviours short, and a system at its bounds may have
nothing left to do: deadlock is checked only in `lifecycle`, where every state
has a request that is accepted.

Fairness, always of steps the code itself takes:

* `stages`: `StageItem` is weakly fair; the master controller calls for chunks until
  the stage reports done. Nothing is assumed of commands.
* `service`, session: every thread that can move does (`Starting`, `Awaiting`, `Reap`,
  `Worker`, `Loop`, `Thread`, `Record`); waits end because each has a timeout. New
  calls, errors and strays need never come.
* `service`, deadlines: the clock advances (`current_ticks()` reads a monotonic clock)
  and the client drains the general queue (the comment in `drain_callbacks_at` says
  the path "runs at least once per tick"). Answers need never come.
* `service`, passes: an evaluation under way goes on; draining and resuming are
  strongly fair, as a client that resumes what it drained is, since other passes may
  be in between.
* `legacy`: the heat thread and the game call go on (in the instance whose passes end
  within the five seconds dogmos_shutdown waits); the game calls the callback hook,
  the drain and a started send finish.

## 4. Findings

1. *Epoch regression.* `commit_validated()` does not compare the upload's epoch
   with a committed epoch that `add()` or `remove()` advanced after `begin()`:
   begin 1, add 2, commit 1 replaces the newer frontier by the older upload and
   moves the epoch back. The snapshot specification states what the code does, so
   refinement holds; `frontier_epoch` shows the regression.
2. *Sequence gaps.* Removing a continuation event from a queue leaves a hole in the
   sequence numbers; the shim refuses the next batch that spans it, after the
   service has popped the batch, so the ordinary events in it are lost.
3. *Half-committed reaction.* When a live mixture is re-registered the core drops
   its suspended reaction and the service does not. The dangling entry occupies
   continuation capacity, so a later reaction can be committed in the core and then
   refused by the service, its events left behind in the core and its transaction
   open; and when the dangling entry expires, the drain fails and ends the session
   (`DrainFails`).

Further divergences met while modelling, without a run of their own. The models do
what the code does; where a definition states what the quoted text promises, its
name is given, and it is false of the model.

* An adjacency batch that fails half-way leaves the cached mixture graph
  as it was (`apply_adjacency`, `world.rs:1768`, against the comment at `:1754`).
  `Lifecycle!GraphFresh` is therefore checked with whole batches only
  (`FailingBatches` false).
* `RemoveAmountInto` leaves amounts below `MOLAR_ACCURACY` behind (`world.rs:2482`,
  against `docs/agent/numerical-invariants.md:7`): `MixtureCommands!NoTraces`.
* `transfer_gases` counts the minimum heat capacity in the receiver's energy, so moving
  gas can change the total energy (`world.rs:5465`):
  `MixtureCommands!TransferHeatsNothing`.
* A connection accepted while the session is ending can keep dogmosd waiting in its
  accept loop (`dogmos-server/src/lib.rs:95`, against
  `tests/control_plane.rs:854`): `Session!ServiceExits`. The shim's reaping still
  kills the process, which is why `NoOrphan` holds.
* An error while refusing a second connection ends the service (`lib.rs:96`, against
  `docs/performance/ipc-decision.md:40`): `Session!StraysHarmless`.
* An error of a drain ends the session instead of being answered (`lib.rs:303`,
  against `ipc-decision.md:86`): `Session!ConflictsAnswered`.
* `exact_u32` in the shim accepts 2^24, which a float cannot tell from 2^24 + 1
  (`dogmos-byond/src/lib.rs:72`, `:2586`).
* A refused `TurfAdjacencyBatch` stays half applied and the session goes on serving
  (`dogmos-server/src/lib.rs:836`, against `world.rs:1692`):
  `TurfBatch!ServesWhatItAnswered`.
* When a heat pass outlasts the shutdown's wait, the next world can meet the old
  Shutdown message (`superconduct.rs:89`, against `:87`) and a flag that was not given
  back (`src/src/lib.rs:349`, against `:343`): `HeatWorker!LiveIsServed` and
  `ShutdownReleases` are checked for passes that end in time.

## 5. Proofs

Every theorem holds for all values of the constants that its assumption admits, so
for any number of slots, mixtures, turfs, calls and requests. The assumptions say
that bounds are natural numbers, that generations are positive and that the absent
values (`None`, `NoStage`, `NoHandle`, `NoSlot`) are none of the present ones; where
a proof needs more it is said below. The argument is always the same: an invariant
that Init establishes and every action keeps, with one lemma per action, and the
properties of the runs as its consequences.

### Frontier (`FrontierProofs`)

* `FrontierInvariant`: `Spec => []FrontierInv`, where `FrontierInv` is
  `StoreTypeOK`, `MapPointsAtOwner`, `UploadAccounted`, `CachedViewFresh`,
  `IdleStage` and `StageWalksOneFrontier` together. None of the parts is inductive
  alone: commit keeps the map sound only because a complete upload has distinct
  handles (`UploadAccounted`), and the walk survives because every request that
  changes the frontier needs an idle cursor (`IdleStage`) and because a chunk
  reads the cached view (`CachedViewFresh`).
* `MapSound`, `CacheSound`, `UploadSound`, `WalkSound`: the parts, as corollaries.
  `TypesTheorem` adds the element types of the cached view and of `visited`, which
  follow from freshness and from the walk.
* `StoreTheorem` and `ViewTheorem`: the invariants `StoreSound` and `ViewSound` of the
  run, from the parts and the two counting theorems below.
* `TombstoneBound` and `MembershipBound`: by counting. Live positions and members
  are in bijection, which turns the length of the compacted vector into the
  cardinality of the membership; `MembershipBound` adds that an open upload never
  announces more handles than there are turf slots.
* `SnapshotTheorem`: `Spec => SnapshotSpec`, the refinement of `FrontierSnapshot`,
  one lemma per request. The view is read off the vector by an enumeration of its
  live positions; the proof shows that a removal takes exactly one handle out of it,
  an addition appends one, and compaction changes nothing.

The sets of slots and generations need not be finite: the members are counted
through the positions they occupy.

### Continuations (`CallbacksProofs`, first part)

* `InvariantTheorem`: `Spec => []ContinuationsInv`. The inductive invariant is the
  type invariant, `FreeListSound`, `ContinuationsCurrent` and two parts no run needs
  but the induction does: `IssuedReached` (a token that was handed out names a slot
  whose generation has reached the token's, so the next generation is new) and
  `StageCurrent` (what the React stage captured is still current when it commits,
  because the requests that could change it are refused while the cursor is active).
* `TypeTheorem`, `FreeListTheorem` and `CurrentTheorem`: the parts, as corollaries.
* `SingleUseTheorem`: `Spec => TokensSingleUse`, the action property, from
  `IssuedReached`.
* `CapacityTheorem`: `CapacityHeld`, by counting: every operation on the table moves
  slots between the ones in use and the free stack, loses one, or takes a fresh one
  below the capacity.
* `TableTheorem`: the invariant `TableSound` of the run, from `FreeListTheorem` and
  `CapacityTheorem`.

The slot table is proved first, one lemma per operation (`AllocateStep`,
`CompleteStep`, `RotateStep`, `FreedStep`, `ConflictStep`, ...); an action then
only has to say which continuation it adds and which ones it removes (`OnlyAdds`).

### Callback queues (`CallbacksProofs`, second part)

Over the same table, and with any client, also one that replaces live mixtures (the
last theorem speaks of behaviours in which it has not yet done so):

* `QueueInvariant`: `ServiceSpec => []QueueInv`. The books: pending entries have
  distinct ids below the next one (`Identified`), transactions have ids below the next
  one (`Table`), and the entry of a queued continuation callback belongs to the
  transaction of its queue (`Held`). The numbers of the general queue rise from the last
  one drained to the next one given (`Rising`), and the counter is the depth and within
  its bound (`Numbered`).
* `QueuesTheorem` and `OrderTheorem`: `QueuesExact` and `GeneralInOrder` of the run.
* `AgreementTheorem`: `ServiceAgrees` of the run. The invariant (`Agreed`, as long as
  `replaced` is false) is that of the core with `CapacityHeld`, no event left behind,
  `Matched` (the pending entries are the slots in use, one each, with the token, the
  turf and the mixture of the slot) and `Waiting` (an open transaction has an entry).
  Per operation the proof says what it does to the slots in use (`Uses`, `Moves`,
  `Empties`). That a publication always fits follows by counting: the core had room
  for the new continuation (`CapacityHeld`), and the service has as many entries as
  the core has slots in use. Replacing a live slot breaks `Matched`, which is finding 3.

The lemmas below them say what a retained, cut or extended queue keeps, and that a
batch (`Published`) is numbered on from where its queue ended and gives each of its
suspended events an id of its own. `Retained` is a recursive function over the
queue; that it is defined, and keeps what it should in order, is shown by looking at a
least length where it would not.

### World and topology (`LifecycleProofs`)

* `WorldInvariant`: types, the heat list and the positions it gives the turfs
  (`Listed`), no mixture for a turf that is gone (`DeadEmpty`), and both reverse indexes
  equal to a scan (`TurfsIndexed`, `EdgesIndexed`).
* `HandlesTheorem`: `HandlesCurrent` of the run. The edges need `TopologySound` and
  `RowsCarried` (a row entry has its twin and names the current generation of its turf, every edge is
  counted once, and a turf with neighbours is registered and has the mixture or the heat
  its edges need).
  `UnregisterMixture` removes the edges of a whole set of turfs by a fold over the
  owners, so its step is proved by induction on that set. That turfs hold current
  mixtures is proved for clients that replace nothing live (`EntriesCurrent`).
* `GraphTheorem`: `GraphFresh`, under the hypothesis that batches do not fail half
  way; with failing ones it is false (section 4).
* `FixedTheorem`: `FixedUnderStage`, the part of `StageSeesFixedWorld` that concerns
  this module: while a stage is active nothing is registered, linked or heated.
* `BatchInvariant` and `BatchTheorem`: `BatchApplied`, over `TurfBatch`. The invariant
  (`BatchInv`) is that both ends of every edge agree (`RowsSound`), whichever pass
  refused the batch, and that the last answer told the truth. A batch is a fold of
  one request over its mutations, written here as the runs of a pass (`Passes`); the
  edges after each prefix are stated outright (`AfterAdjacency`, `AfterFirelocks`), and
  the first prefix at which a pass would leave other ones is shown not to exist. The
  distinctness of the pairs (`Apart`) is what makes it so: no later mutation names a pair
  an earlier one connected, so the firelock pass finds every edge it needs.

The assumption is `LifecycleConstants` and `BatchConstants`; the slots of turfs are
finite. Batches may have any length.

### Gas stages (`StageProofs`)

* `StageInvariant`: records and candidates are well formed, tokens not yet taken are
  named nowhere (`Unused`), a logged change is in the contents once (`LogOK`,
  `VisibleOK`), and at every work item of a stage what it captured, staged and
  still has to do fit each other (`PoolOK`, `StageOK`).
* `GasStagesTheorem`: `GasStagesSound` of the run: what a stage stages was made of
  records nobody wrote since, and suspended mixtures are left alone.
* `RevisionTheorem`: `RevisionTellsContents`, an action property over commands and
  publications.
* `AtomicTheorem`: `Spec => AtomicSpec`. A work item is a stutter, the commit is one
  step of `AtomicStages` made of what is visible then; the invariant is what says that
  the captured inputs are still the visible ones.

The assumption is `StageConstants`: gas edges are symmetric, and a frontier has
finitely many turfs.

### Session (`SessionProofs`)

* `SessionTypes`, and `SessionInvariant`: `Fates` (what a failed call leaves behind:
  the client has lost its sender, the process is gone, and the newest line of stderr is
  the one reported), `Admitted` (whoever is past the accept loop holds the active flag,
  alone) and `OneInFlight` (the number of the call travels from the caller over worker,
  socket and session thread and back; at each moment it is in one place, and whatever
  is elsewhere is older).
* `NoOrphanTheorem`, `AnswersTheorem`, `FailsClosedTheorem`: `NoOrphan`,
  `AnswersMatch` and `FailsClosed` of the run.

The assumption is that the bound on calls is a natural number and that the shim is
not one of the strays; any number of strays and operations is covered.

### State upload (`UploadProofs`)

* `UploadInvariant` and `UploadTheorem`: `UploadWhole`. Its part about steps
  (`WholeBatch`) has both directions: a call under way that answers "ok" does so in the
  step that applies its list to a world the list fits, and any other step of it leaves
  the world alone. The invariant says what the
  shim has sent, what the service keeps pending (`PendingType`), that a pending upload
  is a prefix of the list of the call that owns it (`Owned`), that a finished call
  owns none (`Released`), and that an upload nobody owns is left only behind a
  deadline (`Unowned`).

### Reaction passes and mixture commands (`MixtureProofs`)

* `PassInvariant` and `PassTheorem`: `PassOrdered`. The invariant (`PassInv`) says that
  the registry is what an accepted batch makes it (`RegistryInv`), that a suspended pass has
  run a rising list of places below the one it goes on at (`Ran`), and of the call under
  evaluation that it is such a pass, that it has staged two events at most for every
  reaction behind it, and that its copy differs from the mixture only if a native
  reaction ran (`CallOk`). The rules of the registry are proved to be equivalent to
  their statement without the walk (`GasBatchOk`, `ReactionBatchOk`): a batch whose
  checks pass one by one has dense ids, distinct keys and, by counting, as many
  priorities as reactions, and `PriorityOrder` is the falling enumeration of those.
* `AnnouncedTheorem`: `AnnouncedReactable`. The invariant keeps the fact from the test
  of the conditions to the publication. If no native reaction ran, the copy is the
  mixture and nothing is written; otherwise the canonical form of the copy is, and
  the copy is the witness of what the mixture was before its traces were removed. The
  stronger claim, reactable in the published amounts themselves, is false of the code.
* `CommandsInvariant`: every record stays in range (`Records`), and what a client has
  read is what the mixture held at that revision, traces aside (`SeenInv`). The second
  part is needed for stale states and is where a command that changed a mixture under
  the same revision would show: every command is proved to leave a mixture alone, to
  commit it under the next revision, or only to drop traces (`Commanded`).
* `ConserveTheorem`, `FreshTheorem`, and over the composition of the run
  `CommandsTheorem` and `UploadTheorem`: `CommandsConserve` and `UploadFresh`. One lemma
  per command classifies its effect (`Outcome`, `EveryOutcome`). Conservation is a sum
  over a finite set of mixtures: for two mixtures it reduces to what they hold together
  (`MovedConserves`), for a pipe network to the rounding of every share of the pool; what
  is lost is bounded per mixture by what canonicalizing drops (`MinimumMoles`) and one
  rounding (`Accuracy`). The theorem speaks of any number of mixtures and gases and any
  ratio, as long as no gas has more moles than the largest number (the property says so).
* `PassesRefine`, `CommandsRefine`: the composition keeps to the specification of each
  part, so that what is proved of a part holds in the run.

The assumptions are `PassAssumption` and `MixtureConstants`: gases are numbered, the
two thresholds are ordered, ratios are fractions, and what the shim sends is a sequence of
registrations.

### In-process backend (`LegacyProofs`)

* `ArenaInvariant` and `SlotsTheorem`: `SlotsSound`. Free slots are below the length of
  the arena, each once, and owned by nobody (`FreeSound`), every named slot exists, and
  the two counts are scans; objects and turfs are finite sets.
* `LocksInvariant` and `LocksTheorem`: `LocksSound`. What a thread has left to do it
  may do with the locks it holds (`Runs`): it never asks for one it holds, and holds
  none where it calls the game. That is proved of every call of the game and of the
  heat pass, and each step keeps it, since a step is the head of such a run; calls may
  nest to any depth. The two threads cannot wait for each other because the heat pass
  only reads (`PassReads`), and a call that waits for its readers to leave a lock
  keeps no other lock from it.
* `HeatThreadInvariant` and `HeatThreadTheorem`: `HeatThreadSound`, in both settings. Of
  all heat threads only the one whose handle is known exists, its flag is up from its
  start to the drop of its guard, and no arena is missing while it exists (`HeatInv`);
  where passes end in time, a thread serves each world between its calls and a shutdown
  that returns has taken every arena (`QuickInv`).
* `ChannelInvariant` and `ChannelTheorem`: `ChannelSound`. The accounts are what is queued,
  reserved and in hand (`ChannelBytes`), and numbers grow from what has run over what is
  in hand and queued to what is reserved (`ChannelOrder`), for queues and callbacks of any
  size below the limits. That at most one callback starts after a refusal needs to know
  that a refused callback leaves the latch set until the next world, and that once one has
  started late none in hand has passed the latch (`ChannelLate`).

### What stays with TLC

* Liveness, which needs fairness and ENABLED: `StagesEnd`, `CallsEnd`, `ReactionsEnd`,
  `LegacyEnds`.
* What a recursive definition computes for every input: the codecs (`WireExact`) and
  the lists of floats (`ListsExact`) recurse over data.
* `StorageIsMap` and `HeatStagesSound`, which no theorem states. `Transaction` sorts its
  entries with `SortSeq`, of which the provers know nothing; the heat stage
  is a component of the size of the gas stages with a second list, and its proof would
  need another module as long as `StageProofs`.
* `TurfsExact` as the run names it. It is `HandlesCurrent` (with the types of one) of
  three further settings of `Lifecycle`. `HandlesTheorem` proves `HandlesCurrent` for
  every value of the constants, but of the module; to carry it over to the instances of
  `MCLifecycle` every definition of each would have to be equated with its own. Of
  `StageSeesFixedWorld`, `FixedTheorem` has the part about the world; the part about the
  revision of the topology is only checked.

The three violation runs concern properties that are false of the code.

## 6. Not modelled

* The floating-point kernels of diffusion, conduction and reaction kinetics, and the
  gas mathematics, flood fills and katmos equalization of the in-process backend:
  their results are values the models choose freely or count coarsely. TLC has no
  floats, and what the kernels compute is a numerical question, not one of states.
* Identity hashing, process metrics, the performance tools, diagnostics and telemetry
  counters: they keep no state another component reads.
* Byte offsets of the wire formats (only which fields there are, what they may hold and
  how lengths are checked), and the macros that generate bindings.
* Allocation failure: every `try_reserve` error is a rejected request, some after
  partial changes of scratch storage that the next request overwrites.

## 7. What is left

The models cover the plan of the first version. Of the proofs, these are left, the one
that says most first:

1. `HeatStage`: heat list, staged list and kept writes (`HeatStagesSound`), with the
   lemmas of `StageProofs` about `Versioned`;
2. `SlotIndex` and `Transaction`: the refinement of `HandleMap` (`StorageIsMap`), after
   the sort is stated by what it returns, as `Metadata` does (`Sorted`);
3. `Topology`: that a changed row has a new revision (`StageSeesFixedWorld`).

The assumptions of those modules are operators, which a theorem can take as its
hypothesis. No module named here declares a RECURSIVE operator.
