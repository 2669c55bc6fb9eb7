------------------------------- MODULE Frontier -------------------------------
(***************************************************************************)
(* The active-turf frontier of dogmos-core (frontier.rs) behind the guards *)
(* DogmosWorld puts in front of it (world.rs): the two-phase upload        *)
(* begin/append/commit, the incremental add/remove, the committed vector   *)
(* with its membership map, tombstones and compaction, the lazily cached   *)
(* view, and the resumable stage cursor that walks the view in chunks.     *)
(*                                                                         *)
(* A rejected frontier request changes nothing, so a rejection is the      *)
(* absence of a step; a rejected stage request aborts the stage and is an  *)
(* action.  Options are encoded by sentinels: epoch -1 is None, index 0 is *)
(* "not in the map", and vectors are indexed from 1.                       *)
(***************************************************************************)
EXTENDS Integers, Sequences, FiniteSets

CONSTANTS
  Slots,         \* turf slot numbers
  Generations,   \* turf generations
  MaxEpoch,      \* bound: largest frontier epoch a request names
  MaxBatch,      \* bound: most handles in one append, add or remove
  MaxLength,     \* bound: most handles a full upload announces
  StageIds,      \* stage identities (stage kind, stage epoch, seconds per tick)
  NoStage,       \* no stage cursor
  NoView         \* the cached view is not initialised

ASSUME SlotsAssumption == Slots \subseteq Nat
ASSUME GenerationsAssumption == Generations \subseteq Nat \ {0}
ASSUME BoundsAssumption == /\ MaxEpoch \in Nat
                           /\ MaxBatch \in Nat
                           /\ MaxLength \in Nat
ASSUME StageAssumption == NoStage \notin StageIds

Handle == Slots \X Generations

\* The handle a resized staging vector is padded with (slot 0, generation 0).
BlankHandle == <<0, 0>>

VARIABLES
  turfGeneration,   \* TurfSlot.generation of every slot, 0 when never registered
  turfOccupied,     \* TurfSlot.turf.is_some()
  turfsLen,         \* turfs.len(): the slots allocated so far
  committedEpoch, committed, committedSet, committedView,
  uploadEpoch, uploadExpected, uploadReceived, staging, receivedBits, uploadSeen,
  stage,            \* identity of the active StageCursor, or NoStage
  stageEpoch,       \* its frontier_epoch
  nextIndex,        \* its next_frontier_index
  visited,          \* history: the handles the active stage has prepared
  newestEpoch       \* history: the largest epoch ever committed

turfVars == <<turfGeneration, turfOccupied, turfsLen>>
committedVars == <<committedEpoch, committed, committedSet, committedView, newestEpoch>>
uploadVars == <<uploadEpoch, uploadExpected, uploadReceived, staging, receivedBits,
                uploadSeen>>
stageVars == <<stage, stageEpoch, nextIndex, visited>>
vars == <<turfVars, committedVars, uploadVars, stageVars>>

(***************************************************************************)
(* Operators                                                               *)
(***************************************************************************)

Batches == UNION {[1..n -> Handle] : n \in 1..MaxBatch}

BatchElements(handles) == {handles[i] : i \in DOMAIN handles}

BatchDistinct(handles) ==
  \A i, j \in DOMAIN handles : handles[i] = handles[j] => i = j

\* require_turf_handle_in: the slot holds a turf of exactly this generation.
Live(h) == turfOccupied[h[1]] /\ turfGeneration[h[1]] = h[2]

\* The keys of the membership map.
Members(map) == {h \in Handle : map[h] # 0}

\* Positions of a vector the map points back to; the others are tombstones.
LivePositions(vector, map) == {i \in DOMAIN vector : map[vector[i]] = i}

\* committed(): the live entries in vector order; the k-th one is the entry with k
\* live positions up to its own.
View(vector, map) ==
  LET live == LivePositions(vector, map)
      Nth(k) == CHOOSE i \in live : Cardinality({j \in live : j <= i}) = k
  IN  [k \in 1..Cardinality(live) |-> vector[Nth(k)]]

\* compact(): the positions that survive.  All of them until more than half are
\* tombstones; then the live ones, in order (Vec::retain).
Keeps(vector, map) ==
  IF Len(vector) <= 2 * Cardinality(Members(map))
  THEN {[i \in 1..Len(vector) |-> i]}
  ELSE {keep \in [1..Cardinality(LivePositions(vector, map)) -> 1..Len(vector)] :
          /\ \A i, j \in DOMAIN keep : i < j => keep[i] < keep[j]
          /\ {keep[i] : i \in DOMAIN keep} = LivePositions(vector, map)}

Compacted(keep, vector) == [k \in DOMAIN keep |-> vector[keep[k]]]

\* Mutant of Renumbered: compact() forgets to renumber the map.
RenumberedNever(keep, map) == map

\* The map after compact() has renumbered the handles that stay.
Renumbered(keep, map) ==
  [h \in Handle |-> IF \E k \in DOMAIN keep : keep[k] = map[h]
                    THEN CHOOSE k \in DOMAIN keep : keep[k] = map[h]
                    ELSE map[h]]

\* commit_validated(): the map of a swapped-in vector (a later duplicate would win).
Indexed(vector) ==
  [h \in Handle |->
     IF \E i \in DOMAIN vector : vector[i] = h
     THEN CHOOSE i \in DOMAIN vector :
            /\ vector[i] = h
            /\ \A j \in DOMAIN vector : vector[j] = h => j <= i
     ELSE 0]

\* add(): the map once the handles are appended behind `start` entries.
Extended(map, start, handles) ==
  [h \in Handle |-> IF h \in BatchElements(handles)
                    THEN start + (CHOOSE i \in DOMAIN handles : handles[i] = h)
                    ELSE map[h]]

\* remove(): the map once the handles are dropped.
Without(map, handles) ==
  [h \in Handle |-> IF h \in BatchElements(handles) THEN 0 ELSE map[h]]

Newest(e) == IF e > newestEpoch THEN e ELSE newestEpoch

(***************************************************************************)
(* Turf lifecycle, as far as the frontier sees it                          *)
(***************************************************************************)

\* apply_turf_lifecycle, Register: rejected while a stage is active; the
\* generation may not decrease, nor repeat after an unregister.
RegisterTurf(s, g) ==
  /\ stage = NoStage
  /\ g >= turfGeneration[s]
  /\ ~turfOccupied[s] => g # turfGeneration[s]
  /\ turfGeneration' = [turfGeneration EXCEPT ![s] = g]
  /\ turfOccupied' = [turfOccupied EXCEPT ![s] = TRUE]
  /\ turfsLen' = IF s + 1 > turfsLen THEN s + 1 ELSE turfsLen
  /\ UNCHANGED <<committedVars, uploadVars, stageVars>>

\* apply_turf_lifecycle, Unregister: the frontier keeps the stale handle.
UnregisterTurf(s) ==
  /\ stage = NoStage
  /\ turfOccupied[s]
  /\ turfOccupied' = [turfOccupied EXCEPT ![s] = FALSE]
  /\ UNCHANGED <<turfGeneration, turfsLen, committedVars, uploadVars, stageVars>>

(***************************************************************************)
(* The two-phase upload                                                    *)
(***************************************************************************)

\* begin_frontier: a newer epoch than the committed one and than the upload it
\* cancels; staging is resized, never cleared.
BeginFrontier(e, expected) ==
  /\ stage = NoStage
  /\ e # 0
  /\ expected <= turfsLen
  /\ e > committedEpoch
  /\ e > uploadEpoch
  /\ staging' = [i \in 1..expected |->
                   IF i <= Len(staging) THEN staging[i] ELSE BlankHandle]
  /\ receivedBits' = {}
  /\ uploadSeen' = {}
  /\ uploadEpoch' = e
  /\ uploadExpected' = expected
  /\ uploadReceived' = 0
  /\ UNCHANGED <<turfVars, committedVars, stageVars>>

\* Mutant of AppendFrontier: only the batch itself is searched for duplicates.
AppendFrontierUnseen(e, offset, handles) ==
  LET range == (offset + 1)..(offset + Len(handles)) IN
  /\ uploadEpoch = e
  /\ offset + Len(handles) <= uploadExpected
  /\ range \cap receivedBits = {}
  /\ BatchDistinct(handles)
  /\ staging' = [i \in DOMAIN staging |->
                   IF i \in range THEN handles[i - offset] ELSE staging[i]]
  /\ receivedBits' = receivedBits \cup range
  /\ uploadSeen' = uploadSeen \cup BatchElements(handles)
  /\ uploadReceived' = uploadReceived + Len(handles)
  /\ UNCHANGED <<uploadEpoch, uploadExpected, turfVars, committedVars, stageVars>>

\* append_frontier: not guarded by the stage cursor, it only fills scratch.
AppendFrontier(e, offset, handles) ==
  LET range == (offset + 1)..(offset + Len(handles)) IN
  /\ uploadEpoch = e
  /\ offset + Len(handles) <= uploadExpected
  /\ range \cap receivedBits = {}
  /\ BatchDistinct(handles)
  /\ BatchElements(handles) \cap uploadSeen = {}
  /\ staging' = [i \in DOMAIN staging |->
                   IF i \in range THEN handles[i - offset] ELSE staging[i]]
  /\ receivedBits' = receivedBits \cup range
  /\ uploadSeen' = uploadSeen \cup BatchElements(handles)
  /\ uploadReceived' = uploadReceived + Len(handles)
  /\ UNCHANGED <<uploadEpoch, uploadExpected, turfVars, committedVars, stageVars>>

\* Mutant of CommitFrontier: commit_validated() without pending() before it.
CommitFrontierUnvalidated(e) ==
  /\ stage = NoStage
  /\ uploadEpoch = e
  /\ committed' = staging
  /\ committedSet' = Indexed(staging)
  /\ committedEpoch' = e
  /\ newestEpoch' = Newest(e)
  /\ committedView' = NoView
  /\ staging' = <<>>
  /\ uploadEpoch' = -1
  /\ uploadExpected' = 0
  /\ uploadReceived' = 0
  /\ uploadSeen' = {}
  /\ UNCHANGED <<receivedBits, turfVars, stageVars>>

\* Mutant of CommitFrontier: the counter is not compared with the announced length.
CommitFrontierIncomplete(e) ==
  /\ stage = NoStage
  /\ uploadEpoch = e
  /\ \A i \in DOMAIN staging : staging[i] \in Handle /\ Live(staging[i])
  /\ committed' = staging
  /\ committedSet' = Indexed(staging)
  /\ committedEpoch' = e
  /\ newestEpoch' = Newest(e)
  /\ committedView' = NoView
  /\ staging' = <<>>
  /\ uploadEpoch' = -1
  /\ uploadExpected' = 0
  /\ uploadReceived' = 0
  /\ uploadSeen' = {}
  /\ UNCHANGED <<receivedBits, turfVars, stageVars>>

\* commit_frontier: pending(), then every staged handle must be a live turf, then
\* commit_validated() swaps the vectors and rebuilds the map.
CommitFrontier(e) ==
  /\ stage = NoStage
  /\ uploadEpoch = e
  /\ uploadReceived = uploadExpected
  /\ \A i \in DOMAIN staging : staging[i] \in Handle /\ Live(staging[i])
  /\ committed' = staging
  /\ committedSet' = Indexed(staging)
  /\ committedEpoch' = e
  /\ newestEpoch' = Newest(e)
  /\ committedView' = NoView
  /\ staging' = <<>>
  /\ uploadEpoch' = -1
  /\ uploadExpected' = 0
  /\ uploadReceived' = 0
  /\ uploadSeen' = {}
  /\ UNCHANGED <<receivedBits, turfVars, stageVars>>

(***************************************************************************)
(* The incremental sync                                                    *)
(***************************************************************************)

\* Mutant of AddFrontier: the active-stage guard is dropped.
AddFrontierWhileWalking(e, handles) ==
  /\ \A i \in DOMAIN handles : Live(handles[i])
  /\ e > committedEpoch
  /\ Cardinality(Members(committedSet)) + Len(handles) <= turfsLen
  /\ BatchDistinct(handles)
  /\ BatchElements(handles) \cap Members(committedSet) = {}
  /\ \E keep \in Keeps(committed, committedSet) :
       /\ committed' = Compacted(keep, committed) \o handles
       /\ committedSet' = Extended(Renumbered(keep, committedSet),
                                   Len(Compacted(keep, committed)), handles)
  /\ committedView' = NoView
  /\ committedEpoch' = e
  /\ newestEpoch' = Newest(e)
  /\ UNCHANGED <<turfVars, uploadVars, stageVars>>

\* add_frontier: live handles, none already present; compact first, then append.
AddFrontier(e, handles) ==
  /\ stage = NoStage
  /\ \A i \in DOMAIN handles : Live(handles[i])
  /\ e > committedEpoch
  /\ Cardinality(Members(committedSet)) + Len(handles) <= turfsLen
  /\ BatchDistinct(handles)
  /\ BatchElements(handles) \cap Members(committedSet) = {}
  /\ \E keep \in Keeps(committed, committedSet) :
       /\ committed' = Compacted(keep, committed) \o handles
       /\ committedSet' = Extended(Renumbered(keep, committedSet),
                                   Len(Compacted(keep, committed)), handles)
  /\ committedView' = NoView
  /\ committedEpoch' = e
  /\ newestEpoch' = Newest(e)
  /\ UNCHANGED <<turfVars, uploadVars, stageVars>>

\* remove_frontier: absent handles are ignored; drop from the map, then compact.
RemoveFrontier(e, handles) ==
  /\ stage = NoStage
  /\ e > committedEpoch
  /\ \E keep \in Keeps(committed, Without(committedSet, handles)) :
       /\ committed' = Compacted(keep, committed)
       /\ committedSet' = Renumbered(keep, Without(committedSet, handles))
  /\ committedView' = NoView
  /\ committedEpoch' = e
  /\ newestEpoch' = Newest(e)
  /\ UNCHANGED <<turfVars, uploadVars, stageVars>>

(***************************************************************************)
(* The stage cursor                                                        *)
(***************************************************************************)

\* committed() initialises the cached view the first time it is asked.
CurrentView == IF committedView = NoView THEN View(committed, committedSet)
               ELSE committedView

AbortStage == /\ stage' = NoStage
              /\ stageEpoch' = -1
              /\ nextIndex' = 0
              /\ visited' = <<>>

\* A request for another epoch or another cursor, a cancelled chunk and a chunk
\* whose own work fails are all rejected, and every rejection aborts the stage.
StageRejected ==
  /\ stage # NoStage
  /\ AbortStage
  /\ UNCHANGED <<turfVars, committedVars, uploadVars>>

\* A chunk prepares up to `work` frontier handles through the cached view.  Once
\* all are prepared the stage computes and commits, in this chunk or a later one.
StageChunk(id, e, work) ==
  /\ e = committedEpoch
  /\ stage # NoStage => id = stage /\ e = stageEpoch
  /\ LET len == Len(CurrentView)
         last == IF nextIndex + work < len THEN nextIndex + work ELSE len
     IN  \/ /\ stage' = id
            /\ stageEpoch' = e
            /\ nextIndex' = last
            /\ visited' = visited \o SubSeq(CurrentView, nextIndex + 1, last)
         \/ /\ last = len
            /\ AbortStage    \* the stage committed and dropped its cursor
  /\ committedView' = CurrentView
  /\ UNCHANGED <<turfVars, committedEpoch, committed, committedSet, newestEpoch, uploadVars>>

(***************************************************************************)
(* The specification                                                       *)
(***************************************************************************)

Init ==
  /\ turfGeneration = [s \in Slots |-> 0]
  /\ turfOccupied = [s \in Slots |-> FALSE]
  /\ turfsLen = 0
  /\ committedEpoch = -1
  /\ committed = <<>>
  /\ committedSet = [h \in Handle |-> 0]
  /\ committedView = NoView
  /\ uploadEpoch = -1
  /\ uploadExpected = 0
  /\ uploadReceived = 0
  /\ staging = <<>>
  /\ receivedBits = {}
  /\ uploadSeen = {}
  /\ stage = NoStage
  /\ stageEpoch = -1
  /\ nextIndex = 0
  /\ visited = <<>>
  /\ newestEpoch = -1

Next ==
  \/ \E s \in Slots, g \in Generations : RegisterTurf(s, g)
  \/ \E s \in Slots : UnregisterTurf(s)
  \/ \E e \in 0..MaxEpoch, n \in 0..MaxLength : BeginFrontier(e, n)
  \/ \E e \in 0..MaxEpoch, o \in 0..MaxLength, b \in Batches : AppendFrontier(e, o, b)
  \/ \E e \in 0..MaxEpoch : CommitFrontier(e)
  \/ \E e \in 0..MaxEpoch, b \in Batches : AddFrontier(e, b)
  \/ \E e \in 0..MaxEpoch, b \in Batches : RemoveFrontier(e, b)
  \/ StageRejected
  \/ \E id \in StageIds, e \in 0..MaxEpoch, w \in 1..MaxBatch : StageChunk(id, e, w)

Spec == Init /\ [][Next]_vars

(***************************************************************************)
(* Properties                                                              *)
(***************************************************************************)

\* The types of the stored state.
StoreTypeOK ==
  /\ turfGeneration \in [Slots -> Nat]
  /\ turfOccupied \in [Slots -> BOOLEAN]
  /\ turfsLen \in Nat
  /\ committedEpoch \in Int
  /\ committed \in Seq(Handle)
  /\ committedSet \in [Handle -> Nat]
  /\ uploadEpoch \in Int
  /\ uploadExpected \in Nat
  /\ uploadReceived \in Nat
  /\ staging \in Seq(Handle \cup {BlankHandle})
  /\ receivedBits \in SUBSET Nat
  /\ uploadSeen \in SUBSET Handle
  /\ stage \in StageIds \cup {NoStage}
  /\ stageEpoch \in Int
  /\ nextIndex \in Nat
  /\ newestEpoch \in Int

\* Every variable of the frontier, the upload and the cursor has its type; a view
\* and what a stage walks through it hold turf handles and nothing else.
TypeOK ==
  /\ StoreTypeOK
  /\ committedView = NoView \/ committedView \in Seq(Handle)
  /\ visited \in Seq(Handle)

\* Every key of committed_set points at its own handle in committed, through any
\* sequence of commits, adds, removes, re-adds and compactions (compact() unwraps
\* the lookup, and committed() silently skips a handle whose index is wrong).
MapPointsAtOwner ==
  \A h \in Handle : committedSet[h] # 0 =>
    /\ committedSet[h] \in DOMAIN committed
    /\ committed[committedSet[h]] = h

\* The view a stage or telemetry caches is the view of the current vector and map:
\* every mutation of either drops the cache.
CachedViewFresh ==
  committedView # NoView => committedView = View(committed, committedSet)

\* Removing handles one by one never lets tombstones outnumber members, so the
\* committed vector stays within twice the membership.
TombstonesBounded == Len(committed) <= 2 * Cardinality(Members(committedSet))

\* The frontier never holds more handles than allocated turf slots, stale handles
\* of unregistered turfs included.
MembersWithinSlots == Cardinality(Members(committedSet)) <= turfsLen

\* The committed vector, its map and its size: every member has its own live entry,
\* tombstones do not outnumber members, and members fit the turf slots.
StoreSound == MapPointsAtOwner /\ TombstonesBounded /\ MembersWithinSlots

\* While an upload is open its counter, its bitmap, its duplicate filter and the
\* staged handles agree, so a commit can publish no handle that was left over in
\* staging by a cancelled upload.
UploadAccounted ==
  uploadEpoch # -1 =>
    /\ Len(staging) = uploadExpected
    /\ receivedBits \subseteq 1..uploadExpected
    /\ uploadReceived = Cardinality(receivedBits)
    /\ uploadSeen = {staging[i] : i \in receivedBits}
    /\ \A i, j \in receivedBits : staging[i] = staging[j] => i = j

\* A resumable stage walks one frontier: between its chunks neither the epoch nor
\* the handles it has already prepared may change under the cursor.
StageWalksOneFrontier ==
  stage # NoStage =>
    /\ stageEpoch = committedEpoch
    /\ nextIndex <= Len(View(committed, committedSet))
    /\ visited = SubSeq(View(committed, committedSet), 1, nextIndex)

\* What a stage reads is the current frontier, through the cache and across chunks.
ViewSound == CachedViewFresh /\ StageWalksOneFrontier

\* The committed epoch is the newest epoch ever committed: an old snapshot is never
\* published over a newer one.
CommittedEpochNewest == committedEpoch = newestEpoch

(***************************************************************************)
(* Refinement                                                              *)
(***************************************************************************)

Snapshot == INSTANCE FrontierSnapshot WITH
  snapshot <- View(committed, committedSet),
  epoch <- committedEpoch,
  offered <- IF uploadEpoch = -1
             THEN [epoch |-> -1, size |-> 0, parts |-> <<>>]
             ELSE [epoch |-> uploadEpoch, size |-> uploadExpected,
                   parts |-> [i \in receivedBits |-> staging[i]]],
  walking <- stage # NoStage

\* The vector, map, tombstones, scratch and cache together implement one atomically
\* replaced, order-preserving snapshot (FrontierSnapshot).
SnapshotSpec == Snapshot!Spec
=============================================================================
