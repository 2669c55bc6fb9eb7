---------------------------- MODULE FrontierProofs ----------------------------
(***************************************************************************)
(* Proofs about the frontier, for every set of slots and generations,      *)
(* every epoch bound, batch size and upload length.                        *)
(***************************************************************************)
EXTENDS Frontier, FiniteSetTheorems, SequenceTheorems, TLAPS

(***************************************************************************)
(* Facts about the operators                                               *)
(***************************************************************************)

\* A function over 1..n is a sequence of length n.
LEMMA FunctionIsSeq ==
  ASSUME NEW S, NEW n \in Nat, NEW f \in [1..n -> S]
  PROVE  f \in Seq(S) /\ Len(f) = n
  OBVIOUS

\* Every entry of the map points at an occurrence of its own handle in the vector.
PointsAtOwner(vector, map) ==
  \A h \in Handle : map[h] # 0 => /\ map[h] \in DOMAIN vector
                                  /\ vector[map[h]] = h

\* The live positions are finitely many: they are positions of a vector.
LEMMA LivePositionsFinite ==
  ASSUME NEW vector \in Seq(Handle), NEW map
  PROVE  /\ IsFiniteSet(LivePositions(vector, map))
         /\ Cardinality(LivePositions(vector, map)) \in Nat
<1>1. IsFiniteSet(1..Len(vector))
  BY LenProperties, FS_Interval
<1>2. LivePositions(vector, map) \in SUBSET (1..Len(vector))
  BY LenProperties DEF LivePositions
<1> QED
  BY <1>1, <1>2, FS_Subset, FS_CardinalityType

\* What compact() keeps: some positions, among them every live one.
LEMMA KeepsType ==
  ASSUME NEW vector \in Seq(Handle), NEW map, NEW keep \in Keeps(vector, map)
  PROVE  /\ \E n \in Nat : keep \in [1..n -> 1..Len(vector)]
         /\ LivePositions(vector, map) \subseteq {keep[k] : k \in DOMAIN keep}
<1>1. DOMAIN vector = 1..Len(vector) /\ Len(vector) \in Nat
  BY LenProperties
<1>2. CASE Len(vector) <= 2 * Cardinality(Members(map))
  <2>1. keep = [i \in 1..Len(vector) |-> i]
    BY <1>2 DEF Keeps
  <2> QED
    BY <2>1, <1>1 DEF LivePositions
<1>3. CASE ~(Len(vector) <= 2 * Cardinality(Members(map)))
  BY <1>3, LivePositionsFinite DEF Keeps
<1> QED
  BY <1>2, <1>3

\* compact() keeps the vector a vector of handles, the map a map, its keys the same
\* keys, and every key pointing at its own handle.
LEMMA CompactionSound ==
  ASSUME NEW vector \in Seq(Handle), NEW map \in [Handle -> Nat],
         PointsAtOwner(vector, map), NEW keep \in Keeps(vector, map)
  PROVE  /\ Compacted(keep, vector) \in Seq(Handle)
         /\ Len(Compacted(keep, vector)) = Len(keep)
         /\ Renumbered(keep, map) \in [Handle -> Nat]
         /\ Members(Renumbered(keep, map)) = Members(map)
         /\ PointsAtOwner(Compacted(keep, vector), Renumbered(keep, map))
<1>1. PICK n \in Nat : keep \in [1..n -> 1..Len(vector)]
  BY KeepsType
<1>2. DOMAIN vector = 1..Len(vector) /\ Len(vector) \in Nat
  BY LenProperties
<1>3. Compacted(keep, vector) \in [1..n -> Handle]
  BY <1>1, <1>2, ElementOfSeq DEF Compacted
<1>4. keep \in Seq(1..Len(vector)) /\ Len(keep) = n
  BY <1>1, FunctionIsSeq
<1>5. Compacted(keep, vector) \in Seq(Handle) /\ Len(Compacted(keep, vector)) = n
  BY <1>3, FunctionIsSeq
<1>6. ASSUME NEW h \in Handle
      PROVE  /\ Renumbered(keep, map)[h] \in Nat
             /\ Renumbered(keep, map)[h] # 0 <=> map[h] # 0
             /\ map[h] # 0 => /\ Renumbered(keep, map)[h] \in 1..n
                              /\ keep[Renumbered(keep, map)[h]] = map[h]
  <2>1. CASE map[h] = 0
    <3>1. ~ \E k \in DOMAIN keep : keep[k] = map[h]
      BY <2>1, <1>1
    <3> QED
      BY <3>1, <2>1 DEF Renumbered
  <2>2. CASE map[h] # 0
    <3>1. map[h] \in LivePositions(vector, map)
      BY <2>2 DEF PointsAtOwner, LivePositions
    <3>2. \E k \in DOMAIN keep : keep[k] = map[h]
      BY <3>1, KeepsType
    <3>3. Renumbered(keep, map)[h] = CHOOSE k \in DOMAIN keep : keep[k] = map[h]
      BY <3>2 DEF Renumbered
    <3>4. /\ Renumbered(keep, map)[h] \in DOMAIN keep
          /\ keep[Renumbered(keep, map)[h]] = map[h]
      BY <3>2, <3>3
    <3> QED
      BY <3>4, <1>1, <2>2
  <2> QED
    BY <2>1, <2>2
<1>7. Renumbered(keep, map) \in [Handle -> Nat]
  <2>1. Renumbered(keep, map) = [h \in Handle |-> Renumbered(keep, map)[h]]
    BY DEF Renumbered
  <2> QED
    BY <2>1, <1>6
<1>8. Members(Renumbered(keep, map)) = Members(map)
  BY <1>6 DEF Members
<1>9. PointsAtOwner(Compacted(keep, vector), Renumbered(keep, map))
  BY <1>1, <1>3, <1>6 DEF PointsAtOwner, Compacted
<1> QED
  BY <1>4, <1>5, <1>7, <1>8, <1>9

\* A batch is a non-empty sequence of handles.
LEMMA BatchIsSeq ==
  ASSUME NEW handles \in Batches
  PROVE  /\ handles \in Seq(Handle)
         /\ Len(handles) \in Nat
         /\ DOMAIN handles = 1..Len(handles)
         /\ handles \in [1..Len(handles) -> Handle]
         /\ BatchElements(handles) \subseteq Handle
<1>1. PICK n \in 1..MaxBatch : handles \in [1..n -> Handle]
  BY DEF Batches
<1>2. n \in Nat
  BY BoundsAssumption
<1>3. handles \in Seq(Handle) /\ Len(handles) = n
  BY <1>1, <1>2, FunctionIsSeq
<1> QED
  BY <1>1, <1>2, <1>3 DEF BatchElements

\* add() appends fresh handles: old entries keep pointing at their owners and the
\* new ones point behind the old vector.
LEMMA ExtensionSound ==
  ASSUME NEW vector \in Seq(Handle), NEW map \in [Handle -> Nat],
         PointsAtOwner(vector, map), NEW handles \in Batches
  PROVE  LET map2 == Extended(map, Len(vector), handles)
         IN  /\ map2 \in [Handle -> Nat]
             /\ Members(map2) = Members(map) \cup BatchElements(handles)
             /\ PointsAtOwner(vector \o handles, map2)
<1> DEFINE map2 == Extended(map, Len(vector), handles)
           vector2 == vector \o handles
           at(h) == CHOOSE i \in DOMAIN handles : handles[i] = h
<1>1. /\ handles \in Seq(Handle)
      /\ DOMAIN handles = 1..Len(handles)
      /\ Len(handles) \in Nat
      /\ BatchElements(handles) \subseteq Handle
  BY BatchIsSeq
<1>2. DOMAIN vector = 1..Len(vector) /\ Len(vector) \in Nat
  BY LenProperties
<1>3. /\ vector2 \in Seq(Handle)
      /\ DOMAIN vector2 = 1..(Len(vector) + Len(handles))
      /\ \A i \in 1..Len(vector) : vector2[i] = vector[i]
      /\ \A i \in 1..Len(handles) : vector2[Len(vector) + i] = handles[i]
  <2>1. /\ vector2 \in Seq(Handle)
        /\ Len(vector2) = Len(vector) + Len(handles)
        /\ \A i \in 1..(Len(vector) + Len(handles)) :
             vector2[i] = IF i <= Len(vector) THEN vector[i] ELSE handles[i - Len(vector)]
    BY <1>1, ConcatProperties
  <2>2. DOMAIN vector2 = 1..Len(vector2)
    BY <2>1, LenProperties
  <2> HIDE DEF vector2
  <2>3. \A i \in 1..Len(vector) : vector2[i] = vector[i]
    BY <2>1, <1>1, <1>2
  <2>4. ASSUME NEW i \in 1..Len(handles)
        PROVE  vector2[Len(vector) + i] = handles[i]
    <3>1. /\ Len(vector) + i \in 1..(Len(vector) + Len(handles))
          /\ ~(Len(vector) + i <= Len(vector))
          /\ (Len(vector) + i) - Len(vector) = i
      BY <1>1, <1>2
    <3> QED
      BY <3>1, <2>1
  <2> QED
    BY <2>1, <2>2, <2>3, <2>4
<1> HIDE DEF vector2
<1>4. ASSUME NEW h \in BatchElements(handles)
      PROVE  /\ at(h) \in 1..Len(handles)
             /\ handles[at(h)] = h
             /\ map2[h] = Len(vector) + at(h)
  <2>1. \E i \in DOMAIN handles : handles[i] = h
    BY DEF BatchElements
  <2>2. at(h) \in DOMAIN handles /\ handles[at(h)] = h
    BY <2>1
  <2> QED
    BY <2>2, <1>1 DEF Extended
<1>5. \A h \in Handle : h \notin BatchElements(handles) => map2[h] = map[h]
  BY DEF Extended
<1>6. DOMAIN map2 = Handle /\ map2 = [h \in Handle |-> map2[h]]
  BY DEF Extended
<1> HIDE DEF map2, at
<1>7. \A h \in Handle : map2[h] \in Nat
  BY <1>1, <1>2, <1>4, <1>5
<1>8. map2 \in [Handle -> Nat]
  BY <1>6, <1>7
<1>9. Members(map2) = Members(map) \cup BatchElements(handles)
  BY <1>1, <1>2, <1>4, <1>5 DEF Members
<1>10. PointsAtOwner(vector2, map2)
  <2> SUFFICES ASSUME NEW h \in Handle, map2[h] # 0
               PROVE  map2[h] \in DOMAIN vector2 /\ vector2[map2[h]] = h
    BY DEF PointsAtOwner
  <2>1. CASE h \in BatchElements(handles)
    BY <2>1, <1>1, <1>2, <1>3, <1>4
  <2>2. CASE h \notin BatchElements(handles)
    BY <2>2, <1>1, <1>2, <1>3, <1>5 DEF PointsAtOwner
  <2> QED
    BY <2>1, <2>2
<1> QED
  BY <1>8, <1>9, <1>10 DEF map2, vector2

\* remove() only forgets keys.
LEMMA RemovalSound ==
  ASSUME NEW vector \in Seq(Handle), NEW map \in [Handle -> Nat],
         PointsAtOwner(vector, map), NEW handles
  PROVE  /\ Without(map, handles) \in [Handle -> Nat]
         /\ Members(Without(map, handles)) \subseteq Members(map)
         /\ PointsAtOwner(vector, Without(map, handles))
  BY DEF Without, Members, PointsAtOwner

\* commit_validated() indexes the vector it swaps in.
LEMMA IndexSound ==
  ASSUME NEW vector \in Seq(Handle),
         \A i, j \in DOMAIN vector : vector[i] = vector[j] => i = j
  PROVE  /\ Indexed(vector) \in [Handle -> Nat]
         /\ Members(Indexed(vector)) = {vector[i] : i \in DOMAIN vector}
         /\ PointsAtOwner(vector, Indexed(vector))
<1> DEFINE at(h) == CHOOSE i \in DOMAIN vector :
                      /\ vector[i] = h
                      /\ \A j \in DOMAIN vector : vector[j] = h => j <= i
<1>1. DOMAIN vector = 1..Len(vector) /\ Len(vector) \in Nat
      /\ \A i \in DOMAIN vector : vector[i] \in Handle
  BY LenProperties, ElementOfSeq
<1>2. ASSUME NEW h \in Handle, \E i \in DOMAIN vector : vector[i] = h
      PROVE  /\ Indexed(vector)[h] \in DOMAIN vector
             /\ vector[Indexed(vector)[h]] = h
  <2>1. PICK i \in DOMAIN vector : vector[i] = h
    BY <1>2
  <2>2. \A j \in DOMAIN vector : vector[j] = h => j <= i
    BY <2>1, <1>1
  <2>3. at(h) \in DOMAIN vector /\ vector[at(h)] = h
    BY <2>1, <2>2
  <2>4. Indexed(vector)[h] = at(h)
    BY <1>2 DEF Indexed
  <2> QED
    BY <2>3, <2>4
<1>3. ASSUME NEW h \in Handle, ~ \E i \in DOMAIN vector : vector[i] = h
      PROVE  Indexed(vector)[h] = 0
  BY <1>3 DEF Indexed
<1>4. Indexed(vector) = [h \in Handle |-> Indexed(vector)[h]]
  BY DEF Indexed
<1>5. \A h \in Handle : Indexed(vector)[h] \in Nat
  BY <1>1, <1>2, <1>3
<1>6. Indexed(vector) \in [Handle -> Nat]
  BY <1>4, <1>5
<1>7. Members(Indexed(vector)) = {vector[i] : i \in DOMAIN vector}
  BY <1>1, <1>2, <1>3 DEF Members
<1>8. PointsAtOwner(vector, Indexed(vector))
  BY <1>2, <1>3 DEF PointsAtOwner
<1> QED
  BY <1>6, <1>7, <1>8

\* A complete upload has received every position, once, with distinct handles.
LEMMA CompleteUpload ==
  ASSUME StoreTypeOK, UploadAccounted, uploadEpoch # -1, uploadReceived = uploadExpected
  PROVE  /\ receivedBits = 1..uploadExpected
         /\ DOMAIN staging = 1..uploadExpected
         /\ Len(staging) = uploadExpected
         /\ \A i, j \in DOMAIN staging : staging[i] = staging[j] => i = j
<1>1. IsFiniteSet(1..uploadExpected) /\ Cardinality(1..uploadExpected) = uploadExpected
  BY FS_Interval DEF StoreTypeOK
<1>2. receivedBits \in SUBSET (1..uploadExpected)
  BY DEF UploadAccounted
<1>3. Cardinality(receivedBits) = uploadExpected
  BY DEF UploadAccounted
<1>4. receivedBits = 1..uploadExpected
  BY <1>1, <1>2, <1>3, FS_Subset
<1>5. DOMAIN staging = 1..uploadExpected /\ Len(staging) = uploadExpected
  BY LenProperties DEF StoreTypeOK, UploadAccounted
<1> QED
  BY <1>4, <1>5 DEF UploadAccounted

\* A view is a sequence, as long as there are live positions.
LEMMA ViewSeq ==
  ASSUME NEW vector \in Seq(Handle), NEW map
  PROVE  LET view == View(vector, map)
         IN  /\ view \in Seq({view[k] : k \in DOMAIN view})
             /\ Len(view) = Cardinality(LivePositions(vector, map))
<1> DEFINE n == Cardinality(LivePositions(vector, map))
           view == View(vector, map)
<1>1. n \in Nat
  BY LivePositionsFinite
<1>2. DOMAIN view = 1..n /\ view = [k \in 1..n |-> view[k]]
  BY DEF View
<1> HIDE DEF view, n
<1>3. view \in [1..n -> {view[k] : k \in DOMAIN view}]
  BY <1>2
<1>4. view \in Seq({view[k] : k \in DOMAIN view}) /\ Len(view) = n
  BY <1>1, <1>3, FunctionIsSeq
<1> QED
  BY <1>4 DEF view, n

\* The view a stage walks is the view of the committed vector and map.
LEMMA CurrentViewSeq ==
  ASSUME StoreTypeOK, CachedViewFresh
  PROVE  /\ CurrentView = View(committed, committedSet)
         /\ CurrentView \in Seq({CurrentView[k] : k \in DOMAIN CurrentView})
         /\ Len(CurrentView) \in Nat
<1>1. CurrentView = View(committed, committedSet)
  BY DEF CurrentView, CachedViewFresh
<1>2. /\ View(committed, committedSet)
           \in Seq({View(committed, committedSet)[k] : k \in DOMAIN View(committed, committedSet)})
      /\ Len(View(committed, committedSet)) \in Nat
  BY ViewSeq, LivePositionsFinite DEF StoreTypeOK
<1> QED
  BY <1>1, <1>2

\* The map points at its owners after every step, and the stored state keeps its type.
LEMMA StoreStep ==
  ASSUME StoreTypeOK, MapPointsAtOwner, CachedViewFresh, UploadAccounted, [Next]_vars
  PROVE  StoreTypeOK' /\ MapPointsAtOwner'
<1>0. PointsAtOwner(committed, committedSet)
  BY DEF MapPointsAtOwner, PointsAtOwner
<1>1. ASSUME NEW s \in Slots, NEW g \in Generations, RegisterTurf(s, g)
      PROVE  StoreTypeOK' /\ MapPointsAtOwner'
  <2>1. turfGeneration' \in [Slots -> Nat] /\ turfOccupied' \in [Slots -> BOOLEAN]
    BY <1>1, GenerationsAssumption DEF RegisterTurf, StoreTypeOK
  <2>2. turfsLen' \in Nat
    BY <1>1, SlotsAssumption DEF RegisterTurf, StoreTypeOK
  <2> QED
    BY <1>1, <2>1, <2>2 DEF RegisterTurf, StoreTypeOK, MapPointsAtOwner, committedVars,
       uploadVars, stageVars
<1>2. ASSUME NEW s \in Slots, UnregisterTurf(s)
      PROVE  StoreTypeOK' /\ MapPointsAtOwner'
  BY <1>2 DEF UnregisterTurf, StoreTypeOK, MapPointsAtOwner, committedVars, uploadVars,
     stageVars
<1>3. ASSUME NEW e \in 0..MaxEpoch, NEW n \in 0..MaxLength, BeginFrontier(e, n)
      PROVE  StoreTypeOK' /\ MapPointsAtOwner'
  <2>1. e \in Int /\ n \in Nat
    BY BoundsAssumption
  <2>2. staging' \in [1..n -> Handle \cup {BlankHandle}]
    BY <1>3, <2>1, LenProperties, ElementOfSeq DEF BeginFrontier, StoreTypeOK
  <2>3. staging' \in Seq(Handle \cup {BlankHandle})
    BY <2>1, <2>2, FunctionIsSeq
  <2> QED
    BY <1>3, <2>1, <2>3 DEF BeginFrontier, StoreTypeOK, MapPointsAtOwner, committedVars,
       turfVars, stageVars
<1>4. ASSUME NEW e \in 0..MaxEpoch, NEW o \in 0..MaxLength, NEW b \in Batches,
             AppendFrontier(e, o, b)
      PROVE  StoreTypeOK' /\ MapPointsAtOwner'
  <2>1. /\ o \in Nat
        /\ Len(b) \in Nat
        /\ b \in [1..Len(b) -> Handle]
        /\ BatchElements(b) \subseteq Handle
    BY BoundsAssumption, BatchIsSeq
  <2>2. DOMAIN staging = 1..Len(staging) /\ Len(staging) \in Nat
        /\ \A i \in 1..Len(staging) : staging[i] \in Handle \cup {BlankHandle}
    BY LenProperties, ElementOfSeq DEF StoreTypeOK
  <2>3. staging' \in [1..Len(staging) -> Handle \cup {BlankHandle}]
    <3>1. staging' = [i \in 1..Len(staging) |->
                        IF i \in (o + 1)..(o + Len(b)) THEN b[i - o] ELSE staging[i]]
      BY <1>4, <2>2 DEF AppendFrontier
    <3>2. \A i \in (o + 1)..(o + Len(b)) : b[i - o] \in Handle
      BY <2>1
    <3> QED
      BY <3>1, <3>2, <2>2
  <2>4. staging' \in Seq(Handle \cup {BlankHandle})
    BY <2>2, <2>3, FunctionIsSeq
  <2>5. receivedBits' \in SUBSET Nat /\ uploadSeen' \in SUBSET Handle
        /\ uploadReceived' \in Nat
    <3>1. (o + 1)..(o + Len(b)) \subseteq Nat
      BY <2>1
    <3>2. /\ receivedBits' = receivedBits \cup ((o + 1)..(o + Len(b)))
          /\ uploadSeen' = uploadSeen \cup BatchElements(b)
          /\ uploadReceived' = uploadReceived + Len(b)
      BY <1>4 DEF AppendFrontier
    <3>3. receivedBits' \in SUBSET Nat
      BY <3>1, <3>2 DEF StoreTypeOK
    <3> QED
      BY <2>1, <3>2, <3>3 DEF StoreTypeOK
  <2> QED
    BY <1>4, <2>4, <2>5 DEF AppendFrontier, StoreTypeOK, MapPointsAtOwner, committedVars,
       turfVars, stageVars
<1>5. ASSUME NEW e \in 0..MaxEpoch, CommitFrontier(e)
      PROVE  StoreTypeOK' /\ MapPointsAtOwner'
  <2>1. uploadEpoch # -1 /\ e \in Int /\ uploadReceived = uploadExpected
    BY <1>5, BoundsAssumption DEF CommitFrontier
  <2>2. /\ DOMAIN staging = 1..Len(staging)
        /\ Len(staging) \in Nat
        /\ \A i, j \in DOMAIN staging : staging[i] = staging[j] => i = j
    BY <2>1, CompleteUpload DEF StoreTypeOK
  <2>3. staging \in [1..Len(staging) -> Handle]
    BY <1>5, <2>2, LenProperties DEF CommitFrontier, StoreTypeOK
  <2>4. staging \in Seq(Handle)
    BY <2>2, <2>3, FunctionIsSeq
  <2>5. Indexed(staging) \in [Handle -> Nat] /\ PointsAtOwner(staging, Indexed(staging))
    BY <2>2, <2>4, IndexSound
  <2>6. newestEpoch' \in Int
    BY <1>5, <2>1 DEF CommitFrontier, Newest, StoreTypeOK
  <2>7. <<>> \in Seq(Handle \cup {BlankHandle})
    BY EmptySeq
  <2>8. StoreTypeOK'
    BY <1>5, <2>1, <2>4, <2>5, <2>6, <2>7 DEF CommitFrontier, StoreTypeOK, turfVars, stageVars
  <2>9. MapPointsAtOwner'
    BY <1>5, <2>5 DEF CommitFrontier, PointsAtOwner, MapPointsAtOwner
  <2> QED
    BY <2>8, <2>9
<1>6. ASSUME NEW e \in 0..MaxEpoch, NEW b \in Batches, AddFrontier(e, b)
      PROVE  StoreTypeOK' /\ MapPointsAtOwner'
  <2>1. PICK keep \in Keeps(committed, committedSet) :
          /\ committed' = Compacted(keep, committed) \o b
          /\ committedSet' = Extended(Renumbered(keep, committedSet),
                                      Len(Compacted(keep, committed)), b)
    BY <1>6 DEF AddFrontier
  <2>2. /\ Compacted(keep, committed) \in Seq(Handle)
        /\ Renumbered(keep, committedSet) \in [Handle -> Nat]
        /\ PointsAtOwner(Compacted(keep, committed), Renumbered(keep, committedSet))
    BY <1>0, CompactionSound DEF StoreTypeOK
  <2>3. committedSet' \in [Handle -> Nat] /\ PointsAtOwner(committed', committedSet')
    BY <2>1, <2>2, ExtensionSound
  <2>4. committed' \in Seq(Handle)
    BY <2>1, <2>2, BatchIsSeq, ConcatProperties
  <2>5. e \in Int /\ newestEpoch' \in Int
    BY <1>6, BoundsAssumption DEF AddFrontier, Newest, StoreTypeOK
  <2> QED
    BY <1>6, <2>3, <2>4, <2>5 DEF AddFrontier, PointsAtOwner, MapPointsAtOwner, StoreTypeOK,
       turfVars, uploadVars, stageVars
<1>7. ASSUME NEW e \in 0..MaxEpoch, NEW b \in Batches, RemoveFrontier(e, b)
      PROVE  StoreTypeOK' /\ MapPointsAtOwner'
  <2>1. PICK keep \in Keeps(committed, Without(committedSet, b)) :
          /\ committed' = Compacted(keep, committed)
          /\ committedSet' = Renumbered(keep, Without(committedSet, b))
    BY <1>7 DEF RemoveFrontier
  <2>2. /\ Without(committedSet, b) \in [Handle -> Nat]
        /\ PointsAtOwner(committed, Without(committedSet, b))
    BY <1>0, RemovalSound DEF StoreTypeOK
  <2>3. /\ committed' \in Seq(Handle)
        /\ committedSet' \in [Handle -> Nat]
        /\ PointsAtOwner(committed', committedSet')
    BY <2>1, <2>2, CompactionSound DEF StoreTypeOK
  <2>4. e \in Int /\ newestEpoch' \in Int
    BY <1>7, BoundsAssumption DEF RemoveFrontier, Newest, StoreTypeOK
  <2> QED
    BY <1>7, <2>3, <2>4 DEF RemoveFrontier, PointsAtOwner, MapPointsAtOwner, StoreTypeOK,
       turfVars, uploadVars, stageVars
<1>8. ASSUME StageRejected
      PROVE  StoreTypeOK' /\ MapPointsAtOwner'
  BY <1>8 DEF StageRejected, AbortStage, StoreTypeOK, MapPointsAtOwner, turfVars, committedVars,
     uploadVars
<1>9. ASSUME NEW id \in StageIds, NEW e \in 0..MaxEpoch, NEW w \in 1..MaxBatch,
             StageChunk(id, e, w)
      PROVE  StoreTypeOK' /\ MapPointsAtOwner'
  <2>1. Len(CurrentView) \in Nat
    BY CurrentViewSeq
  <2>2. w \in Nat /\ e \in Int
    BY BoundsAssumption
  <2>3. stage' \in StageIds \cup {NoStage} /\ stageEpoch' \in Int /\ nextIndex' \in Nat
    BY <1>9, <2>1, <2>2 DEF StageChunk, AbortStage, StoreTypeOK
  <2> QED
    BY <1>9, <2>3 DEF StageChunk, StoreTypeOK, MapPointsAtOwner, turfVars, uploadVars
<1>10. CASE UNCHANGED vars
  BY <1>10 DEF vars, turfVars, committedVars, uploadVars, stageVars, StoreTypeOK,
     MapPointsAtOwner
<1> QED
  BY <1>1, <1>2, <1>3, <1>4, <1>5, <1>6, <1>7, <1>8, <1>9, <1>10 DEF Next

\* The upload's counter, bitmap, filter and staged handles agree after every step.
LEMMA UploadStep ==
  ASSUME StoreTypeOK, UploadAccounted, [Next]_vars
  PROVE  UploadAccounted'
<1>1. CASE UNCHANGED uploadVars
  BY <1>1 DEF uploadVars, UploadAccounted
<1>2. ASSUME NEW e \in 0..MaxEpoch, NEW n \in 0..MaxLength, BeginFrontier(e, n)
      PROVE  UploadAccounted'
  <2>1. n \in Nat
    BY BoundsAssumption
  <2>2. staging' \in [1..n -> Handle \cup {BlankHandle}]
    BY <1>2, <2>1, LenProperties, ElementOfSeq DEF BeginFrontier, StoreTypeOK
  <2>3. Len(staging') = n
    BY <2>1, <2>2, FunctionIsSeq
  <2> QED
    BY <1>2, <2>3, FS_EmptySet DEF BeginFrontier, UploadAccounted
<1>3. ASSUME NEW e \in 0..MaxEpoch, NEW o \in 0..MaxLength, NEW b \in Batches,
             AppendFrontier(e, o, b)
      PROVE  UploadAccounted'
  <2> DEFINE range == (o + 1)..(o + Len(b))
  <2>1. /\ o \in Nat
        /\ Len(b) \in Nat
        /\ DOMAIN b = 1..Len(b)
    BY BoundsAssumption, BatchIsSeq
  <2>2. uploadEpoch # -1
    BY <1>3, BoundsAssumption DEF AppendFrontier
  <2>3. /\ DOMAIN staging = 1..uploadExpected
        /\ uploadExpected \in Nat
        /\ Len(staging) = uploadExpected
        /\ receivedBits \subseteq 1..uploadExpected
        /\ uploadReceived = Cardinality(receivedBits)
        /\ uploadSeen = {staging[i] : i \in receivedBits}
        /\ \A i, j \in receivedBits : staging[i] = staging[j] => i = j
    BY <2>2, LenProperties DEF UploadAccounted, StoreTypeOK
  <2>4. range \subseteq 1..uploadExpected /\ range \cap receivedBits = {}
    BY <1>3, <2>1, <2>3 DEF AppendFrontier
  <2>5. /\ staging' = [i \in 1..uploadExpected |-> IF i \in range THEN b[i - o] ELSE staging[i]]
        /\ receivedBits' = receivedBits \cup range
        /\ uploadSeen' = uploadSeen \cup BatchElements(b)
        /\ uploadReceived' = uploadReceived + Len(b)
        /\ uploadExpected' = uploadExpected
        /\ BatchDistinct(b)
        /\ BatchElements(b) \cap uploadSeen = {}
    BY <1>3, <2>3 DEF AppendFrontier
  <2>6. Len(staging') = uploadExpected
    <3>1. staging' \in [1..uploadExpected -> {staging'[i] : i \in 1..uploadExpected}]
      BY <2>5
    <3> QED
      BY <3>1, <2>3, FunctionIsSeq
  <2>7. Cardinality(receivedBits') = uploadReceived + Len(b)
    <3>1. IsFiniteSet(range) /\ Cardinality(range) = Len(b)
      <4>1. o + 1 \in Int /\ o + Len(b) \in Int
        BY <2>1
      <4>2. /\ IsFiniteSet(range)
            /\ Cardinality(range) = IF o + 1 > o + Len(b) THEN 0 ELSE (o + Len(b)) - (o + 1) + 1
        BY <4>1, FS_Interval
      <4> QED
        BY <4>2, <2>1
    <3>2. IsFiniteSet(1..uploadExpected)
      BY <2>3, FS_Interval
    <3>3. IsFiniteSet(receivedBits)
      BY <3>2, <2>3, FS_Subset
    <3>4. Cardinality(receivedBits \cap range) = 0
      BY <2>4, FS_EmptySet
    <3>5. Cardinality(receivedBits) \in Nat
      BY <3>3, FS_CardinalityType
    <3> HIDE DEF range
    <3>6. Cardinality(receivedBits \cup range)
            = Cardinality(receivedBits) + Cardinality(range) - Cardinality(receivedBits \cap range)
      BY <3>1, <3>3, FS_Union
    <3> QED
      BY <3>1, <3>4, <3>5, <3>6, <2>1, <2>3, <2>5
  <2>8. /\ \A i \in receivedBits : staging'[i] = staging[i] /\ staging[i] \in uploadSeen
        /\ \A i \in range : /\ i - o \in DOMAIN b
                            /\ staging'[i] = b[i - o]
                            /\ b[i - o] \in BatchElements(b)
    <3>1. ASSUME NEW i \in receivedBits
          PROVE  staging'[i] = staging[i] /\ staging[i] \in uploadSeen
      BY <2>3, <2>4, <2>5
    <3>2. ASSUME NEW i \in range
          PROVE  i - o \in DOMAIN b /\ staging'[i] = b[i - o] /\ b[i - o] \in BatchElements(b)
      <4>1. i - o \in DOMAIN b
        BY <2>1
      <4>2. i \in 1..uploadExpected
        BY <2>4
      <4> QED
        BY <4>1, <4>2, <2>5 DEF BatchElements
    <3> QED
      BY <3>1, <3>2
  <2>9. BatchElements(b) = {staging'[i] : i \in range}
    <3>1. ASSUME NEW k \in DOMAIN b
          PROVE  k + o \in range /\ staging'[k + o] = b[k]
      <4>1. k + o \in range /\ (k + o) - o = k
        BY <2>1
      <4> QED
        BY <4>1, <2>8
    <3> HIDE DEF range
    <3> QED
      BY <3>1, <2>8 DEF BatchElements
  <2>10. uploadSeen' = {staging'[i] : i \in receivedBits'}
    <3> HIDE DEF range
    <3>1. uploadSeen = {staging'[i] : i \in receivedBits}
      BY <2>3, <2>8
    <3> QED
      BY <3>1, <2>5, <2>9
  <2>11. ASSUME NEW i \in receivedBits', NEW j \in receivedBits', staging'[i] = staging'[j]
         PROVE  i = j
    <3>1. CASE i \in receivedBits /\ j \in receivedBits
      BY <2>3, <2>8, <2>11, <3>1
    <3>2. CASE i \in range /\ j \in range
      <4>1. i - o = j - o
        BY <2>5, <2>8, <2>11, <3>2 DEF BatchDistinct
      <4> QED
        BY <4>1, <3>2, <2>1
    <3>3. CASE \/ i \in receivedBits /\ j \in range
               \/ j \in receivedBits /\ i \in range
      BY <2>5, <2>8, <2>11, <3>3
    <3> QED
      BY <3>1, <3>2, <3>3, <2>5
  <2>12. receivedBits' \subseteq 1..uploadExpected'
    BY <2>3, <2>4, <2>5
  <2> QED
    BY <2>5, <2>6, <2>7, <2>10, <2>11, <2>12 DEF UploadAccounted
<1>4. ASSUME NEW e \in 0..MaxEpoch, CommitFrontier(e)
      PROVE  UploadAccounted'
  BY <1>4 DEF CommitFrontier, UploadAccounted
<1>5. ASSUME NEW s \in Slots, NEW g \in Generations, RegisterTurf(s, g)
      PROVE  UNCHANGED uploadVars
  BY <1>5 DEF RegisterTurf
<1>6. ASSUME NEW s \in Slots, UnregisterTurf(s)
      PROVE  UNCHANGED uploadVars
  BY <1>6 DEF UnregisterTurf
<1>7. ASSUME NEW e \in 0..MaxEpoch, NEW b \in Batches, AddFrontier(e, b) \/ RemoveFrontier(e, b)
      PROVE  UNCHANGED uploadVars
  BY <1>7 DEF AddFrontier, RemoveFrontier
<1>8. ASSUME NEW id \in StageIds, NEW e \in 0..MaxEpoch, NEW w \in 1..MaxBatch,
             StageChunk(id, e, w)
      PROVE  UNCHANGED uploadVars
  BY <1>8 DEF StageChunk
<1>9. StageRejected \/ UNCHANGED vars => UNCHANGED uploadVars
  BY DEF StageRejected, vars
<1> QED
  BY <1>1, <1>2, <1>3, <1>4, <1>5, <1>6, <1>7, <1>8, <1>9 DEF Next

\* Without a cursor nothing has been visited.
IdleStage == stage = NoStage => nextIndex = 0 /\ visited = <<>>

\* The cached view and the walk of the cursor stay consistent with the committed
\* vector and map after every step.
LEMMA WalkStep ==
  ASSUME StoreTypeOK, CachedViewFresh, IdleStage, StageWalksOneFrontier, [Next]_vars
  PROVE  CachedViewFresh' /\ IdleStage' /\ StageWalksOneFrontier'
<1>1. CASE UNCHANGED <<committedVars, stageVars>>
  BY <1>1 DEF committedVars, stageVars, CachedViewFresh, IdleStage, StageWalksOneFrontier
<1>2. CASE /\ stage = NoStage
           /\ committedView' = NoView
           /\ UNCHANGED stageVars
  BY <1>2 DEF stageVars, CachedViewFresh, IdleStage, StageWalksOneFrontier
<1>3. ASSUME NEW e \in 0..MaxEpoch, CommitFrontier(e)
      PROVE  CachedViewFresh' /\ IdleStage' /\ StageWalksOneFrontier'
  BY <1>2, <1>3 DEF CommitFrontier
<1>4. ASSUME NEW e \in 0..MaxEpoch, NEW b \in Batches, AddFrontier(e, b) \/ RemoveFrontier(e, b)
      PROVE  CachedViewFresh' /\ IdleStage' /\ StageWalksOneFrontier'
  BY <1>2, <1>4 DEF AddFrontier, RemoveFrontier
<1>5. ASSUME StageRejected
      PROVE  CachedViewFresh' /\ IdleStage' /\ StageWalksOneFrontier'
  BY <1>5 DEF StageRejected, AbortStage, committedVars, CachedViewFresh, IdleStage,
     StageWalksOneFrontier
<1>6. ASSUME NEW id \in StageIds, NEW e \in 0..MaxEpoch, NEW w \in 1..MaxBatch,
             StageChunk(id, e, w)
      PROVE  CachedViewFresh' /\ IdleStage' /\ StageWalksOneFrontier'
  <2> DEFINE view == View(committed, committedSet)
             last == IF nextIndex + w < Len(view) THEN nextIndex + w ELSE Len(view)
  <2>1. /\ CurrentView = view
        /\ view \in Seq({view[k] : k \in DOMAIN view})
        /\ Len(view) \in Nat
    BY CurrentViewSeq
  <2>2. committedView' = view /\ UNCHANGED <<committed, committedSet, committedEpoch>>
    BY <1>6, <2>1 DEF StageChunk
  <2>3. CachedViewFresh'
    BY <2>2 DEF CachedViewFresh
  <2>4. nextIndex \in 0..Len(view) /\ visited = SubSeq(view, 1, nextIndex)
    <3>1. CASE stage = NoStage
      BY <3>1, <2>1, SubSeqEmpty DEF IdleStage
    <3>2. CASE stage # NoStage
      BY <3>2, <2>1 DEF StageWalksOneFrontier, StoreTypeOK
    <3> QED
      BY <3>1, <3>2
  <2>5. CASE AbortStage
    BY <2>5, <2>3 DEF AbortStage, IdleStage, StageWalksOneFrontier
  <2>6. CASE /\ stage' = id
             /\ stageEpoch' = e
             /\ nextIndex' = last
             /\ visited' = visited \o SubSeq(view, nextIndex + 1, last)
    <3>1. last \in nextIndex..Len(view)
      BY <2>1, <2>4, BoundsAssumption
    <3> HIDE DEF view, last
    <3>2. SubSeq(view, 1, nextIndex) \o SubSeq(view, nextIndex + 1, last) = SubSeq(view, 1, last)
      <4>1. 1 \in 1..(Len(view) + 1) /\ nextIndex \in (1 - 1)..Len(view)
        BY <2>1, <2>4
      <4> QED
        BY <4>1, <2>1, <3>1, ConcatAdjacentSubSeq
    <3>3. visited' = SubSeq(view, 1, last) /\ last <= Len(view)
      <4>1. visited' = SubSeq(view, 1, nextIndex) \o SubSeq(view, nextIndex + 1, last)
        BY <2>4, <2>6, Zenon
      <4>2. visited' = SubSeq(view, 1, last)
        BY <4>1, <3>2, Zenon
      <4>3. last <= Len(view)
        BY <2>1, <2>4, <3>1
      <4> QED
        BY <4>2, <4>3
    <3>4. View(committed, committedSet)' = view
      BY <2>2 DEF view
    <3>5. e = committedEpoch
      BY <1>6 DEF StageChunk
    <3>6. StageWalksOneFrontier'
      BY <2>2, <2>6, <3>3, <3>4, <3>5 DEF StageWalksOneFrontier
    <3>7. IdleStage'
      BY <2>6, StageAssumption DEF IdleStage
    <3> QED
      BY <2>3, <3>6, <3>7
  <2> QED
    BY <1>6, <2>1, <2>5, <2>6 DEF StageChunk
<1>7. ASSUME NEW s \in Slots, NEW g \in Generations, RegisterTurf(s, g)
      PROVE  UNCHANGED <<committedVars, stageVars>>
  BY <1>7 DEF RegisterTurf
<1>8. ASSUME NEW s \in Slots, UnregisterTurf(s)
      PROVE  UNCHANGED <<committedVars, stageVars>>
  BY <1>8 DEF UnregisterTurf
<1>9. ASSUME NEW e \in 0..MaxEpoch, NEW n \in 0..MaxLength, BeginFrontier(e, n)
      PROVE  UNCHANGED <<committedVars, stageVars>>
  BY <1>9 DEF BeginFrontier
<1>10. ASSUME NEW e \in 0..MaxEpoch, NEW o \in 0..MaxLength, NEW b \in Batches,
              AppendFrontier(e, o, b)
       PROVE  UNCHANGED <<committedVars, stageVars>>
  BY <1>10 DEF AppendFrontier
<1>11. UNCHANGED vars => UNCHANGED <<committedVars, stageVars>>
  BY DEF vars
<1> QED
  BY <1>1, <1>3, <1>4, <1>5, <1>6, <1>7, <1>8, <1>9, <1>10, <1>11 DEF Next

\* The inductive invariant: the map points at its owners only if a commit publishes
\* distinct handles, which is what the upload's accounting provides; a cursor walks
\* one frontier only if the cached view is fresh.
FrontierInv ==
  /\ StoreTypeOK
  /\ MapPointsAtOwner
  /\ UploadAccounted
  /\ CachedViewFresh
  /\ IdleStage
  /\ StageWalksOneFrontier

\* FrontierInv holds in every reachable state of frontier.rs behind world.rs.
THEOREM FrontierInvariant == Spec => []FrontierInv
<1>1. Init => FrontierInv
  <2> SUFFICES ASSUME Init PROVE FrontierInv
    OBVIOUS
  <2>1. StoreTypeOK
    BY EmptySeq DEF Init, StoreTypeOK
  <2> QED
    BY <2>1 DEF Init, FrontierInv, MapPointsAtOwner, UploadAccounted, CachedViewFresh,
       IdleStage, StageWalksOneFrontier
<1>2. FrontierInv /\ [Next]_vars => FrontierInv'
  BY StoreStep, UploadStep, WalkStep DEF FrontierInv
<1> QED
  BY <1>1, <1>2, PTL DEF Spec

\* The stored frontier, upload and cursor state always has its type.
THEOREM StoreTypeCorrect == Spec => []StoreTypeOK
  BY FrontierInvariant, PTL DEF FrontierInv

\* Every key of committed_set points at its own handle in the committed vector, so
\* compact()'s unwrap never fails and committed() never drops a member.
THEOREM MapSound == Spec => []MapPointsAtOwner
  BY FrontierInvariant, PTL DEF FrontierInv

\* The view cached by committed() is never stale.
THEOREM CacheSound == Spec => []CachedViewFresh
  BY FrontierInvariant, PTL DEF FrontierInv

\* A commit can publish no handle left over in staging from a cancelled upload.
THEOREM UploadSound == Spec => []UploadAccounted
  BY FrontierInvariant, PTL DEF FrontierInv

\* A resumable stage walks one frontier from its first chunk to its last.
THEOREM WalkSound == Spec => []StageWalksOneFrontier
  BY FrontierInvariant, PTL DEF FrontierInv

(***************************************************************************)
(* Size of the committed vector and of its membership                      *)
(***************************************************************************)

\* A duplicate-free sequence has as many elements as positions.
LEMMA DistinctCardinality ==
  ASSUME NEW S, NEW s \in Seq(S), \A i, j \in DOMAIN s : s[i] = s[j] => i = j
  PROVE  /\ IsFiniteSet({s[i] : i \in DOMAIN s})
         /\ Cardinality({s[i] : i \in DOMAIN s}) = Len(s)
<1> DEFINE T == {s[i] : i \in DOMAIN s}
<1>1. DOMAIN s = 1..Len(s) /\ Len(s) \in Nat /\ s \in [1..Len(s) -> S]
  BY LenProperties
<1>2. s \in [1..Len(s) -> T]
  BY <1>1
<1>3. s \in Bijection(1..Len(s), T)
  BY <1>1, <1>2 DEF Bijection, Injection, Surjection, IsInjective
<1>4. ExistsBijection(1..Len(s), T)
  BY <1>3 DEF ExistsBijection
<1>5. IsFiniteSet(1..Len(s)) /\ Cardinality(1..Len(s)) = Len(s)
  BY <1>1, FS_Interval
<1> QED
  BY <1>4, <1>5, FS_Bijection

\* The members are as many as the live positions, so finitely many.
LEMMA MembersCardinality ==
  ASSUME NEW vector \in Seq(Handle), NEW map \in [Handle -> Nat], PointsAtOwner(vector, map)
  PROVE  /\ IsFiniteSet(Members(map))
         /\ Cardinality(Members(map)) \in Nat
         /\ Cardinality(Members(map)) = Cardinality(LivePositions(vector, map))
<1> DEFINE S == Members(map)
           T == LivePositions(vector, map)
           f == [h \in S |-> map[h]]
<1>1. DOMAIN vector = 1..Len(vector) /\ \A i \in DOMAIN vector : vector[i] \in Handle
  BY LenProperties, ElementOfSeq
<1>2. \A h \in S : h \in Handle /\ map[h] \in T /\ vector[map[h]] = h
  BY DEF Members, LivePositions, PointsAtOwner
<1>3. \A i \in T : vector[i] \in S /\ map[vector[i]] = i
  BY <1>1 DEF Members, LivePositions
<1> HIDE DEF S, T
<1>4. f \in Injection(S, T)
  BY <1>2 DEF Injection, IsInjective
<1>5. f \in Surjection(S, T)
  <2>1. \A i \in T : \E h \in S : f[h] = i
    BY <1>3
  <2> QED
    BY <2>1, <1>2 DEF Surjection
<1>6. IsFiniteSet(T)
  BY LivePositionsFinite DEF T
<1>7. IsFiniteSet(S) /\ Cardinality(S) = Cardinality(T)
  BY <1>4, <1>5, <1>6, FS_Injection
<1> QED
  BY <1>7, FS_CardinalityType DEF S, T

\* After compact() the vector is at most twice as long as the membership.
LEMMA CompactionBounded ==
  ASSUME NEW vector \in Seq(Handle), NEW map \in [Handle -> Nat],
         PointsAtOwner(vector, map), NEW keep \in Keeps(vector, map)
  PROVE  Len(keep) \in Nat /\ Len(keep) <= 2 * Cardinality(Members(map))
<1>1. Len(vector) \in Nat
  BY LenProperties
<1>2. CASE Len(vector) <= 2 * Cardinality(Members(map))
  <2>1. keep = [i \in 1..Len(vector) |-> i]
    BY <1>2 DEF Keeps
  <2>2. keep \in [1..Len(vector) -> 1..Len(vector)]
    BY <2>1
  <2>3. Len(keep) = Len(vector)
    BY <1>1, <2>2, FunctionIsSeq
  <2> QED
    BY <1>1, <1>2, <2>3
<1>3. CASE ~(Len(vector) <= 2 * Cardinality(Members(map)))
  <2>1. keep \in [1..Cardinality(LivePositions(vector, map)) -> 1..Len(vector)]
    BY <1>3 DEF Keeps
  <2>2. Len(keep) = Cardinality(LivePositions(vector, map))
    BY <2>1, LivePositionsFinite, FunctionIsSeq
  <2> QED
    BY <2>2, MembersCardinality
<1> QED
  BY <1>2, <1>3

\* An open upload announced no more handles than there are turf slots.
UploadFits == uploadEpoch # -1 => uploadExpected <= turfsLen

\* The sizes stay bounded after every step.
LEMMA SizeStep ==
  ASSUME FrontierInv, UploadFits, TombstonesBounded, MembersWithinSlots, [Next]_vars
  PROVE  UploadFits' /\ TombstonesBounded' /\ MembersWithinSlots'
<1>0. /\ committed \in Seq(Handle)
      /\ committedSet \in [Handle -> Nat]
      /\ PointsAtOwner(committed, committedSet)
      /\ IsFiniteSet(Members(committedSet))
      /\ Cardinality(Members(committedSet)) \in Nat
      /\ turfsLen \in Nat
  BY MembersCardinality DEF FrontierInv, StoreTypeOK, MapPointsAtOwner, PointsAtOwner
<1>1. ASSUME turfsLen' \in Nat, turfsLen' >= turfsLen,
             UNCHANGED <<committed, committedSet, uploadEpoch, uploadExpected>>
      PROVE  UploadFits' /\ TombstonesBounded' /\ MembersWithinSlots'
  <2>1. Members(committedSet)' = Members(committedSet)
    BY <1>1 DEF Members
  <2> QED
    BY <1>0, <1>1, <2>1 DEF UploadFits, TombstonesBounded, MembersWithinSlots, FrontierInv,
       StoreTypeOK
<1>2. ASSUME NEW s \in Slots, NEW g \in Generations, RegisterTurf(s, g)
      PROVE  UploadFits' /\ TombstonesBounded' /\ MembersWithinSlots'
  <2>1. turfsLen' \in Nat /\ turfsLen' >= turfsLen
    BY <1>0, <1>2, SlotsAssumption DEF RegisterTurf
  <2> QED
    BY <1>1, <1>2, <2>1 DEF RegisterTurf, committedVars, uploadVars
<1>3. ASSUME NEW s \in Slots, UnregisterTurf(s)
      PROVE  UploadFits' /\ TombstonesBounded' /\ MembersWithinSlots'
  BY <1>0, <1>1, <1>3 DEF UnregisterTurf, committedVars, uploadVars
<1>4. ASSUME NEW e \in 0..MaxEpoch, NEW n \in 0..MaxLength, BeginFrontier(e, n)
      PROVE  UploadFits' /\ TombstonesBounded' /\ MembersWithinSlots'
  <2>1. Members(committedSet)' = Members(committedSet)
    BY <1>4 DEF BeginFrontier, committedVars, Members
  <2> QED
    BY <1>4, <2>1 DEF BeginFrontier, committedVars, turfVars, UploadFits, TombstonesBounded,
       MembersWithinSlots
<1>5. ASSUME NEW e \in 0..MaxEpoch, NEW o \in 0..MaxLength, NEW b \in Batches,
             AppendFrontier(e, o, b)
      PROVE  UploadFits' /\ TombstonesBounded' /\ MembersWithinSlots'
  BY <1>0, <1>1, <1>5 DEF AppendFrontier, committedVars, turfVars
<1>6. ASSUME NEW e \in 0..MaxEpoch, CommitFrontier(e)
      PROVE  UploadFits' /\ TombstonesBounded' /\ MembersWithinSlots'
  <2>1. uploadEpoch # -1 /\ uploadReceived = uploadExpected
    BY <1>6, BoundsAssumption DEF CommitFrontier
  <2>2. /\ DOMAIN staging = 1..uploadExpected
        /\ Len(staging) = uploadExpected
        /\ uploadExpected \in Nat
        /\ \A i, j \in DOMAIN staging : staging[i] = staging[j] => i = j
    BY <2>1, CompleteUpload DEF FrontierInv, StoreTypeOK
  <2>3. staging \in [1..uploadExpected -> Handle]
    BY <1>6, <2>2, LenProperties DEF CommitFrontier, FrontierInv, StoreTypeOK
  <2>4. staging \in Seq(Handle)
    BY <2>2, <2>3, FunctionIsSeq
  <2>5. Members(Indexed(staging)) = {staging[i] : i \in DOMAIN staging}
    BY <2>2, <2>4, IndexSound
  <2>6. Cardinality(Members(Indexed(staging))) = uploadExpected
    BY <2>2, <2>4, <2>5, DistinctCardinality
  <2>7. committed' = staging /\ committedSet' = Indexed(staging) /\ uploadEpoch' = -1
        /\ turfsLen' = turfsLen
    BY <1>6 DEF CommitFrontier, turfVars
  <2>8. Cardinality(Members(committedSet)') = uploadExpected
    BY <2>6, <2>7
  <2> QED
    BY <2>1, <2>2, <2>7, <2>8 DEF UploadFits, TombstonesBounded, MembersWithinSlots
<1>7. ASSUME NEW e \in 0..MaxEpoch, NEW b \in Batches, AddFrontier(e, b)
      PROVE  UploadFits' /\ TombstonesBounded' /\ MembersWithinSlots'
  <2> DEFINE old == Members(committedSet)
             new == BatchElements(b)
  <2>1. PICK keep \in Keeps(committed, committedSet) :
          /\ committed' = Compacted(keep, committed) \o b
          /\ committedSet' = Extended(Renumbered(keep, committedSet),
                                      Len(Compacted(keep, committed)), b)
    BY <1>7 DEF AddFrontier
  <2>2. /\ Compacted(keep, committed) \in Seq(Handle)
        /\ Len(Compacted(keep, committed)) = Len(keep)
        /\ Renumbered(keep, committedSet) \in [Handle -> Nat]
        /\ Members(Renumbered(keep, committedSet)) = old
        /\ PointsAtOwner(Compacted(keep, committed), Renumbered(keep, committedSet))
    BY <1>0, CompactionSound
  <2>3. Members(committedSet)' = old \cup new
    <3>1. Members(committedSet') = old \cup new
      BY <2>1, <2>2, ExtensionSound
    <3> QED
      BY <3>1 DEF Members
  <2>4. IsFiniteSet(new) /\ Cardinality(new) = Len(b) /\ Len(b) \in Nat
    <3>1. b \in Seq(Handle) /\ Len(b) \in Nat
      BY BatchIsSeq
    <3>2. \A i, j \in DOMAIN b : b[i] = b[j] => i = j
      BY <1>7 DEF AddFrontier, BatchDistinct
    <3> QED
      BY <3>1, <3>2, DistinctCardinality DEF BatchElements
  <2>5. Cardinality(old \cap new) = 0
    BY <1>7, FS_EmptySet DEF AddFrontier
  <2> HIDE DEF old, new
  <2>6. Cardinality(old \cup new) = Cardinality(old) + Len(b)
    <3>1. Cardinality(old \cup new) = Cardinality(old) + Cardinality(new) - Cardinality(old \cap new)
      BY <1>0, <2>4, FS_Union DEF old
    <3> QED
      BY <1>0, <2>4, <2>5, <3>1 DEF old
  <2>7. Len(keep) \in Nat /\ Len(keep) <= 2 * Cardinality(old)
    BY <1>0, CompactionBounded DEF old
  <2>8. Len(committed') = Len(keep) + Len(b)
    <3>1. b \in Seq(Handle)
      BY BatchIsSeq
    <3>2. Len(Compacted(keep, committed) \o b) = Len(Compacted(keep, committed)) + Len(b)
      BY <2>2, <3>1, ConcatProperties
    <3> QED
      BY <2>1, <2>2, <3>2
  <2>9. TombstonesBounded'
    BY <1>0, <2>3, <2>4, <2>6, <2>7, <2>8 DEF TombstonesBounded, old
  <2>10. MembersWithinSlots' /\ UploadFits'
    BY <1>7, <2>3, <2>6 DEF AddFrontier, MembersWithinSlots, UploadFits, uploadVars, turfVars, old
  <2> QED
    BY <2>9, <2>10
<1>8. ASSUME NEW e \in 0..MaxEpoch, NEW b \in Batches, RemoveFrontier(e, b)
      PROVE  UploadFits' /\ TombstonesBounded' /\ MembersWithinSlots'
  <2> DEFINE map == Without(committedSet, b)
  <2>1. PICK keep \in Keeps(committed, map) :
          /\ committed' = Compacted(keep, committed)
          /\ committedSet' = Renumbered(keep, map)
    BY <1>8 DEF RemoveFrontier
  <2>2. /\ map \in [Handle -> Nat]
        /\ PointsAtOwner(committed, map)
        /\ Members(map) \subseteq Members(committedSet)
    BY <1>0, RemovalSound
  <2> HIDE DEF map
  <2>3. /\ Len(committed') = Len(keep)
        /\ Members(committedSet') = Members(map)
    BY <1>0, <2>1, <2>2, CompactionSound
  <2>4. Members(committedSet)' = Members(map)
    BY <2>3 DEF Members
  <2>5. TombstonesBounded'
    BY <1>0, <2>2, <2>3, <2>4, CompactionBounded DEF TombstonesBounded
  <2>6. Cardinality(Members(map)) \in Nat
    BY <1>0, <2>2, MembersCardinality
  <2>7. Cardinality(Members(map)) <= Cardinality(Members(committedSet))
    BY <1>0, <2>2, FS_Subset
  <2>8. MembersWithinSlots' /\ UploadFits'
    BY <1>0, <1>8, <2>4, <2>6, <2>7 DEF RemoveFrontier, MembersWithinSlots, UploadFits,
       uploadVars, turfVars
  <2> QED
    BY <2>5, <2>8
<1>9. ASSUME NEW id \in StageIds, NEW e \in 0..MaxEpoch, NEW w \in 1..MaxBatch,
             StageChunk(id, e, w)
      PROVE  UploadFits' /\ TombstonesBounded' /\ MembersWithinSlots'
  BY <1>0, <1>1, <1>9 DEF StageChunk, turfVars, uploadVars
<1>10. ASSUME StageRejected \/ UNCHANGED vars
       PROVE  UploadFits' /\ TombstonesBounded' /\ MembersWithinSlots'
  BY <1>0, <1>1, <1>10 DEF StageRejected, vars, turfVars, committedVars, uploadVars
<1> QED
  BY <1>2, <1>3, <1>4, <1>5, <1>6, <1>7, <1>8, <1>9, <1>10 DEF Next

\* The sizes are bounded in every reachable state.
LEMMA SizesBounded == Spec => [](TombstonesBounded /\ MembersWithinSlots)
<1>1. Init => UploadFits /\ TombstonesBounded /\ MembersWithinSlots
  <2> SUFFICES ASSUME Init PROVE UploadFits /\ TombstonesBounded /\ MembersWithinSlots
    OBVIOUS
  <2>1. Members(committedSet) = {}
    BY DEF Init, Members
  <2>2. Cardinality(Members(committedSet)) = 0
    BY <2>1, FS_EmptySet
  <2> QED
    BY <2>2 DEF Init, UploadFits, TombstonesBounded, MembersWithinSlots
<1>2. /\ FrontierInv /\ UploadFits /\ TombstonesBounded /\ MembersWithinSlots
      /\ [Next]_vars
      => UploadFits' /\ TombstonesBounded' /\ MembersWithinSlots'
  BY SizeStep
<1> QED
  BY <1>1, <1>2, FrontierInvariant, PTL DEF Spec

\* Single removals never let tombstones outnumber the members of the frontier.
THEOREM TombstoneBound == Spec => []TombstonesBounded
  BY SizesBounded, PTL

\* The frontier never holds more handles than there are allocated turf slots.
THEOREM MembershipBound == Spec => []MembersWithinSlots
  BY SizesBounded, PTL

\* The committed store is sound: compaction, adds, removes and commits keep vector,
\* map and size together.
THEOREM StoreTheorem == Spec => []StoreSound
BY MapSound, TombstoneBound, MembershipBound, PTL DEF StoreSound

\* What a stage reads is the current frontier: the cache is dropped by every change
\* and no change happens under a cursor.
THEOREM ViewTheorem == Spec => []ViewSound
BY CacheSound, WalkSound, PTL DEF ViewSound

(***************************************************************************)
(* The view: the live entries in vector order                              *)
(***************************************************************************)

\* q lists the members of S in increasing order.
Lists(q, n, S) ==
  /\ q \in [1..n -> S]
  /\ \A k, l \in 1..n : k < l => q[k] < q[l]
  /\ \A i \in S : \E k \in 1..n : q[k] = i

\* The members of S up to the k-th of an increasing list are k.
LEMMA ListRanks ==
  ASSUME NEW S \in SUBSET Nat, NEW n \in Nat, NEW q, Lists(q, n, S)
  PROVE  /\ Cardinality(S) = n
         /\ \A k \in 1..n : Cardinality({j \in S : j <= q[k]}) = k
<1>1. /\ q \in [1..n -> S] /\ \A k, l \in 1..n : k < l => q[k] < q[l]
      /\ \A k, l \in 1..n : q[k] = q[l] => k = l
      /\ \A k \in 1..n : q[k] \in Nat
  <2>1. /\ q \in [1..n -> S] /\ \A k, l \in 1..n : k < l => q[k] < q[l]
        /\ \A k \in 1..n : q[k] \in Nat
    BY DEF Lists
  <2>2. ASSUME NEW k \in 1..n, NEW l \in 1..n, q[k] = q[l]
        PROVE  k = l
    <3>1. ~(k < l) /\ ~(l < k)
      BY <2>1, <2>2
    <3> QED
      BY <3>1
  <2> QED
    BY <2>1, <2>2
<1>2. ASSUME NEW m \in 0..n, NEW T, T = {q[k] : k \in 1..m}
      PROVE  Cardinality(T) = m
  <2> DEFINE f == [k \in 1..m |-> q[k]]
  <2>1. 1..m \subseteq 1..n /\ m \in Nat
    OBVIOUS
  <2>2. f \in Injection(1..m, T)
    BY <1>1, <1>2, <2>1 DEF Injection, IsInjective
  <2>3. f \in Surjection(1..m, T)
    BY <1>1, <1>2, <2>1 DEF Surjection
  <2>4. ExistsBijection(1..m, T)
    BY <2>2, <2>3 DEF Bijection, ExistsBijection
  <2>5. IsFiniteSet(1..m) /\ Cardinality(1..m) = m
    BY <2>1, FS_Interval
  <2> QED
    BY <2>4, <2>5, FS_Bijection
<1>3. S = {q[k] : k \in 1..n}
  <2>1. \A i \in S : i \in {q[k] : k \in 1..n}
    BY DEF Lists
  <2>2. \A k \in 1..n : q[k] \in S
    BY <1>1
  <2> QED
    BY <2>1, <2>2
<1>4. ASSUME NEW k \in 1..n
      PROVE  {j \in S : j <= q[k]} = {q[l] : l \in 1..k}
  <2>1. ASSUME NEW l \in 1..n
        PROVE  q[l] <= q[k] <=> l <= k
    <3>1. l < k => q[l] < q[k]
      BY <1>1
    <3>2. k < l => q[k] < q[l]
      BY <1>1
    <3>3. q[l] \in Nat /\ q[k] \in Nat /\ l \in Nat /\ k \in Nat
      BY <1>1
    <3>4. l = k => q[l] = q[k]
      OBVIOUS
    <3> QED
      BY <3>1, <3>2, <3>3, <3>4
  <2>2. \A l \in 1..n : l <= k <=> l \in 1..k
    OBVIOUS
  <2>3. 1..k \subseteq 1..n
    OBVIOUS
  <2> QED
    BY <1>3, <2>1, <2>2, <2>3
<1>5. ASSUME NEW k \in 1..n
      PROVE  Cardinality({j \in S : j <= q[k]}) = k
  <2>1. k \in 0..n
    OBVIOUS
  <2> QED
    BY <1>2, <1>4, <2>1
<1>6. n \in 0..n
  OBVIOUS
<1> QED
  BY <1>2, <1>3, <1>5, <1>6

\* Any finite set of positions can be listed in increasing order: the ranks of its
\* members are different, so they are all of 1..n.
LEMMA ListExists ==
  ASSUME NEW m \in Nat, NEW S \in SUBSET (1..m)
  PROVE  \E q : Lists(q, Cardinality(S), S)
<1> DEFINE n == Cardinality(S)
           upto(i) == {j \in S : j <= i}
           rank(i) == Cardinality(upto(i))
<1>0. \A i \in S : i \in Nat
  OBVIOUS
<1>1. IsFiniteSet(S) /\ n \in Nat
  <2>1. IsFiniteSet(1..m)
    BY FS_Interval
  <2> QED
    BY <2>1, FS_Subset, FS_CardinalityType
<1>2. ASSUME NEW i \in S
      PROVE  IsFiniteSet(upto(i)) /\ rank(i) \in 1..n
  <2>1. upto(i) \in SUBSET S /\ i \in upto(i)
    OBVIOUS
  <2>2. IsFiniteSet(upto(i)) /\ rank(i) <= n
    BY <1>1, <2>1, FS_Subset
  <2>3. rank(i) \in Nat /\ rank(i) # 0
    BY <2>1, <2>2, FS_CardinalityType, FS_EmptySet
  <2> QED
    BY <1>1, <2>2, <2>3
<1>3. ASSUME NEW i \in S, NEW j \in S, i < j
      PROVE  rank(i) < rank(j)
  <2>1. upto(i) \in SUBSET upto(j) /\ j \in upto(j) /\ j \notin upto(i)
    <3>1. \A x \in S : x <= i => x <= j
      BY <1>0, <1>3
    <3>2. j <= j /\ ~(j <= i)
      BY <1>0, <1>3
    <3> QED
      BY <3>1, <3>2
  <2>2. rank(i) <= rank(j) /\ rank(j) # rank(i)
    BY <1>2, <2>1, FS_Subset
  <2> QED
    BY <1>2, <2>2
<1> HIDE DEF n, rank, upto
<1> DEFINE r == [i \in S |-> rank(i)]
<1>4. r \in Injection(S, 1..n)
  <2>1. r \in [S -> 1..n]
    BY <1>2
  <2>2. ASSUME NEW i \in S, NEW j \in S, rank(i) = rank(j)
        PROVE  i = j
    <3>1. ~(i < j) /\ ~(j < i)
      BY <1>2, <1>3, <2>2
    <3> QED
      BY <3>1
  <2> QED
    BY <2>1, <2>2 DEF Injection, IsInjective
<1>5. IsFiniteSet(1..n) /\ Cardinality(1..n) = n
  BY <1>1, FS_Interval
<1>6. r \in Surjection(S, 1..n)
  <2>1. Cardinality(S) = Cardinality(1..n)
    BY <1>5 DEF n
  <2> HIDE DEF r
  <2> QED
    BY <1>4, <1>5, <2>1, FS_Injection
<1>7. \A k \in 1..n : \E i \in S : rank(i) = k
  BY <1>6 DEF Surjection
<1> DEFINE at(k) == CHOOSE i \in S : rank(i) = k
           q == [k \in 1..n |-> at(k)]
<1>8. \A k \in 1..n : at(k) \in S /\ rank(at(k)) = k
  BY <1>7
<1>9. ASSUME NEW i \in S
      PROVE  rank(i) \in 1..n /\ at(rank(i)) = i
  <2>1. rank(i) \in 1..n
    BY <1>2
  <2>2. at(rank(i)) \in S /\ rank(at(rank(i))) = rank(i)
    BY <1>8, <2>1
  <2>3. ~(at(rank(i)) < i) /\ ~(i < at(rank(i)))
    <3>1. ASSUME at(rank(i)) < i PROVE FALSE
      <4>1. rank(at(rank(i))) < rank(i)
        BY <1>3, <2>2, <3>1
      <4> QED
        BY <2>1, <2>2, <4>1
    <3>2. ASSUME i < at(rank(i)) PROVE FALSE
      <4>1. rank(i) < rank(at(rank(i)))
        BY <1>3, <2>2, <3>2
      <4> QED
        BY <2>1, <2>2, <4>1
    <3> QED
      BY <3>1, <3>2
  <2> QED
    BY <1>0, <2>1, <2>2, <2>3
<1> HIDE DEF at
<1>10. ASSUME NEW k \in 1..n, NEW l \in 1..n, k < l
       PROVE  at(k) < at(l)
  <2>1. at(k) \in S /\ at(l) \in S /\ rank(at(k)) = k /\ rank(at(l)) = l
    BY <1>8
  <2>2. ~(at(l) < at(k)) /\ at(l) # at(k)
    <3>1. at(l) < at(k) => rank(at(l)) < rank(at(k))
      BY <1>3, <2>1
    <3>2. at(l) = at(k) => k = l
      BY <2>1
    <3> QED
      BY <1>1, <1>10, <2>1, <3>1, <3>2
  <2>3. at(k) \in Nat /\ at(l) \in Nat
    BY <1>0, <2>1
  <2> QED
    BY <2>2, <2>3
<1>11. Lists(q, n, S)
  BY <1>8, <1>9, <1>10 DEF Lists
<1> HIDE DEF q
<1> QED
  BY <1>11 DEF n

\* The view is what an increasing list of the live positions selects.
LEMMA ViewByList ==
  ASSUME NEW vector \in Seq(Handle), NEW map, NEW n \in Nat, NEW q,
         Lists(q, n, LivePositions(vector, map))
  PROVE  View(vector, map) = [k \in 1..n |-> vector[q[k]]]
<1> DEFINE S == LivePositions(vector, map)
           nth(k) == CHOOSE i \in S : Cardinality({j \in S : j <= i}) = k
<1>1. S \in SUBSET Nat
  BY LenProperties DEF LivePositions
<1>2. Cardinality(S) = n /\ \A k \in 1..n : Cardinality({j \in S : j <= q[k]}) = k
  BY <1>1, ListRanks
<1>3. View(vector, map) = [k \in 1..Cardinality(S) |-> vector[nth(k)]]
  BY DEF View
<1> HIDE DEF S
<1>4. ASSUME NEW k \in 1..n
      PROVE  nth(k) = q[k]
  <2>1. q[k] \in S /\ Cardinality({j \in S : j <= q[k]}) = k
    BY <1>2 DEF Lists, S
  <2>2. nth(k) \in S /\ Cardinality({j \in S : j <= nth(k)}) = k
    BY <2>1
  <2>3. PICK l \in 1..n : q[l] = nth(k)
    BY <2>2 DEF Lists, S
  <2> QED
    BY <1>2, <2>2, <2>3
<1> HIDE DEF nth
<1> QED
  BY <1>2, <1>3, <1>4

\* Every view has such a list.
LEMMA ViewList ==
  ASSUME NEW vector \in Seq(Handle), NEW map
  PROVE  \E n \in Nat : \E q :
           /\ Lists(q, n, LivePositions(vector, map))
           /\ View(vector, map) = [k \in 1..n |-> vector[q[k]]]
           /\ View(vector, map) \in Seq(Handle) /\ Len(View(vector, map)) = n
           /\ \A k \in 1..n : q[k] \in 1..Len(vector) /\ vector[q[k]] \in Handle
<1> DEFINE S == LivePositions(vector, map)
           n == Cardinality(S)
<1>1. Len(vector) \in Nat /\ DOMAIN vector = 1..Len(vector)
  BY LenProperties
<1>2. S \in SUBSET (1..Len(vector)) /\ n \in Nat
  BY <1>1, LivePositionsFinite DEF LivePositions
<1> HIDE DEF S
<1>3. PICK q : Lists(q, n, S)
  BY <1>1, <1>2, ListExists
<1> HIDE DEF n
<1>4. View(vector, map) = [k \in 1..n |-> vector[q[k]]]
  BY <1>2, <1>3, ViewByList DEF S
<1>5. \A k \in 1..n : q[k] \in 1..Len(vector) /\ vector[q[k]] \in Handle
  BY <1>1, <1>2, <1>3, ElementOfSeq DEF Lists
<1>6. View(vector, map) \in [1..n -> Handle]
  BY <1>4, <1>5
<1>7. View(vector, map) \in Seq(Handle) /\ Len(View(vector, map)) = n
  BY <1>2, <1>6, FunctionIsSeq
<1> QED
  BY <1>2, <1>3, <1>4, <1>5, <1>7 DEF S

\* The view a stage is handed, and what it has walked of it, hold turf handles only.
\* That a view has an entry for every rank needs the pigeonhole principle.
THEOREM TypesTheorem == Spec => []TypeOK
<1>1. FrontierInv => TypeOK
  <2> SUFFICES ASSUME FrontierInv PROVE TypeOK
    OBVIOUS
  <2> DEFINE view == View(committed, committedSet)
  <2>1. StoreTypeOK /\ committed \in Seq(Handle) /\ nextIndex \in Nat
    BY DEF FrontierInv, StoreTypeOK
  <2>2. view \in Seq(Handle)
    BY <2>1, ViewList
  <2>3. committedView = NoView \/ committedView \in Seq(Handle)
    BY <2>2 DEF FrontierInv, CachedViewFresh
  <2> HIDE DEF view
  <2>4. CASE stage = NoStage
    <3>1. visited = << >>
      BY <2>4 DEF FrontierInv, IdleStage
    <3> QED
      BY <2>1, <2>3, <3>1, EmptySeq DEF TypeOK
  <2>5. CASE stage # NoStage
    <3>1. visited = SubSeq(view, 1, nextIndex) /\ nextIndex <= Len(view)
      BY <2>5 DEF FrontierInv, StageWalksOneFrontier, view
    <3>2. SubSeq(view, 1, nextIndex) \in Seq(Handle)
      BY <2>1, <2>2, <3>1, SubSeqProperties
    <3> QED
      BY <2>1, <2>3, <3>1, <3>2 DEF TypeOK
  <2> QED
    BY <2>4, <2>5
<1> QED
  BY <1>1, FrontierInvariant, PTL

(***************************************************************************)
(* Refinement: the frontier implements one replaceable snapshot            *)
(***************************************************************************)

\* compact() changes no view: what it drops is not live.
LEMMA CompactionView ==
  ASSUME NEW vector \in Seq(Handle), NEW map \in [Handle -> Nat],
         PointsAtOwner(vector, map), NEW keep \in Keeps(vector, map)
  PROVE  View(Compacted(keep, vector), Renumbered(keep, map)) = View(vector, map)
<1> DEFINE v2 == Compacted(keep, vector)
           map2 == Renumbered(keep, map)
           S == LivePositions(vector, map)
           S2 == LivePositions(v2, map2)
<1>1. PICK n \in Nat : keep \in [1..n -> 1..Len(vector)]
  BY KeepsType
<1>2. Len(vector) \in Nat /\ DOMAIN vector = 1..Len(vector)
      /\ \A i \in 1..Len(vector) : vector[i] \in Handle
  BY LenProperties, ElementOfSeq
<1>3. \A k, l \in 1..n : k < l => keep[k] < keep[l]
  <2>1. CASE Len(vector) <= 2 * Cardinality(Members(map))
    <3>1. keep = [i \in 1..Len(vector) |-> i]
      BY <2>1 DEF Keeps
    <3>2. \A k \in 1..n : keep[k] = k
      BY <1>1, <3>1
    <3> QED
      BY <3>2
  <2>2. CASE ~(Len(vector) <= 2 * Cardinality(Members(map)))
    BY <1>1, <2>2 DEF Keeps
  <2> QED
    BY <2>1, <2>2
<1>4. \A k, l \in 1..n : keep[k] = keep[l] => k = l
  <2> TAKE k, l \in 1..n
  <2> HAVE keep[k] = keep[l]
  <2>1. keep[k] \in Nat /\ keep[l] \in Nat
    BY <1>1, <1>2
  <2>2. ~(k < l) /\ ~(l < k)
    BY <1>3, <2>1
  <2> QED
    BY <2>2
<1>5. v2 \in Seq(Handle) /\ DOMAIN v2 = 1..n /\ \A k \in 1..n : v2[k] = vector[keep[k]]
  <2>1. v2 \in Seq(Handle)
    BY CompactionSound
  <2> QED
    BY <1>1, <2>1 DEF Compacted
<1>6. \A i \in S : \E k \in 1..n : keep[k] = i
  <2>1. S \subseteq {keep[k] : k \in DOMAIN keep} /\ DOMAIN keep = 1..n
    BY <1>1, KeepsType
  <2> QED
    BY <2>1
<1>7. ASSUME NEW k \in 1..n
      PROVE  k \in S2 <=> keep[k] \in S
  <2> DEFINE h == vector[keep[k]]
  <2>1. h \in Handle /\ keep[k] \in 1..Len(vector) /\ keep[k] # 0
    BY <1>1, <1>2
  <2>2. map2[h] = IF \E j \in DOMAIN keep : keep[j] = map[h]
                  THEN CHOOSE j \in DOMAIN keep : keep[j] = map[h]
                  ELSE map[h]
    BY <2>1 DEF Renumbered
  <2>3. k \in S2 <=> map2[h] = k
    BY <1>5 DEF LivePositions
  <2>4. keep[k] \in S <=> map[h] = keep[k]
    BY <1>2, <2>1 DEF LivePositions
  <2> HIDE DEF map2, h, S, S2
  <2>5. CASE \E j \in DOMAIN keep : keep[j] = map[h]
    <3>1. map2[h] \in 1..n /\ keep[map2[h]] = map[h]
      BY <1>1, <2>2, <2>5
    <3> QED
      BY <1>4, <2>3, <2>4, <3>1
  <2>6. CASE ~ \E j \in DOMAIN keep : keep[j] = map[h]
    <3>1. map[h] # keep[k] /\ map2[h] = map[h]
      BY <1>1, <2>2, <2>6
    <3>2. map[h] = 0
      <4>1. map[h] # 0 => map[h] \in S
        BY <2>1 DEF PointsAtOwner, LivePositions, S
      <4> QED
        BY <1>1, <1>6, <2>6, <4>1
    <3> QED
      BY <2>3, <2>4, <3>1, <3>2
  <2> QED
    BY <2>5, <2>6
<1>8. S2 \subseteq 1..n
  BY <1>5 DEF LivePositions
<1>9n. PICK m \in Nat : \E q : /\ Lists(q, m, S)
                               /\ View(vector, map) = [k \in 1..m |-> vector[q[k]]]
  BY ViewList
<1>9. PICK q : /\ Lists(q, m, S)
               /\ View(vector, map) = [k \in 1..m |-> vector[q[k]]]
  BY <1>9n
<1> HIDE DEF S, S2, map2, v2
<1> DEFINE at(k) == CHOOSE j \in 1..n : keep[j] = q[k]
           p == [k \in 1..m |-> at(k)]
<1>10. \A k \in 1..m : q[k] \in S /\ at(k) \in 1..n /\ keep[at(k)] = q[k] /\ at(k) \in S2
  <2> TAKE k \in 1..m
  <2>1. q[k] \in S
    BY <1>9 DEF Lists
  <2>2. at(k) \in 1..n /\ keep[at(k)] = q[k]
    BY <1>6, <2>1
  <2> QED
    BY <1>7, <2>1, <2>2
<1> HIDE DEF at
<1>11. Lists(p, m, S2)
  <2>1. p \in [1..m -> S2]
    BY <1>10
  <2>2. ASSUME NEW k \in 1..m, NEW l \in 1..m, k < l
        PROVE  at(k) < at(l)
    <3>1. q[k] < q[l]
      BY <1>9, <2>2 DEF Lists
    <3>2. keep[at(k)] < keep[at(l)] /\ at(k) \in 1..n /\ at(l) \in 1..n
      BY <1>10, <3>1
    <3>3. keep[at(k)] \in Nat /\ keep[at(l)] \in Nat
      BY <1>1, <1>2, <3>2
    <3>4. at(l) < at(k) => keep[at(l)] < keep[at(k)]
      BY <1>3, <3>2
    <3>5. at(l) # at(k)
      BY <3>2, <3>3
    <3> QED
      BY <3>2, <3>3, <3>4, <3>5
  <2>3. ASSUME NEW j \in S2
        PROVE  \E k \in 1..m : at(k) = j
    <3>1. j \in 1..n /\ keep[j] \in S
      BY <1>7, <1>8
    <3>2. PICK k \in 1..m : q[k] = keep[j]
      BY <1>9, <3>1 DEF Lists
    <3> QED
      BY <1>4, <1>10, <3>1, <3>2
  <2> QED
    BY <2>1, <2>2, <2>3 DEF Lists
<1>12. View(v2, map2) = [k \in 1..m |-> v2[p[k]]]
  <2> HIDE DEF p
  <2> QED
    BY <1>5, <1>9, <1>11, ViewByList DEF S2
<1>13. \A k \in 1..m : v2[p[k]] = vector[q[k]]
  BY <1>5, <1>10
<1> HIDE DEF p
<1>14. View(v2, map2) = View(vector, map)
  BY <1>9, <1>12, <1>13
<1> QED
  BY <1>14 DEF v2, map2

\* add() puts the new handles behind the view.
LEMMA ExtensionView ==
  ASSUME NEW vector \in Seq(Handle), NEW map \in [Handle -> Nat],
         PointsAtOwner(vector, map), NEW handles \in Batches, BatchDistinct(handles),
         BatchElements(handles) \cap Members(map) = {}
  PROVE  View(vector \o handles, Extended(map, Len(vector), handles))
           = View(vector, map) \o handles
<1> DEFINE v2 == vector \o handles
           map2 == Extended(map, Len(vector), handles)
           a == Len(vector)
           b == Len(handles)
           S == LivePositions(vector, map)
           S2 == LivePositions(v2, map2)
<1>1. /\ a \in Nat /\ DOMAIN vector = 1..a /\ \A i \in 1..a : vector[i] \in Handle
      /\ handles \in Seq(Handle) /\ b \in Nat /\ DOMAIN handles = 1..b
      /\ \A i \in 1..b : handles[i] \in Handle
  BY LenProperties, ElementOfSeq, BatchIsSeq
<1>2. /\ v2 \in Seq(Handle) /\ DOMAIN v2 = 1..a + b
      /\ \A i \in 1..a : v2[i] = vector[i]
      /\ \A i \in 1..b : v2[a + i] = handles[i]
  <2>1. /\ v2 \in Seq(Handle) /\ Len(v2) = a + b
        /\ \A i \in 1..a + b : v2[i] = IF i <= a THEN vector[i] ELSE handles[i - a]
    BY <1>1, ConcatProperties
  <2>2. DOMAIN v2 = 1..a + b
    BY <2>1, LenProperties
  <2> HIDE DEF v2
  <2>3. \A i \in 1..a : v2[i] = vector[i]
    BY <1>1, <2>1
  <2>4. ASSUME NEW i \in 1..b
        PROVE  v2[a + i] = handles[i]
    <3>1. a + i \in 1..a + b /\ ~(a + i <= a) /\ (a + i) - a = i
      BY <1>1
    <3> QED
      BY <2>1, <3>1
  <2> QED
    BY <2>1, <2>2, <2>3, <2>4
<1>3. \A i \in 1..b : map2[handles[i]] = a + i
  <2> TAKE i \in 1..b
  <2>1. handles[i] \in BatchElements(handles)
    BY <1>1 DEF BatchElements
  <2>2. \A j \in 1..b : handles[j] = handles[i] => j = i
    BY <1>1 DEF BatchDistinct
  <2>3. (CHOOSE j \in DOMAIN handles : handles[j] = handles[i]) = i
    BY <1>1, <2>2
  <2> QED
    BY <1>1, <2>1, <2>3 DEF Extended
<1>4. ASSUME NEW i \in 1..a
      PROVE  i \in S2 <=> i \in S
  <2> DEFINE h == vector[i]
  <2>1. h \in Handle /\ v2[i] = h /\ i \in 1..a + b /\ i # 0
    BY <1>1, <1>2
  <2>2. CASE h \in BatchElements(handles)
    <3>1. PICK j \in 1..b : handles[j] = h
      BY <1>1, <2>2 DEF BatchElements
    <3>2. map2[h] = a + j /\ map[h] = 0
      BY <1>3, <2>1, <2>2, <3>1 DEF Members
    <3>3. map2[h] # i /\ map[h] # i
      BY <1>1, <2>1, <3>2
    <3> QED
      BY <1>1, <1>2, <2>1, <3>3 DEF LivePositions
  <2>3. CASE h \notin BatchElements(handles)
    <3>1. map2[h] = map[h]
      BY <2>1, <2>3 DEF Extended
    <3> QED
      BY <1>1, <1>2, <2>1, <3>1 DEF LivePositions
  <2> QED
    BY <2>2, <2>3
<1>5. ASSUME NEW i \in 1..b
      PROVE  a + i \in S2
  <2>1. a + i \in 1..a + b
    BY <1>1
  <2> QED
    BY <1>2, <1>3, <2>1 DEF LivePositions
<1>6n. PICK n \in Nat : \E q : /\ Lists(q, n, S)
                               /\ View(vector, map) = [k \in 1..n |-> vector[q[k]]]
                               /\ View(vector, map) \in Seq(Handle) /\ Len(View(vector, map)) = n
                               /\ \A k \in 1..n : q[k] \in 1..a /\ vector[q[k]] \in Handle
  BY ViewList
<1>6. PICK q : /\ Lists(q, n, S)
               /\ View(vector, map) = [k \in 1..n |-> vector[q[k]]]
               /\ View(vector, map) \in Seq(Handle) /\ Len(View(vector, map)) = n
               /\ \A k \in 1..n : q[k] \in 1..a /\ vector[q[k]] \in Handle
  BY <1>6n
<1>7. S2 \subseteq 1..a + b
  BY <1>2 DEF LivePositions
<1> HIDE DEF S, S2, map2, v2, a, b
<1> DEFINE p == [k \in 1..n + b |-> IF k <= n THEN q[k] ELSE a + (k - n)]
<1>8. /\ \A k \in 1..n : k \in 1..n + b /\ p[k] = q[k]
      /\ \A k \in 1..b : n + k \in 1..n + b /\ p[n + k] = a + k
  <2>1. ASSUME NEW k \in 1..b
        PROVE  n + k \in 1..n + b /\ ~(n + k <= n) /\ (n + k) - n = k
    BY <1>1
  <2> QED
    BY <1>1, <2>1
<1>9. \A k \in 1..n + b : k \in 1..n \/ \E j \in 1..b : k = n + j
  <2> TAKE k \in 1..n + b
  <2>1. CASE k <= n
    BY <2>1
  <2>2. CASE ~(k <= n)
    <3>1. k - n \in 1..b /\ k = n + (k - n)
      BY <1>1, <2>2
    <3> QED
      BY <3>1
  <2> QED
    BY <2>1, <2>2
<1>10. \A k \in 1..n : q[k] \in S /\ q[k] \in 1..a /\ q[k] \in S2
  BY <1>4, <1>6 DEF Lists
<1>11. p \in [1..n + b -> S2]
  <2>1. ASSUME NEW k \in 1..n + b
        PROVE  p[k] \in S2
    <3>1. CASE k \in 1..n
      BY <1>8, <1>10, <3>1
    <3>2. ASSUME NEW j \in 1..b, k = n + j
          PROVE  p[k] \in S2
      BY <1>5, <1>8, <3>2
    <3> QED
      BY <1>9, <3>1, <3>2
  <2> QED
    BY <2>1
<1> HIDE DEF p
<1>12. Lists(p, n + b, S2)
  <2>1. ASSUME NEW k \in 1..n + b, NEW l \in 1..n + b, k < l
        PROVE  p[k] < p[l]
    <3>1. CASE k \in 1..n /\ l \in 1..n
      BY <1>6, <1>8, <2>1, <3>1 DEF Lists
    <3>2. ASSUME k \in 1..n, NEW j \in 1..b, l = n + j
          PROVE  p[k] < p[l]
      <4>1. p[k] = q[k] /\ p[l] = a + j /\ q[k] \in 1..a
        BY <1>8, <1>10, <3>2
      <4> QED
        BY <1>1, <4>1
    <3>3. ASSUME NEW i \in 1..b, k = n + i, NEW j \in 1..b, l = n + j
          PROVE  p[k] < p[l]
      <4>1. p[k] = a + i /\ p[l] = a + j
        BY <1>8, <3>3
      <4>2. i < j /\ i \in Nat /\ j \in Nat
        BY <1>1, <2>1, <3>3
      <4> QED
        BY <1>1, <4>1, <4>2
    <3>4. ASSUME NEW i \in 1..b, k = n + i, l \in 1..n
          PROVE  FALSE
      BY <1>1, <2>1, <3>4
    <3> QED
      BY <1>9, <3>1, <3>2, <3>3, <3>4
  <2>2. ASSUME NEW i \in S2
        PROVE  \E k \in 1..n + b : p[k] = i
    <3>1. CASE i <= a
      <4>1. i \in 1..a /\ i \in S
        BY <1>1, <1>4, <1>7, <3>1
      <4>2. PICK k \in 1..n : q[k] = i
        BY <1>6, <4>1 DEF Lists
      <4> QED
        BY <1>8, <4>2
    <3>2. CASE ~(i <= a)
      <4>1. i - a \in 1..b /\ i = a + (i - a)
        BY <1>1, <1>7, <3>2
      <4> QED
        BY <1>8, <4>1
    <3> QED
      BY <3>1, <3>2
  <2> QED
    BY <1>11, <2>1, <2>2 DEF Lists
<1>13. View(v2, map2) = [k \in 1..n + b |-> v2[p[k]]]
  <2> DEFINE m == n + b
  <2>1. m \in Nat /\ Lists(p, m, LivePositions(v2, map2)) /\ v2 \in Seq(Handle)
    BY <1>1, <1>2, <1>12 DEF S2
  <2> HIDE DEF m
  <2>2. View(v2, map2) = [k \in 1..m |-> v2[p[k]]]
    BY <2>1, ViewByList
  <2> QED
    BY <2>2 DEF m
<1> DEFINE w == View(vector, map) \o handles
<1>14. /\ w \in Seq(Handle) /\ Len(w) = n + b
       /\ \A k \in 1..n : w[k] = vector[q[k]]
       /\ \A k \in 1..b : w[n + k] = handles[k]
  <2>1. /\ w \in Seq(Handle) /\ Len(w) = n + b
        /\ \A k \in 1..n + b : w[k] = IF k <= n THEN View(vector, map)[k] ELSE handles[k - n]
    BY <1>1, <1>6, ConcatProperties DEF b
  <2> HIDE DEF w
  <2>2. ASSUME NEW k \in 1..b
        PROVE  n + k \in 1..n + b /\ ~(n + k <= n) /\ (n + k) - n = k
    BY <1>1
  <2>3. \A k \in 1..n : k \in 1..n + b /\ k <= n
    BY <1>1
  <2>4. \A k \in 1..n : w[k] = View(vector, map)[k]
    BY <2>1, <2>3
  <2>5. \A k \in 1..n : View(vector, map)[k] = vector[q[k]]
    BY <1>6
  <2> QED
    BY <2>1, <2>2, <2>4, <2>5
<1> HIDE DEF w
<1>15. \A k \in 1..n + b : v2[p[k]] = w[k]
  <2> TAKE k \in 1..n + b
  <2>1. CASE k \in 1..n
    BY <1>2, <1>8, <1>10, <1>14, <2>1
  <2>2. ASSUME NEW j \in 1..b, k = n + j
        PROVE  v2[p[k]] = w[k]
    BY <1>2, <1>8, <1>14, <2>2
  <2> QED
    BY <1>9, <2>1, <2>2
<1>16. w = [k \in 1..n + b |-> w[k]]
  BY <1>14, LenProperties
<1>17. View(v2, map2) = w
  BY <1>13, <1>15, <1>16
<1> QED
  BY <1>17 DEF v2, map2, w, a

\* new holds some of the entries of old, in their order.
Thinned(old, new) ==
  \E kept \in [1..Len(new) -> 1..Len(old)] :
    /\ \A i, j \in DOMAIN kept : i < j => kept[i] < kept[j]
    /\ \A i \in DOMAIN kept : new[i] = old[kept[i]]

\* remove() thins the view out, and the handles that stay keep their order.
LEMMA RemovalView ==
  ASSUME NEW vector \in Seq(Handle), NEW map \in [Handle -> Nat],
         PointsAtOwner(vector, map), NEW handles
  PROVE  Thinned(View(vector, map), View(vector, Without(map, handles)))
<1> DEFINE map2 == Without(map, handles)
           old == View(vector, map)
           new == View(vector, map2)
           S == LivePositions(vector, map)
           S2 == LivePositions(vector, map2)
<1>1. S2 \subseteq S /\ S \subseteq Nat
  <2>1. Len(vector) \in Nat /\ DOMAIN vector = 1..Len(vector)
        /\ \A i \in 1..Len(vector) : vector[i] \in Handle
    BY LenProperties, ElementOfSeq
  <2>2. \A i \in 1..Len(vector) : map2[vector[i]] = i => map[vector[i]] = i
    BY <2>1 DEF Without
  <2> QED
    BY <2>1, <2>2 DEF LivePositions
<1>2n. PICK n \in Nat : \E q : Lists(q, n, S) /\ old = [k \in 1..n |-> vector[q[k]]] /\ Len(old) = n
  BY ViewList
<1>2. PICK q : Lists(q, n, S) /\ old = [k \in 1..n |-> vector[q[k]]] /\ Len(old) = n
  BY <1>2n
<1>3n. PICK m \in Nat : \E p : Lists(p, m, S2) /\ new = [k \in 1..m |-> vector[p[k]]] /\ Len(new) = m
  BY ViewList
<1>3. PICK p : Lists(p, m, S2) /\ new = [k \in 1..m |-> vector[p[k]]] /\ Len(new) = m
  BY <1>3n
<1> HIDE DEF map2, old, new, S, S2
<1> DEFINE at(k) == CHOOSE l \in 1..n : q[l] = p[k]
           kept == [k \in 1..m |-> at(k)]
<1>4. \A k \in 1..m : at(k) \in 1..n /\ q[at(k)] = p[k] /\ p[k] \in Nat
  <2> TAKE k \in 1..m
  <2>1. p[k] \in S /\ p[k] \in Nat
    BY <1>1, <1>3 DEF Lists
  <2>2. \E l \in 1..n : q[l] = p[k]
    BY <1>2, <2>1 DEF Lists
  <2> QED
    BY <2>1, <2>2
<1> HIDE DEF at
<1>5. ASSUME NEW i \in 1..m, NEW j \in 1..m, i < j
      PROVE  at(i) < at(j)
  <2>1. p[i] < p[j] /\ p[i] \in Nat /\ p[j] \in Nat
    BY <1>3, <1>4, <1>5 DEF Lists
  <2>2. at(j) < at(i) => p[j] < p[i]
    BY <1>2, <1>4 DEF Lists
  <2>3. at(j) = at(i) => p[j] = p[i]
    BY <1>4
  <2> QED
    BY <1>4, <2>1, <2>2, <2>3
<1>6. \A i \in 1..m : new[i] = old[at(i)]
  BY <1>2, <1>3, <1>4
<1>7. /\ kept \in [1..m -> 1..n] /\ DOMAIN kept = 1..m
      /\ \A i, j \in DOMAIN kept : i < j => kept[i] < kept[j]
      /\ \A i \in DOMAIN kept : new[i] = old[kept[i]]
  BY <1>4, <1>5, <1>6
<1> HIDE DEF kept
<1>8. Thinned(old, new)
  BY <1>2, <1>3, <1>7 DEF Thinned
<1> QED
  BY <1>8 DEF old, new, map2

\* A vector of distinct handles with its index is its own view.
LEMMA IndexedView ==
  ASSUME NEW vector \in Seq(Handle),
         \A i, j \in DOMAIN vector : vector[i] = vector[j] => i = j
  PROVE  View(vector, Indexed(vector)) = vector
<1> DEFINE n == Len(vector)
           q == [k \in 1..n |-> k]
           map == Indexed(vector)
<1>1. n \in Nat /\ DOMAIN vector = 1..n /\ \A i \in 1..n : vector[i] \in Handle
  BY LenProperties, ElementOfSeq
<1>2. ASSUME NEW i \in 1..n
      PROVE  map[vector[i]] = i
  <2>1. vector[i] \in Members(map)
    BY <1>1, IndexSound
  <2>2. map[vector[i]] \in DOMAIN vector /\ vector[map[vector[i]]] = vector[i]
    BY <1>1, <2>1, IndexSound DEF PointsAtOwner, Members
  <2> QED
    BY <1>1, <2>2
<1>3. LivePositions(vector, map) = 1..n
  BY <1>1, <1>2 DEF LivePositions
<1>4. Lists(q, n, LivePositions(vector, map))
  BY <1>1, <1>3 DEF Lists
<1>5. View(vector, map) = [k \in 1..n |-> vector[q[k]]]
  <2> HIDE DEF q, n, map
  <2> QED
    BY <1>1, <1>4, ViewByList
<1>6. \A k \in 1..n : vector[q[k]] = vector[k]
  OBVIOUS
<1>7. vector = [k \in 1..n |-> vector[k]]
  BY <1>1
<1> QED
  BY <1>5, <1>6, <1>7

\* The upload as the snapshot sees it.
Offered == IF uploadEpoch = -1
           THEN [epoch |-> -1, size |-> 0, parts |-> <<>>]
           ELSE [epoch |-> uploadEpoch, size |-> uploadExpected,
                 parts |-> [i \in receivedBits |-> staging[i]]]
CommittedView == View(committed, committedSet)
Walking == stage # NoStage

\* A step that changes none of them is a stutter of the snapshot.
LEMMA SnapshotStutters ==
  ASSUME UNCHANGED <<committedEpoch, committed, committedSet, uploadEpoch, uploadExpected,
                     staging, receivedBits, stage>>
  PROVE  UNCHANGED Snapshot!vars
  BY DEF Snapshot!vars

\* begin_frontier offers a newer upload with no part received.
LEMMA BeginOffers ==
  ASSUME FrontierInv, NEW e \in 0..MaxEpoch, NEW n \in 0..MaxLength, BeginFrontier(e, n)
  PROVE  Snapshot!Next
<1>1. e \in Nat /\ e # -1 /\ uploadEpoch' = e /\ uploadExpected' = n /\ receivedBits' = {}
  BY BoundsAssumption DEF BeginFrontier
<1>2. Offered' = [epoch |-> e, size |-> n, parts |-> [i \in {} |-> staging'[i]]]
  BY <1>1 DEF Offered
<1>3. [i \in {} |-> staging'[i]] = << >>
  OBVIOUS
<1>4. Offered'.epoch = e /\ Offered'.parts = << >>
  BY <1>2, <1>3
<1>5. Offered.epoch = uploadEpoch
  BY DEF Offered
<1>6. Snapshot!Offer
  <2>1. e > committedEpoch /\ e > uploadEpoch /\ stage = NoStage
    BY DEF BeginFrontier
  <2>2. UNCHANGED <<CommittedView, committedEpoch, Walking>>
    BY DEF BeginFrontier, committedVars, stageVars, CommittedView, Walking
  <2> QED
    BY <1>4, <1>5, <2>1, <2>2 DEF Snapshot!Offer, Offered, CommittedView, Walking
<1> QED
  BY <1>6 DEF Snapshot!Next

\* append_frontier receives parts and overwrites none.
LEMMA AppendReceives ==
  ASSUME FrontierInv, UploadAccounted', NEW e \in 0..MaxEpoch, NEW o \in 0..MaxLength,
         NEW b \in Batches, AppendFrontier(e, o, b)
  PROVE  Snapshot!Next
<1> DEFINE range == (o + 1)..(o + Len(b))
<1>1. /\ uploadEpoch = e /\ uploadEpoch' = e /\ e \in Nat /\ e # -1
      /\ uploadExpected' = uploadExpected
      /\ range \cap receivedBits = {} /\ receivedBits' = receivedBits \cup range
      /\ staging' = [i \in DOMAIN staging |-> IF i \in range THEN b[i - o] ELSE staging[i]]
  BY BoundsAssumption DEF AppendFrontier
<1>2. receivedBits \subseteq DOMAIN staging
  <2>1. receivedBits \subseteq 1..uploadExpected /\ Len(staging) = uploadExpected
    BY <1>1 DEF FrontierInv, UploadAccounted
  <2> QED
    BY <2>1, LenProperties DEF FrontierInv, StoreTypeOK
<1> HIDE DEF range
<1>3. \A i \in receivedBits : staging'[i] = staging[i]
  BY <1>1, <1>2
<1>4. /\ Offered = [epoch |-> e, size |-> uploadExpected,
                    parts |-> [i \in receivedBits |-> staging[i]]]
      /\ Offered' = [epoch |-> e, size |-> uploadExpected,
                     parts |-> [i \in receivedBits' |-> staging'[i]]]
  BY <1>1 DEF Offered
<1>5. receivedBits' \subseteq 1..uploadExpected /\ receivedBits \subseteq receivedBits'
  BY <1>1 DEF UploadAccounted
<1>6. \A i, j \in receivedBits' : staging'[i] = staging'[j] => i = j
  BY <1>1 DEF UploadAccounted
<1>7. Snapshot!Receive
  <2>1. /\ Offered.epoch # -1 /\ Offered'.epoch = Offered.epoch
        /\ Offered'.size = Offered.size
        /\ DOMAIN Offered'.parts \subseteq 1..Offered.size
        /\ DOMAIN Offered.parts \subseteq DOMAIN Offered'.parts
        /\ \A i \in DOMAIN Offered.parts : Offered'.parts[i] = Offered.parts[i]
    BY <1>1, <1>3, <1>4, <1>5
  <2>2. Snapshot!Distinct(Offered'.parts)
    BY <1>4, <1>6 DEF Snapshot!Distinct
  <2>3. UNCHANGED <<CommittedView, committedEpoch, Walking>>
    BY DEF AppendFrontier, committedVars, stageVars, CommittedView, Walking
  <2> QED
    BY <2>1, <2>2, <2>3 DEF Snapshot!Receive, Offered, CommittedView, Walking
<1> QED
  BY <1>7 DEF Snapshot!Next

\* commit_frontier replaces the snapshot by the whole upload.
LEMMA CommitReplaces ==
  ASSUME FrontierInv, NEW e \in 0..MaxEpoch, CommitFrontier(e)
  PROVE  Snapshot!Next
<1>1. /\ uploadEpoch = e /\ e \in Nat /\ e # -1 /\ uploadReceived = uploadExpected
      /\ committed' = staging /\ committedSet' = Indexed(staging) /\ committedEpoch' = e
      /\ uploadEpoch' = -1 /\ stage = NoStage /\ stage' = stage
      /\ \A i \in DOMAIN staging : staging[i] \in Handle
  BY BoundsAssumption DEF CommitFrontier, stageVars
<1>2. /\ receivedBits = 1..uploadExpected /\ DOMAIN staging = 1..uploadExpected
      /\ \A i, j \in DOMAIN staging : staging[i] = staging[j] => i = j
  BY <1>1, CompleteUpload DEF FrontierInv
<1>3. staging \in Seq(Handle) /\ staging = [i \in 1..uploadExpected |-> staging[i]]
  <2>1. uploadExpected \in Nat /\ staging \in Seq(Handle \cup {BlankHandle})
    BY DEF FrontierInv, StoreTypeOK
  <2>2. staging = [i \in 1..uploadExpected |-> staging[i]]
    BY <1>2, <2>1
  <2>3. staging \in [1..uploadExpected -> Handle]
    BY <1>1, <1>2, <2>2
  <2> QED
    BY <2>1, <2>2, <2>3, FunctionIsSeq
<1>4. CommittedView' = staging
  <2>1. View(staging, Indexed(staging)) = staging
    BY <1>2, <1>3, IndexedView
  <2> QED
    BY <1>1, <2>1 DEF CommittedView
<1>5. /\ Offered = [epoch |-> e, size |-> uploadExpected,
                    parts |-> [i \in receivedBits |-> staging[i]]]
      /\ Offered' = [epoch |-> -1, size |-> 0, parts |-> << >>]
  BY <1>1 DEF Offered
<1>6. /\ DOMAIN Offered.parts = 1..Offered.size
      /\ [i \in 1..Offered.size |-> Offered.parts[i]] = [i \in 1..uploadExpected |-> staging[i]]
      /\ Offered.epoch = e
  BY <1>2, <1>5
<1>7. Snapshot!Replace
  <2>1. ~Walking /\ UNCHANGED Walking
    BY <1>1 DEF Walking
  <2>2. Offered' = Snapshot!NoUpload
    BY <1>5 DEF Snapshot!NoUpload
  <2>3. CommittedView' = [i \in 1..Offered.size |-> Offered.parts[i]]
    BY <1>3, <1>4, <1>6
  <2> QED
    BY <1>1, <1>6, <2>1, <2>2, <2>3 DEF Snapshot!Replace, Offered, CommittedView, Walking
<1> QED
  BY <1>7 DEF Snapshot!Next

\* The view is a sequence of distinct handles.
LEMMA ViewDistinct ==
  ASSUME NEW vector \in Seq(Handle), NEW map
  PROVE  Snapshot!Distinct(View(vector, map))
<1>1n. PICK n \in Nat : \E q : /\ Lists(q, n, LivePositions(vector, map))
                               /\ View(vector, map) = [k \in 1..n |-> vector[q[k]]]
  BY ViewList
<1>1. PICK q : /\ Lists(q, n, LivePositions(vector, map))
               /\ View(vector, map) = [k \in 1..n |-> vector[q[k]]]
  BY <1>1n
<1>2. \A k \in 1..n : map[vector[q[k]]] = q[k] /\ q[k] \in Nat
  BY <1>1, LenProperties DEF Lists, LivePositions
<1>3. ASSUME NEW k \in 1..n, NEW l \in 1..n, vector[q[k]] = vector[q[l]]
      PROVE  k = l
  <2>1. q[k] = q[l]
    BY <1>2, <1>3
  <2>2. ~(k < l) /\ ~(l < k)
    BY <1>1, <1>2, <2>1 DEF Lists
  <2> QED
    BY <2>2
<1> QED
  BY <1>1, <1>3 DEF Snapshot!Distinct

\* add_frontier extends the snapshot.
LEMMA AddExtends ==
  ASSUME FrontierInv, StoreTypeOK', NEW e \in 0..MaxEpoch, NEW b \in Batches, AddFrontier(e, b)
  PROVE  Snapshot!Next
<1>1. committed \in Seq(Handle) /\ committedSet \in [Handle -> Nat]
      /\ PointsAtOwner(committed, committedSet) /\ committed' \in Seq(Handle)
  BY DEF FrontierInv, StoreTypeOK, MapPointsAtOwner, PointsAtOwner
<1>2. /\ stage = NoStage /\ UNCHANGED <<stage, uploadEpoch, uploadExpected, receivedBits, staging>>
      /\ committedEpoch' = e /\ e > committedEpoch
      /\ BatchDistinct(b) /\ BatchElements(b) \cap Members(committedSet) = {}
  BY DEF AddFrontier, stageVars, uploadVars
<1>3. PICK keep \in Keeps(committed, committedSet) :
        /\ committed' = Compacted(keep, committed) \o b
        /\ committedSet' = Extended(Renumbered(keep, committedSet),
                                    Len(Compacted(keep, committed)), b)
  BY DEF AddFrontier
<1> DEFINE v2 == Compacted(keep, committed)
           map2 == Renumbered(keep, committedSet)
<1>4. /\ v2 \in Seq(Handle) /\ map2 \in [Handle -> Nat] /\ PointsAtOwner(v2, map2)
      /\ Members(map2) = Members(committedSet)
  BY <1>1, CompactionSound
<1>5. View(v2, map2) = CommittedView
  BY <1>1, CompactionView DEF CommittedView
<1>6. CommittedView' = View(committed', committedSet')
  BY DEF CommittedView
<1> HIDE DEF v2, map2
<1>7. CommittedView' = CommittedView \o b
  <2>1. View(v2 \o b, Extended(map2, Len(v2), b)) = View(v2, map2) \o b
    BY <1>2, <1>4, ExtensionView
  <2> QED
    BY <1>3, <1>5, <1>6, <2>1 DEF v2, map2
<1> DEFINE old == CommittedView
           new == CommittedView'
<1>8. old \in Seq(Handle) /\ new \in Seq(Handle)
  <2>1. \A vector \in Seq(Handle) : \A map : View(vector, map) \in Seq(Handle)
    BY ViewList
  <2> QED
    BY <1>1, <1>6, <2>1 DEF CommittedView
<1>9. Snapshot!Distinct(new)
  BY <1>1, <1>6, ViewDistinct
<1>10. b \in Seq(Handle)
  BY BatchIsSeq
<1> HIDE DEF old, new
<1>11. new = old \o b
  BY <1>7 DEF old, new
<1>12. Len(new) >= Len(old) /\ SubSeq(new, 1, Len(old)) = old
  <2>1. Len(old) \in Nat /\ Len(b) \in Nat /\ DOMAIN old = 1..Len(old)
    BY <1>8, <1>10, LenProperties
  <2>2. Len(new) = Len(old) + Len(b) /\ \A i \in 1..Len(old) : new[i] = old[i]
    BY <1>8, <1>10, <1>11, <2>1, ConcatProperties
  <2>3. /\ SubSeq(new, 1, Len(old)) \in Seq(Handle) /\ Len(SubSeq(new, 1, Len(old))) = Len(old)
        /\ \A i \in 1..Len(old) : SubSeq(new, 1, Len(old))[i] = new[i]
    BY <1>8, <2>1, <2>2, SubSeqProperties
  <2>4. SubSeq(new, 1, Len(old)) = old
    BY <1>8, <2>2, <2>3, SeqEqual
  <2> QED
    BY <2>1, <2>2, <2>4
<1>13. Snapshot!Elements(new) \subseteq Handle
  BY <1>8, ElementOfSeq, LenProperties DEF Snapshot!Elements
<1>14. Snapshot!Extend
  <2>1. ~Walking /\ UNCHANGED <<Offered, Walking>>
    BY <1>2 DEF Walking, Offered
  <2> QED
    BY <1>2, <1>9, <1>12, <1>13, <2>1
       DEF Snapshot!Extend, Offered, CommittedView, Walking, old, new
<1> QED
  BY <1>14 DEF Snapshot!Next

\* remove_frontier thins the snapshot out.
LEMMA RemoveShrinks ==
  ASSUME FrontierInv, StoreTypeOK', NEW e \in 0..MaxEpoch, NEW b \in Batches,
         RemoveFrontier(e, b)
  PROVE  Snapshot!Next
<1>1. committed \in Seq(Handle) /\ committedSet \in [Handle -> Nat]
      /\ PointsAtOwner(committed, committedSet) /\ committed' \in Seq(Handle)
  BY DEF FrontierInv, StoreTypeOK, MapPointsAtOwner, PointsAtOwner
<1>2. /\ stage = NoStage /\ UNCHANGED <<stage, uploadEpoch, uploadExpected, receivedBits, staging>>
      /\ committedEpoch' = e /\ e > committedEpoch
  BY DEF RemoveFrontier, stageVars, uploadVars
<1> DEFINE map2 == Without(committedSet, b)
           old == CommittedView
           new == CommittedView'
<1>3. PICK keep \in Keeps(committed, map2) :
        committed' = Compacted(keep, committed) /\ committedSet' = Renumbered(keep, map2)
  BY DEF RemoveFrontier
<1>4. map2 \in [Handle -> Nat] /\ PointsAtOwner(committed, map2)
  BY <1>1, RemovalSound
<1> HIDE DEF map2
<1>5. new = View(committed, map2)
  BY <1>1, <1>3, <1>4, CompactionView DEF CommittedView
<1>6. \E kept \in [1..Len(new) -> 1..Len(old)] :
        /\ \A i, j \in DOMAIN kept : i < j => kept[i] < kept[j]
        /\ \A i \in DOMAIN kept : new[i] = old[kept[i]]
  <2> HIDE DEF new, old
  <2>1. old = View(committed, committedSet) /\ new = View(committed, Without(committedSet, b))
    BY <1>5 DEF old, CommittedView, map2
  <2>2. Thinned(View(committed, committedSet), View(committed, Without(committedSet, b)))
    BY <1>1, RemovalView
  <2> QED
    BY <2>1, <2>2 DEF Thinned
<1>7. old \in Seq(Handle) /\ new \in Seq(Handle)
  <2>1. \A vector \in Seq(Handle) : \A map : View(vector, map) \in Seq(Handle)
    BY ViewList
  <2> QED
    BY <1>1, <1>5, <2>1 DEF CommittedView
<1> HIDE DEF old, new
<1>8. new \in Seq(Snapshot!Elements(old))
  <2>1. PICK kept \in [1..Len(new) -> 1..Len(old)] :
          \A i \in DOMAIN kept : new[i] = old[kept[i]]
    BY <1>6
  <2>2. DOMAIN new = 1..Len(new) /\ DOMAIN old = 1..Len(old) /\ Len(new) \in Nat
    BY <1>7, LenProperties
  <2>3. \A i \in 1..Len(new) : new[i] \in Snapshot!Elements(old)
    BY <2>1, <2>2 DEF Snapshot!Elements
  <2>4. new = [i \in 1..Len(new) |-> new[i]]
    BY <1>7, <2>2
  <2>5. new \in [1..Len(new) -> Snapshot!Elements(old)]
    BY <2>3, <2>4
  <2> QED
    BY <2>2, <2>5, FunctionIsSeq
<1>9. Snapshot!Shrink
  <2>1. ~Walking /\ UNCHANGED <<Offered, Walking>>
    BY <1>2 DEF Walking, Offered
  <2> QED
    BY <1>2, <1>6, <1>8, <2>1 DEF Snapshot!Shrink, Offered, CommittedView, Walking, old, new
<1> QED
  BY <1>9 DEF Snapshot!Next

\* A stage that starts, advances, ends or is rejected leaves the snapshot alone.
LEMMA StageWalks ==
  ASSUME UNCHANGED <<committedEpoch, committed, committedSet, uploadVars>>
  PROVE  Snapshot!Next
<1>1. UNCHANGED <<CommittedView, committedEpoch, Offered>> /\ Walking' \in BOOLEAN
  BY DEF uploadVars, CommittedView, Offered, Walking
<1>2. Snapshot!Walk
  BY <1>1 DEF Snapshot!Walk, CommittedView, Offered, Walking
<1> QED
  BY <1>2 DEF Snapshot!Next

\* The vector, the map, the tombstones, the scratch of the upload and the cached view
\* together implement one snapshot: replaced whole, extended at its end, thinned out in
\* order, and fixed while a stage walks it.
THEOREM SnapshotTheorem == Spec => SnapshotSpec
<1>1. Init => Snapshot!Init
  <2> SUFFICES ASSUME Init PROVE Snapshot!Init
    OBVIOUS
  <2>1. committed = << >> /\ committedEpoch = -1 /\ uploadEpoch = -1 /\ stage = NoStage
    BY DEF Init
  <2>2. LivePositions(<< >>, committedSet) = {} /\ << >> \in Seq(Handle)
    BY EmptySeq DEF LivePositions
  <2>3. Cardinality({}) = 0
    BY FS_EmptySet
  <2>4n. PICK n \in Nat : \E q : /\ Lists(q, n, LivePositions(<< >>, committedSet))
                                 /\ View(<< >>, committedSet) \in Seq(Handle)
                                 /\ Len(View(<< >>, committedSet)) = n
    BY <2>2, ViewList
  <2>4. PICK q : /\ Lists(q, n, LivePositions(<< >>, committedSet))
                 /\ View(<< >>, committedSet) \in Seq(Handle)
                 /\ Len(View(<< >>, committedSet)) = n
    BY <2>4n
  <2>5. View(<< >>, committedSet) = << >>
    <3>1. n = 0
      BY <2>2, <2>3, <2>4, ListRanks
    <3> QED
      BY <2>4, <3>1, EmptySeq
  <2> QED
    BY <2>1, <2>5 DEF Snapshot!Init, Snapshot!NoUpload
<1>2. FrontierInv /\ FrontierInv' /\ [Next]_vars => [Snapshot!Next]_(Snapshot!vars)
  <2> SUFFICES ASSUME FrontierInv, FrontierInv', [Next]_vars
               PROVE  Snapshot!Next \/ UNCHANGED Snapshot!vars
    OBVIOUS
  <2>1. ASSUME NEW s \in Slots, NEW g \in Generations, RegisterTurf(s, g)
        PROVE  UNCHANGED Snapshot!vars
    BY <2>1, SnapshotStutters DEF RegisterTurf, committedVars, uploadVars, stageVars
  <2>2. ASSUME NEW s \in Slots, UnregisterTurf(s)
        PROVE  UNCHANGED Snapshot!vars
    BY <2>2, SnapshotStutters DEF UnregisterTurf, committedVars, uploadVars, stageVars
  <2>3. ASSUME NEW e \in 0..MaxEpoch, NEW n \in 0..MaxLength, BeginFrontier(e, n)
        PROVE  Snapshot!Next
    BY <2>3, BeginOffers
  <2>4. ASSUME NEW e \in 0..MaxEpoch, NEW o \in 0..MaxLength, NEW b \in Batches,
               AppendFrontier(e, o, b)
        PROVE  Snapshot!Next
    BY <2>4, AppendReceives DEF FrontierInv
  <2>5. ASSUME NEW e \in 0..MaxEpoch, CommitFrontier(e)
        PROVE  Snapshot!Next
    BY <2>5, CommitReplaces
  <2>6. ASSUME NEW e \in 0..MaxEpoch, NEW b \in Batches, AddFrontier(e, b)
        PROVE  Snapshot!Next
    BY <2>6, AddExtends DEF FrontierInv
  <2>7. ASSUME NEW e \in 0..MaxEpoch, NEW b \in Batches, RemoveFrontier(e, b)
        PROVE  Snapshot!Next
    BY <2>7, RemoveShrinks DEF FrontierInv
  <2>8. ASSUME StageRejected
        PROVE  Snapshot!Next
    BY <2>8, StageWalks DEF StageRejected, committedVars
  <2>9. ASSUME NEW id \in StageIds, NEW e \in 0..MaxEpoch, NEW w \in 1..MaxBatch,
               StageChunk(id, e, w)
        PROVE  Snapshot!Next
    BY <2>9, StageWalks DEF StageChunk
  <2>10. UNCHANGED vars => UNCHANGED Snapshot!vars
    BY SnapshotStutters DEF vars, committedVars, uploadVars, stageVars
  <2> QED
    BY <2>1, <2>2, <2>3, <2>4, <2>5, <2>6, <2>7, <2>8, <2>9, <2>10, Zenon DEF Next
<1> QED
  BY <1>1, <1>2, FrontierInvariant, PTL DEF Spec, SnapshotSpec, Snapshot!Spec
=============================================================================
