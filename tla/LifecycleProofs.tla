-------------------------- MODULE LifecycleProofs ---------------------------
(***************************************************************************)
(* Proofs about the registered world, for any slots, generations and room  *)
(* for neighbours: every index of it is what a scan would find.  Then the  *)
(* adjacency request of the service: what a batch leaves is what it asked  *)
(* for, and its firelock pass takes what its first pass took.              *)
(***************************************************************************)
EXTENDS MCLifecycle, SequenceTheorems, FiniteSetTheorems, WellFoundedInduction, TLAPS

(***************************************************************************)
(* Handles and records.                                                    *)
(***************************************************************************)
\* A handle is its slot and its generation; the absent handle is of no slot.
LEMMA TurfHandleFacts ==
  /\ \A h \in TurfHandles : h.slot \in TurfSlots /\ h.gen \in Generations
                            /\ h = Handle(h.slot, h.gen)
  /\ \A s, g : Handle(s, g).slot = s /\ Handle(s, g).gen = g
  BY DEF TurfHandles, Handle

LEMMA MixtureHandleFacts ==
  ASSUME LifecycleConstants
  PROVE  /\ \A h \in MixtureHandles : h.slot \in MixtureSlots /\ h.gen \in Generations
                                      /\ h = Handle(h.slot, h.gen)
         /\ NoHandle \notin MixtureHandles
<1>1. \A h \in MixtureHandles : h.slot \in MixtureSlots /\ h.gen \in Generations
                                /\ h = Handle(h.slot, h.gen)
  BY DEF MixtureHandles, Handle
<1>2. NoHandle.slot = 0 /\ 0 \notin MixtureSlots
  BY DEF NoHandle, Handle, LifecycleConstants
<1> QED
  BY <1>1, <1>2

TurfRecords ==
  [gen : Nat, live : BOOLEAN, mixture : MixtureHandles \union {NoHandle},
   heat : Heats \union {NoHeat}, index : Nat]

\* What changes when one field of a turf's record is set.
LEMMA TurfRecordFields ==
  ASSUME NEW r \in TurfRecords
  PROVE  /\ \A i \in Nat :
              /\ [r EXCEPT !.index = i] \in TurfRecords /\ [r EXCEPT !.index = i].index = i
              /\ [r EXCEPT !.index = i].gen = r.gen /\ [r EXCEPT !.index = i].live = r.live
              /\ [r EXCEPT !.index = i].mixture = r.mixture
              /\ [r EXCEPT !.index = i].heat = r.heat
         /\ \A x \in Heats \union {NoHeat} :
              /\ [r EXCEPT !.heat = x] \in TurfRecords /\ [r EXCEPT !.heat = x].index = r.index
              /\ [r EXCEPT !.heat = x].gen = r.gen /\ [r EXCEPT !.heat = x].live = r.live
              /\ [r EXCEPT !.heat = x].mixture = r.mixture
              /\ [r EXCEPT !.heat = x].heat = x
         /\ \A m \in MixtureHandles \union {NoHandle} :
              /\ [r EXCEPT !.mixture = m] \in TurfRecords
              /\ [r EXCEPT !.mixture = m].index = r.index
              /\ [r EXCEPT !.mixture = m].gen = r.gen /\ [r EXCEPT !.mixture = m].live = r.live
              /\ [r EXCEPT !.mixture = m].mixture = m
              /\ [r EXCEPT !.mixture = m].heat = r.heat
<1>1. ASSUME NEW i \in Nat
      PROVE  /\ [r EXCEPT !.index = i] \in TurfRecords /\ [r EXCEPT !.index = i].index = i
             /\ [r EXCEPT !.index = i].gen = r.gen /\ [r EXCEPT !.index = i].live = r.live
             /\ [r EXCEPT !.index = i].mixture = r.mixture
             /\ [r EXCEPT !.index = i].heat = r.heat
  BY DEF TurfRecords
<1>2. ASSUME NEW x \in Heats \union {NoHeat}
      PROVE  /\ [r EXCEPT !.heat = x] \in TurfRecords /\ [r EXCEPT !.heat = x].index = r.index
             /\ [r EXCEPT !.heat = x].gen = r.gen /\ [r EXCEPT !.heat = x].live = r.live
             /\ [r EXCEPT !.heat = x].mixture = r.mixture
             /\ [r EXCEPT !.heat = x].heat = x
  BY DEF TurfRecords
<1>3. ASSUME NEW m \in MixtureHandles \union {NoHandle}
      PROVE  /\ [r EXCEPT !.mixture = m] \in TurfRecords
             /\ [r EXCEPT !.mixture = m].index = r.index
             /\ [r EXCEPT !.mixture = m].gen = r.gen /\ [r EXCEPT !.mixture = m].live = r.live
             /\ [r EXCEPT !.mixture = m].mixture = m
             /\ [r EXCEPT !.mixture = m].heat = r.heat
  BY DEF TurfRecords
<1> QED
  BY <1>1, <1>2, <1>3

(***************************************************************************)
(* The list of the turfs that superconduct, for any turfs and any list.    *)
(***************************************************************************)
Lists(T, A) ==
  /\ \A i \in DOMAIN A :
       /\ T[A[i].slot].gen = A[i].gen /\ T[A[i].slot].live
       /\ T[A[i].slot].heat # NoHeat /\ T[A[i].slot].index = i
  /\ \A s \in TurfSlots : T[s].index # 0 =>
       T[s].index \in DOMAIN A /\ A[T[s].index] = Handle(s, T[s].gen)

Listed(T, A) ==
  T \in [TurfSlots -> TurfRecords] /\ A \in Seq(TurfHandles) /\ Lists(T, A)

\* A turf that is not on the list may change as it likes, as long as it stays off.
LEMMA SetOffList ==
  ASSUME NEW T, NEW A, Listed(T, A), NEW slot \in TurfSlots, T[slot].index = 0,
         NEW r \in TurfRecords, r.index = 0
  PROVE  Listed([T EXCEPT ![slot] = r], A)
<1> DEFINE T2 == [T EXCEPT ![slot] = r]
<1>1. T2 \in [TurfSlots -> TurfRecords] /\ \A s \in TurfSlots : T2[s] = IF s = slot THEN r ELSE T[s]
  BY DEF Listed
<1>2. \A i \in DOMAIN A : A[i].slot \in TurfSlots /\ A[i].slot # slot
  <2> TAKE i \in DOMAIN A
  <2>1. A[i] \in TurfHandles /\ i # 0
    BY ElementOfSeq, LenProperties DEF Listed
  <2> QED
    BY <2>1, TurfHandleFacts DEF Listed, Lists
<1> HIDE DEF T2
<1>3. Lists(T2, A)
  BY <1>1, <1>2 DEF Listed, Lists
<1> QED
  BY <1>1, <1>3 DEF Listed, T2

\* A turf on the list may change what the list does not depend on.
LEMMA SetOnList ==
  ASSUME NEW T, NEW A, Listed(T, A), NEW slot \in TurfSlots,
         NEW r \in TurfRecords, r.index = T[slot].index, r.gen = T[slot].gen,
         T[slot].live => r.live, T[slot].heat # NoHeat => r.heat # NoHeat
  PROVE  Listed([T EXCEPT ![slot] = r], A)
<1> DEFINE T2 == [T EXCEPT ![slot] = r]
<1>1. T2 \in [TurfSlots -> TurfRecords] /\ \A s \in TurfSlots : T2[s] = IF s = slot THEN r ELSE T[s]
  BY DEF Listed
<1>2. \A i \in DOMAIN A : A[i].slot \in TurfSlots
  BY ElementOfSeq, LenProperties, TurfHandleFacts DEF Listed
<1> HIDE DEF T2
<1>3. Lists(T2, A)
  BY <1>1, <1>2 DEF Listed, Lists
<1> QED
  BY <1>1, <1>3 DEF Listed, T2

\* A turf that joins the list goes to its end.
LEMMA AppendToList ==
  ASSUME NEW T, NEW A, Listed(T, A), NEW h \in TurfHandles, T[h.slot].index = 0,
         NEW r \in TurfRecords, r.index = Len(A) + 1, r.gen = h.gen, r.live, r.heat # NoHeat
  PROVE  Listed([T EXCEPT ![h.slot] = r], Append(A, h))
<1> DEFINE T2 == [T EXCEPT ![h.slot] = r]
           A2 == Append(A, h)
           n == Len(A)
<1>0. h.slot \in TurfSlots /\ h = Handle(h.slot, h.gen)
  BY TurfHandleFacts
<1>1. T2 \in [TurfSlots -> TurfRecords]
      /\ \A s \in TurfSlots : T2[s] = IF s = h.slot THEN r ELSE T[s]
  BY <1>0 DEF Listed
<1>2. n \in Nat /\ DOMAIN A = 1..n
  BY LenProperties DEF Listed
<1>3. /\ A2 \in Seq(TurfHandles) /\ DOMAIN A2 = 1..n + 1
      /\ \A i \in 1..n : A2[i] = A[i]
      /\ A2[n + 1] = h
  <2>1. A2 \in Seq(TurfHandles) /\ Len(A2) = n + 1
        /\ \A i \in 1..n : A2[i] = A[i]
    BY AppendProperties DEF Listed
  <2>2. A2[n + 1] = h
    BY AppendProperties DEF Listed
  <2> QED
    BY <2>1, <2>2, LenProperties
<1>4. \A i \in 1..n : A[i].slot \in TurfSlots /\ A[i].slot # h.slot
  <2> TAKE i \in 1..n
  <2>1. A[i] \in TurfHandles /\ i # 0
    BY <1>2, ElementOfSeq DEF Listed
  <2> QED
    BY <1>2, <2>1, TurfHandleFacts DEF Listed, Lists
<1> HIDE DEF T2, A2
<1>5. \A i \in DOMAIN A2 :
       /\ T2[A2[i].slot].gen = A2[i].gen /\ T2[A2[i].slot].live
       /\ T2[A2[i].slot].heat # NoHeat /\ T2[A2[i].slot].index = i
  <2> TAKE i \in DOMAIN A2
  <2>1. CASE i \in 1..n
    <3>1. A2[i] = A[i] /\ T2[A[i].slot] = T[A[i].slot]
      BY <1>1, <1>3, <1>4, <2>1
    <3> QED
      BY <1>2, <2>1, <3>1 DEF Listed, Lists
  <2>2. CASE i = n + 1
    <3>1. A2[i] = h /\ T2[h.slot] = r
      BY <1>0, <1>1, <1>3, <2>2
    <3> QED
      BY <2>2, <3>1 DEF n
  <2> QED
    BY <1>2, <1>3, <2>1, <2>2
<1>6. \A s \in TurfSlots : T2[s].index # 0 =>
        T2[s].index \in DOMAIN A2 /\ A2[T2[s].index] = Handle(s, T2[s].gen)
  <2> TAKE s \in TurfSlots
  <2> HAVE T2[s].index # 0
  <2>1. CASE s = h.slot
    <3>1. T2[s] = r /\ r.index = n + 1
      BY <1>1, <2>1 DEF n
    <3>2. n + 1 \in 1..n + 1
      BY <1>2
    <3> QED
      BY <1>0, <1>3, <2>1, <3>1, <3>2
  <2>2. CASE s # h.slot
    <3>1. T2[s] = T[s]
      BY <1>1, <2>2
    <3>2. T[s].index \in 1..n /\ A[T[s].index] = Handle(s, T[s].gen)
      BY <1>2, <3>1 DEF Listed, Lists
    <3>3. T[s].index \in 1..n + 1
      BY <1>2, <3>2
    <3> QED
      BY <1>3, <3>1, <3>2, <3>3
  <2> QED
    BY <2>1, <2>2
<1> QED
  BY <1>1, <1>3, <1>5, <1>6 DEF Listed, Lists, T2, A2

\* Vec::swap_remove: the last entry takes the place of the one that goes.
LEMMA SwapRemovedEntries ==
  ASSUME NEW S, NEW list \in Seq(S), NEW i \in 1..Len(list)
  PROVE  /\ SwapRemoved(list, i) \in Seq(S)
         /\ Len(SwapRemoved(list, i)) = Len(list) - 1
         /\ \A j \in 1..Len(list) - 1 :
              SwapRemoved(list, i)[j] = IF j = i THEN list[Len(list)] ELSE list[j]
<1> DEFINE n == Len(list)
           front == SubSeq(list, 1, n - 1)
<1>0. n \in Nat /\ i \in 1..n /\ \A j \in 1..n : list[j] \in S
  BY LenProperties, ElementOfSeq
<1>1. n \in Nat /\ n \in 1..n /\ list[n] \in S
  <2> HIDE DEF n
  <2> QED
    BY <1>0
<1>2. /\ front \in Seq(S) /\ Len(front) = n - 1
      /\ \A j \in 1..n - 1 : front[j] = list[j]
  <2> HIDE DEF n
  <2>1. n - 1 \in Nat /\ \A j \in 1..n - 1 : list[j] \in S /\ 1 + j - 1 = j
    BY <1>0
  <2>2. (n - 1) - 1 + 1 = n - 1 /\ (~(1 <= n - 1) => n - 1 = 0)
    BY <1>0
  <2>3. /\ front \in Seq(S) /\ Len(front) = IF 1 <= n - 1 THEN (n - 1) - 1 + 1 ELSE 0
        /\ \A j \in 1..(n - 1) - 1 + 1 : front[j] = list[1 + j - 1]
    BY <2>1, SubSeqProperties
  <2> QED
    BY <2>1, <2>2, <2>3
<1>3. Front(list) = front /\ Last(list) = list[n]
  BY DEF Front, Last
<1> HIDE DEF front
<1>4. CASE i = n
  <2>1. SwapRemoved(list, i) = front
    BY <1>3, <1>4 DEF SwapRemoved
  <2> QED
    BY <1>1, <1>2, <1>4, <2>1
<1>5. CASE i # n
  <2>1. SwapRemoved(list, i) = [front EXCEPT ![i] = list[n]]
    BY <1>3, <1>5 DEF SwapRemoved
  <2>2. i \in 1..Len(front)
    BY <1>1, <1>2, <1>5
  <2>3. /\ [front EXCEPT ![i] = list[n]] \in Seq(S)
        /\ Len([front EXCEPT ![i] = list[n]]) = Len(front)
        /\ \A j \in 1..Len(front) :
             [front EXCEPT ![i] = list[n]][j] = IF j = i THEN list[n] ELSE front[j]
    BY <1>1, <1>2, <2>2, ExceptSeq
  <2> QED
    BY <1>2, <2>1, <2>3
<1> QED
  BY <1>4, <1>5

\* deactivate_turf_heat_slot: the turf leaves the list, the one that moved learns its
\* place, and nothing but the places changes.
LEMMA DeactivatedListed ==
  ASSUME Listed(turfs, heatActive), NEW slot \in TurfSlots
  PROVE  LET d == Deactivated(slot) IN
         /\ Listed(d.turfs, d.active) /\ d.turfs[slot].index = 0
         /\ \A s \in TurfSlots :
              /\ d.turfs[s].gen = turfs[s].gen /\ d.turfs[s].live = turfs[s].live
              /\ d.turfs[s].mixture = turfs[s].mixture /\ d.turfs[s].heat = turfs[s].heat
<1> DEFINE d == Deactivated(slot)
           i == turfs[slot].index
           n == Len(heatActive)
           list == SwapRemoved(heatActive, i)
           moved == IF i <= Len(list) THEN list[i].slot ELSE slot
           T == [s \in TurfSlots |->
                   IF s = slot THEN [turfs[s] EXCEPT !.index = 0]
                   ELSE IF s = moved THEN [turfs[s] EXCEPT !.index = i]
                   ELSE turfs[s]]
<1>1. CASE i = 0
  <2>1. d = [turfs |-> turfs, active |-> heatActive]
    BY <1>1 DEF Deactivated
  <2>2. d.turfs = turfs /\ d.active = heatActive
    BY <2>1
  <2> QED
    BY <1>1, <2>2
<1>2. CASE i # 0
  <2>1. d = [turfs |-> T, active |-> list]
    BY <1>2 DEF Deactivated
  <2>2. d.turfs = T /\ d.active = list
    BY <2>1
  <2>3. /\ n \in Nat /\ DOMAIN heatActive = 1..n /\ heatActive \in Seq(TurfHandles)
        /\ \A j \in 1..n : heatActive[j] \in TurfHandles /\ heatActive[j].slot \in TurfSlots
    BY LenProperties, ElementOfSeq, TurfHandleFacts DEF Listed
  <2>4. i \in 1..n /\ heatActive[i].slot = slot
    BY <1>2, <2>3, TurfHandleFacts DEF Listed, Lists
  <2>5. /\ list \in Seq(TurfHandles) /\ Len(list) = n - 1
        /\ \A j \in 1..n - 1 : list[j] = IF j = i THEN heatActive[n] ELSE heatActive[j]
    BY <2>3, <2>4, SwapRemovedEntries
  <2>6. DOMAIN list = 1..n - 1
    BY <2>5, LenProperties
  <2> HIDE DEF n
  <2>7. \A s \in TurfSlots : turfs[s] \in TurfRecords
    BY DEF Listed
  <2>8. \A j \in 1..n : /\ turfs[heatActive[j].slot].index = j
                        /\ turfs[heatActive[j].slot].gen = heatActive[j].gen
                        /\ turfs[heatActive[j].slot].live
                        /\ turfs[heatActive[j].slot].heat # NoHeat
    BY <2>3 DEF Listed, Lists
  <2>9. \A s \in TurfSlots : turfs[s].index # 0 =>
          turfs[s].index \in 1..n /\ heatActive[turfs[s].index] = Handle(s, turfs[s].gen)
    BY <2>3 DEF Listed, Lists
  <2>10. moved = IF i = n THEN slot ELSE heatActive[n].slot
    BY <2>3, <2>4, <2>5
  <2>11. i # n => moved # slot /\ moved \in TurfSlots /\ turfs[moved].index = n
    <3> SUFFICES ASSUME i # n PROVE moved # slot /\ moved \in TurfSlots /\ turfs[moved].index = n
      OBVIOUS
    <3>1. n \in 1..n
      BY <2>3, <2>4
    <3> QED
      BY <2>3, <2>8, <2>10, <3>1
  <2> HIDE DEF list, moved
  <2>12. /\ T \in [TurfSlots -> TurfRecords] /\ T[slot].index = 0
         /\ \A s \in TurfSlots :
              /\ T[s].gen = turfs[s].gen /\ T[s].live = turfs[s].live
              /\ T[s].mixture = turfs[s].mixture /\ T[s].heat = turfs[s].heat
         /\ \A s \in TurfSlots :
              T[s].index = IF s = slot THEN 0 ELSE IF s = moved THEN i ELSE turfs[s].index
    <3>1. ASSUME NEW s \in TurfSlots
          PROVE  /\ T[s] \in TurfRecords
                 /\ T[s].gen = turfs[s].gen /\ T[s].live = turfs[s].live
                 /\ T[s].mixture = turfs[s].mixture /\ T[s].heat = turfs[s].heat
                 /\ T[s].index = IF s = slot THEN 0 ELSE IF s = moved THEN i ELSE turfs[s].index
      <4>1. turfs[s] \in TurfRecords /\ i \in Nat
        BY <2>3, <2>4, <2>7
      <4>2. CASE s = slot
        <5>1. T[s] = [turfs[s] EXCEPT !.index = 0]
          BY <4>2
        <5> HIDE DEF T, i
        <5> QED
          BY <4>1, <4>2, <5>1, TurfRecordFields
      <4>3. CASE s # slot /\ s = moved
        <5>1. T[s] = [turfs[s] EXCEPT !.index = i]
          BY <4>3
        <5> HIDE DEF T, i
        <5> QED
          BY <4>1, <4>3, <5>1, TurfRecordFields
      <4>4. CASE s # slot /\ s # moved
        BY <4>1, <4>4
      <4> QED
        BY <4>2, <4>3, <4>4
    <3>2. T = [s \in TurfSlots |-> T[s]]
      OBVIOUS
    <3> HIDE DEF T
    <3> QED
      BY <3>1, <3>2
  <2> HIDE DEF T, i
  <2>13. ASSUME NEW j \in 1..n - 1
         PROVE  /\ T[list[j].slot].gen = list[j].gen /\ T[list[j].slot].live
                /\ T[list[j].slot].heat # NoHeat /\ T[list[j].slot].index = j
    <3>1. CASE j = i
      <4>1. i # n /\ list[j] = heatActive[n] /\ list[j].slot = moved /\ n \in 1..n
        BY <2>3, <2>4, <2>5, <2>10, <3>1
      <4>2. T[moved].index = i
        BY <2>11, <2>12, <4>1
      <4> QED
        BY <2>3, <2>8, <2>11, <2>12, <3>1, <4>1, <4>2
    <3>2. CASE j # i
      <4>1. j \in 1..n /\ list[j] = heatActive[j] /\ j # n
        BY <2>3, <2>5, <3>2
      <4>2. heatActive[j].slot # slot /\ heatActive[j].slot \in TurfSlots
        BY <2>3, <2>4, <2>8, <3>2, <4>1
      <4>3. heatActive[j].slot # moved
        BY <2>8, <2>10, <2>11, <4>1, <4>2
      <4>4. T[heatActive[j].slot].index = j
        BY <2>8, <2>12, <4>1, <4>2, <4>3
      <4> QED
        BY <2>8, <2>12, <4>1, <4>2, <4>4
    <3> QED
      BY <3>1, <3>2
  <2>14. ASSUME NEW s \in TurfSlots, T[s].index # 0
         PROVE  T[s].index \in 1..n - 1 /\ list[T[s].index] = Handle(s, T[s].gen)
    <3>1. s # slot
      BY <2>12, <2>14
    <3>2. CASE s = moved
      <4>1. i # n
        BY <2>10, <3>1, <3>2
      <4>2. T[s].index = i /\ i \in 1..n - 1
        BY <2>3, <2>4, <2>12, <3>1, <3>2, <4>1
      <4>3. list[i] = heatActive[n] /\ heatActive[n] = Handle(s, turfs[s].gen)
        BY <2>3, <2>4, <2>5, <2>9, <2>11, <3>2, <4>1, <4>2
      <4> QED
        BY <2>12, <4>2, <4>3
    <3>3. CASE s # moved
      <4>1. T[s].index = turfs[s].index /\ T[s].gen = turfs[s].gen
        BY <2>12, <3>1, <3>3
      <4> DEFINE j == turfs[s].index
      <4>2. j \in 1..n /\ heatActive[j] = Handle(s, turfs[s].gen)
        BY <2>9, <2>14, <4>1
      <4>3. heatActive[j].slot = s
        BY <4>2, TurfHandleFacts
      <4> HIDE DEF j
      <4>4. j # i
        BY <2>4, <3>1, <4>3
      <4>5. j # n
        BY <2>10, <3>3, <4>3, <4>4
      <4>6. j \in 1..n - 1 /\ list[j] = heatActive[j]
        BY <2>3, <2>5, <4>2, <4>4, <4>5
      <4> QED
        BY <4>1, <4>2, <4>6 DEF j
    <3> QED
      BY <3>2, <3>3
  <2>15. Lists(T, list)
    BY <2>6, <2>13, <2>14 DEF Lists
  <2>16. Listed(T, list)
    BY <2>5, <2>12, <2>15 DEF Listed
  <2> HIDE DEF d
  <2> QED
    BY <2>2, <2>12, <2>16 DEF d
<1> QED
  BY <1>1, <1>2

(***************************************************************************)
(* The inductive invariant: what the turfs name, the lists and the reverse *)
(* indexes.  A turf that is not registered names no mixture: otherwise     *)
(* unregistering the mixture, which looks at registered turfs only, would  *)
(* leave a turf behind that the emptied index does not know.               *)
(***************************************************************************)
MixtureRecords == [gen : 0..MaxGeneration, live : BOOLEAN]
DeadEmpty == \A s \in TurfSlots : ~turfs[s].live => turfs[s].mixture = NoHandle
TurfsIndexed ==
  \A h \in MixtureHandles : mixtureTurfs[h] = {s \in TurfSlots : turfs[s].mixture = h}
EdgesIndexed == \A s \in MixtureSlots : mixtureEdges[s] = {e \in edges : s \in e}

TurfInv ==
  /\ Listed(turfs, heatActive) /\ DeadEmpty /\ TurfsIndexed
  /\ mixtureTurfs \in [MixtureHandles -> SUBSET TurfSlots]

WorldInv ==
  TurfInv /\ EdgesIndexed /\ mixtures \in [MixtureSlots -> MixtureRecords]

\* The parts as the properties state them.
LEMMA InvGivesProperties ==
  ASSUME WorldInv
  PROVE  IndexesExact /\ HeatListExact
<1>1. IndexesExact
  BY DEF WorldInv, TurfInv, TurfsIndexed, EdgesIndexed, IndexesExact
<1>2. DOMAIN heatActive = 1..Len(heatActive) /\ Len(heatActive) \in Nat
  BY LenProperties DEF WorldInv, TurfInv, Listed
<1>3. HeatListExact
  BY <1>2 DEF WorldInv, TurfInv, Listed, Lists, HeatListExact, LiveTurf
<1> QED
  BY <1>1, <1>3

LEMMA WorldInitial ==
  ASSUME LifecycleConstants, Init
  PROVE  WorldInv
<1>1. EmptyTurf(0) \in TurfRecords /\ EmptyTurf(0).index = 0 /\ ~EmptyTurf(0).live
      /\ EmptyTurf(0).mixture = NoHandle
  BY DEF EmptyTurf, TurfRecords
<1>2. \A s \in TurfSlots : turfs[s] = EmptyTurf(0)
  BY DEF Init
<1>3. turfs \in [TurfSlots -> TurfRecords] /\ heatActive = << >> /\ << >> \in Seq(TurfHandles)
  BY <1>1, EmptySeq DEF Init
<1>4. Listed(turfs, heatActive)
  BY <1>1, <1>2, <1>3 DEF Listed, Lists
<1>5. DeadEmpty
  BY <1>1, <1>2 DEF DeadEmpty
<1>6. TurfsIndexed /\ mixtureTurfs \in [MixtureHandles -> SUBSET TurfSlots]
  BY <1>1, <1>2, MixtureHandleFacts DEF Init, TurfsIndexed
<1>7. EdgesIndexed
  BY DEF Init, EdgesIndexed
<1>8. [gen |-> 0, live |-> FALSE] \in MixtureRecords
  BY DEF LifecycleConstants, MixtureRecords
<1>9. mixtures \in [MixtureSlots -> MixtureRecords]
  BY <1>8 DEF Init
<1> QED
  BY <1>4, <1>5, <1>6, <1>7, <1>9 DEF WorldInv, TurfInv

-----------------------------------------------------------------------------
(* Mixtures and their edges.                                               *)

LEMMA TurfsUntouched ==
  ASSUME TurfInv, UNCHANGED <<turfs, heatActive, mixtureTurfs>>
  PROVE  TurfInv'
  BY DEF TurfInv, DeadEmpty, TurfsIndexed

LEMMA EdgesUntouched ==
  ASSUME EdgesIndexed, UNCHANGED <<edges, mixtureEdges>>
  PROVE  EdgesIndexed'
  BY DEF EdgesIndexed

\* All edges of a slot go, one edge comes or goes: the reverse index follows.
LEMMA EdgesFollow ==
  ASSUME EdgesIndexed
  PROVE  /\ \A slot \in MixtureSlots : WithoutMixtureEdges(slot) => EdgesIndexed'
         /\ \A e : LinkEdge(e) => EdgesIndexed'
         /\ \A e : UnlinkEdge(e) => EdgesIndexed'
<1>1. ASSUME NEW slot \in MixtureSlots, WithoutMixtureEdges(slot)
      PROVE  EdgesIndexed'
  BY <1>1 DEF WithoutMixtureEdges, EdgesIndexed
<1>2. ASSUME NEW e, LinkEdge(e)
      PROVE  EdgesIndexed'
  BY <1>2 DEF LinkEdge, EdgesIndexed
<1>3. ASSUME NEW e, UnlinkEdge(e)
      PROVE  EdgesIndexed'
  BY <1>3 DEF UnlinkEdge, EdgesIndexed
<1> QED
  BY <1>1, <1>2, <1>3

LEMMA RegisterMixtureKept ==
  ASSUME LifecycleConstants, WorldInv, NEW h \in MixtureHandles, RegisterMixture(h)
  PROVE  WorldInv'
<1>1. h.slot \in MixtureSlots /\ h.gen \in 0..MaxGeneration
  BY MixtureHandleFacts DEF Generations, LifecycleConstants
<1>2. [gen |-> h.gen, live |-> TRUE] \in MixtureRecords
  BY <1>1 DEF MixtureRecords
<1>3. mixtures' \in [MixtureSlots -> MixtureRecords]
  BY <1>1, <1>2 DEF RegisterMixture, mixtureVars, WorldInv
<1>4. EdgesIndexed'
  BY <1>1, EdgesUntouched, EdgesFollow DEF RegisterMixture, mixtureVars, WorldInv
<1>5. TurfInv'
  BY TurfsUntouched DEF RegisterMixture, turfVars, WorldInv
<1> QED
  BY <1>3, <1>4, <1>5 DEF WorldInv

\* The turfs of the mixture lose it, and the index loses them.
LEMMA UnregisterMixtureKept ==
  ASSUME LifecycleConstants, WorldInv, NEW h \in MixtureHandles, UnregisterMixture(h)
  PROVE  WorldInv'
<1> DEFINE owners == mixtureTurfs[h]
<1>1. /\ mixtures' = [mixtures EXCEPT ![h.slot].live = FALSE]
      /\ WithoutMixtureEdges(h.slot)
      /\ mixtureTurfs' = [mixtureTurfs EXCEPT ![h] = {}]
      /\ turfs' = [s \in TurfSlots |->
           IF s \in owners /\ turfs[s].live THEN [turfs[s] EXCEPT !.mixture = NoHandle]
                                            ELSE turfs[s]]
      /\ heatActive' = heatActive
  BY DEF UnregisterMixture
<1>2. h.slot \in MixtureSlots /\ NoHandle \notin MixtureHandles
  BY MixtureHandleFacts
<1>3. owners = {s \in TurfSlots : turfs[s].mixture = h}
  BY DEF WorldInv, TurfInv, TurfsIndexed
<1>4. mixtures' \in [MixtureSlots -> MixtureRecords]
  <2>1. [mixtures[h.slot] EXCEPT !.live = FALSE] \in MixtureRecords
    BY <1>2 DEF WorldInv, MixtureRecords
  <2>2. mixtures' = [mixtures EXCEPT ![h.slot] = [mixtures[h.slot] EXCEPT !.live = FALSE]]
    BY <1>1
  <2> QED
    BY <1>2, <2>1, <2>2 DEF WorldInv
<1>5. EdgesIndexed'
  BY <1>1, <1>2, EdgesFollow DEF WorldInv
<1>6. ASSUME NEW s \in TurfSlots
      PROVE  /\ turfs[s] \in TurfRecords /\ turfs'[s] \in TurfRecords
             /\ turfs'[s].gen = turfs[s].gen /\ turfs'[s].live = turfs[s].live
             /\ turfs'[s].heat = turfs[s].heat /\ turfs'[s].index = turfs[s].index
             /\ turfs'[s].mixture = IF turfs[s].mixture = h THEN NoHandle ELSE turfs[s].mixture
  <2>1. turfs[s] \in TurfRecords
    BY DEF WorldInv, TurfInv, Listed
  <2>2. CASE s \in owners /\ turfs[s].live
    <3>1. turfs'[s] = [turfs[s] EXCEPT !.mixture = NoHandle]
      BY <1>1, <2>2
    <3>2. turfs[s].mixture = h
      BY <1>3, <2>2
    <3> QED
      BY <2>1, <3>1, <3>2, TurfRecordFields
  <2>3. CASE ~(s \in owners /\ turfs[s].live)
    <3>1. turfs'[s] = turfs[s]
      BY <1>1, <2>3
    <3>2. turfs[s].mixture # h
      BY <1>2, <1>3, <2>3 DEF WorldInv, TurfInv, DeadEmpty
    <3> QED
      BY <2>1, <3>1, <3>2
  <2> QED
    BY <2>2, <2>3
<1>7. turfs' \in [TurfSlots -> TurfRecords]
  BY <1>1, <1>6
<1>8. Listed(turfs', heatActive')
  <2>1. \A i \in DOMAIN heatActive : heatActive[i].slot \in TurfSlots
    BY ElementOfSeq, LenProperties, TurfHandleFacts DEF WorldInv, TurfInv, Listed
  <2>2. Lists(turfs', heatActive)
    BY <1>6, <2>1 DEF WorldInv, TurfInv, Listed, Lists
  <2> QED
    BY <1>1, <1>7, <2>2 DEF WorldInv, TurfInv, Listed
<1>9. DeadEmpty'
  BY <1>6 DEF WorldInv, TurfInv, DeadEmpty
<1>10. mixtureTurfs' \in [MixtureHandles -> SUBSET TurfSlots]
  BY <1>1 DEF WorldInv, TurfInv
<1>11. TurfsIndexed'
  <2> SUFFICES ASSUME NEW g \in MixtureHandles
               PROVE  mixtureTurfs'[g] = {s \in TurfSlots : turfs'[s].mixture = g}
    BY DEF TurfsIndexed
  <2>1. mixtureTurfs'[g] = IF g = h THEN {} ELSE mixtureTurfs[g]
    BY <1>1 DEF WorldInv, TurfInv
  <2>2. mixtureTurfs[g] = {s \in TurfSlots : turfs[s].mixture = g}
    BY DEF WorldInv, TurfInv, TurfsIndexed
  <2>3. \A s \in TurfSlots : turfs'[s].mixture = g <=> g # h /\ turfs[s].mixture = g
    BY <1>2, <1>6
  <2> QED
    BY <2>1, <2>2, <2>3
<1> QED
  BY <1>4, <1>5, <1>8, <1>9, <1>10, <1>11 DEF WorldInv, TurfInv

LEMMA AdjacencyKept ==
  ASSUME WorldInv, NEW l, NEW r, ApplyAdjacency(l, r) \/ FailAdjacency(l, r)
  PROVE  WorldInv'
<1>1. /\ LinkEdge({l.slot, r.slot}) \/ UnlinkEdge({l.slot, r.slot})
      /\ UNCHANGED <<mixtures, turfVars>>
  BY DEF ApplyAdjacency, FailAdjacency
<1>2. EdgesIndexed'
  BY <1>1, EdgesFollow DEF WorldInv
<1>3. TurfInv'
  BY <1>1, TurfsUntouched DEF turfVars, WorldInv
<1> QED
  BY <1>1, <1>2, <1>3 DEF WorldInv

-----------------------------------------------------------------------------
(* Turfs and their heat.                                                   *)

\* The turf leaves the entry of its old mixture and joins that of its new one.
LEMMA RelinkedIndexed ==
  ASSUME TurfInv, NEW slot \in TurfSlots, NEW m \in MixtureHandles \union {NoHandle},
         mixtureTurfs' = Relinked(slot, m),
         \A s \in TurfSlots : turfs'[s].mixture = IF s = slot THEN m ELSE turfs[s].mixture
  PROVE  TurfsIndexed' /\ mixtureTurfs' \in [MixtureHandles -> SUBSET TurfSlots]
<1>1. ASSUME NEW g \in MixtureHandles
      PROVE  mixtureTurfs'[g] = {s \in TurfSlots : turfs'[s].mixture = g}
  <2>1. mixtureTurfs[g] = {s \in TurfSlots : turfs[s].mixture = g}
    BY DEF TurfInv, TurfsIndexed
  <2>2. mixtureTurfs'[g] = (IF turfs[slot].mixture = g THEN mixtureTurfs[g] \ {slot}
                                                       ELSE mixtureTurfs[g])
                             \union (IF m = g THEN {slot} ELSE {})
    BY DEF Relinked
  <2> QED
    BY <2>1, <2>2
<1>2. mixtureTurfs' \in [MixtureHandles -> SUBSET TurfSlots]
  <2>1. mixtureTurfs' = [g \in MixtureHandles |-> mixtureTurfs'[g]]
    BY DEF Relinked
  <2> QED
    BY <1>1, <2>1
<1> QED
  BY <1>1, <1>2 DEF TurfsIndexed

LEMMA RegisterTurfKept ==
  ASSUME LifecycleConstants, WorldInv, NEW h \in TurfHandles,
         NEW m \in MixtureHandles \union {NoHandle}, RegisterTurf(h, m)
  PROVE  WorldInv'
<1> DEFINE replaces == turfs[h.slot].gen # h.gen
           d == IF replaces THEN Deactivated(h.slot)
                            ELSE [turfs |-> turfs, active |-> heatActive]
           old == d.turfs[h.slot]
           r == [gen |-> h.gen, live |-> TRUE, mixture |-> m,
                 heat |-> IF replaces THEN NoHeat ELSE old.heat,
                 index |-> IF replaces THEN 0 ELSE old.index]
<1>1. /\ MayRegister(turfs[h.slot], h)
      /\ turfs' = [d.turfs EXCEPT ![h.slot] = r]
      /\ heatActive' = d.active
      /\ mixtureTurfs' = Relinked(h.slot, m)
      /\ UNCHANGED mixtureVars
  BY DEF RegisterTurf
<1>2. h.slot \in TurfSlots /\ h.gen \in Nat
  BY TurfHandleFacts DEF Generations, LifecycleConstants
<1>3. /\ Listed(d.turfs, d.active) /\ (replaces => old.index = 0)
      /\ \A s \in TurfSlots :
           /\ d.turfs[s].gen = turfs[s].gen /\ d.turfs[s].live = turfs[s].live
           /\ d.turfs[s].mixture = turfs[s].mixture /\ d.turfs[s].heat = turfs[s].heat
  <2>0. Listed(turfs, heatActive)
    BY DEF WorldInv, TurfInv
  <2>1. CASE replaces
    <3>1. d = Deactivated(h.slot)
      BY <2>1
    <3> HIDE DEF d
    <3> QED
      BY <1>2, <2>0, <3>1, DeactivatedListed
  <2>2. CASE ~replaces
    <3>1. d.turfs = turfs /\ d.active = heatActive
      BY <2>2
    <3> HIDE DEF d
    <3> QED
      BY <2>0, <2>2, <3>1
  <2> QED
    BY <2>1, <2>2
<1>4. ~replaces => turfs[h.slot].live
  BY <1>2 DEF MayRegister, RegisterTurf, WorldInv, TurfInv, Listed, TurfRecords
<1> HIDE DEF d
<1>5. old \in TurfRecords
  BY <1>2, <1>3 DEF Listed
<1>6. r \in TurfRecords
  BY <1>2, <1>5 DEF TurfRecords
<1>7. Listed(turfs', heatActive')
  <2>1. CASE replaces
    <3>1. r.index = 0
      BY <2>1
    <3> HIDE DEF r
    <3> QED
      BY <1>1, <1>2, <1>3, <1>6, <2>1, <3>1, SetOffList
  <2>2. CASE ~replaces
    <3>1. r.index = old.index /\ r.gen = old.gen /\ r.live /\ r.heat = old.heat
      BY <1>2, <1>3, <2>2
    <3> HIDE DEF r
    <3> QED
      BY <1>1, <1>2, <1>3, <1>6, <3>1, SetOnList
  <2> QED
    BY <2>1, <2>2
<1>8. \A s \in TurfSlots : turfs'[s] = IF s = h.slot THEN r ELSE d.turfs[s]
  BY <1>1, <1>2, <1>3 DEF Listed
<1>9. \A s \in TurfSlots : turfs'[s].mixture = IF s = h.slot THEN m ELSE turfs[s].mixture
  BY <1>3, <1>8
<1>10. DeadEmpty'
  <2>1. \A s \in TurfSlots : s # h.slot => turfs'[s].live = turfs[s].live
    BY <1>3, <1>8
  <2>2. turfs'[h.slot].live
    BY <1>2, <1>8
  <2> QED
    BY <1>9, <2>1, <2>2 DEF WorldInv, TurfInv, DeadEmpty
<1>11. TurfsIndexed' /\ mixtureTurfs' \in [MixtureHandles -> SUBSET TurfSlots]
  BY <1>1, <1>2, <1>9, RelinkedIndexed DEF WorldInv
<1>12. EdgesIndexed' /\ mixtures' \in [MixtureSlots -> MixtureRecords]
  BY <1>1, EdgesUntouched DEF mixtureVars, WorldInv
<1> QED
  BY <1>7, <1>10, <1>11, <1>12 DEF WorldInv, TurfInv

LEMMA UnregisterTurfKept ==
  ASSUME LifecycleConstants, WorldInv, NEW h \in TurfHandles, UnregisterTurf(h)
  PROVE  WorldInv'
<1> DEFINE d == Deactivated(h.slot)
           r == EmptyTurf(h.gen)
<1>1. /\ turfs' = [d.turfs EXCEPT ![h.slot] = r]
      /\ heatActive' = d.active
      /\ mixtureTurfs' = Relinked(h.slot, NoHandle)
      /\ UNCHANGED mixtureVars
  BY DEF UnregisterTurf
<1>2. h.slot \in TurfSlots /\ h.gen \in Nat
  BY TurfHandleFacts DEF Generations, LifecycleConstants
<1>3. /\ Listed(d.turfs, d.active) /\ d.turfs[h.slot].index = 0
      /\ \A s \in TurfSlots :
           /\ d.turfs[s].gen = turfs[s].gen /\ d.turfs[s].live = turfs[s].live
           /\ d.turfs[s].mixture = turfs[s].mixture /\ d.turfs[s].heat = turfs[s].heat
  BY <1>2, DeactivatedListed DEF WorldInv, TurfInv
<1>4. r \in TurfRecords /\ r.index = 0 /\ r.mixture = NoHandle
  BY <1>2 DEF EmptyTurf, TurfRecords
<1> HIDE DEF d, r
<1>5. Listed(turfs', heatActive')
  BY <1>1, <1>2, <1>3, <1>4, SetOffList
<1>6. \A s \in TurfSlots : turfs'[s] = IF s = h.slot THEN r ELSE d.turfs[s]
  BY <1>1, <1>2, <1>3 DEF Listed
<1>7. \A s \in TurfSlots : turfs'[s].mixture = IF s = h.slot THEN NoHandle ELSE turfs[s].mixture
  BY <1>3, <1>4, <1>6
<1>8. DeadEmpty'
  <2>1. \A s \in TurfSlots : s # h.slot => turfs'[s].live = turfs[s].live
    BY <1>3, <1>6
  <2> QED
    BY <1>7, <2>1 DEF WorldInv, TurfInv, DeadEmpty
<1>9. TurfsIndexed' /\ mixtureTurfs' \in [MixtureHandles -> SUBSET TurfSlots]
  BY <1>1, <1>2, <1>7, RelinkedIndexed DEF WorldInv
<1>10. EdgesIndexed' /\ mixtures' \in [MixtureSlots -> MixtureRecords]
  BY <1>1, EdgesUntouched DEF mixtureVars, WorldInv
<1> QED
  BY <1>5, <1>8, <1>9, <1>10 DEF WorldInv, TurfInv

\* A change of heat and place moves no mixture.
LEMMA HeatKeepsOwners ==
  ASSUME WorldInv, Listed(turfs', heatActive'), UNCHANGED <<mixtureVars, mixtureTurfs>>,
         \A s \in TurfSlots : turfs'[s].mixture = turfs[s].mixture /\ turfs'[s].live = turfs[s].live
  PROVE  WorldInv'
<1>1. EdgesIndexed' /\ mixtures' \in [MixtureSlots -> MixtureRecords]
  BY EdgesUntouched DEF mixtureVars, WorldInv
<1>2. DeadEmpty'
  BY DEF WorldInv, TurfInv, DeadEmpty
<1>3. TurfsIndexed' /\ mixtureTurfs' \in [MixtureHandles -> SUBSET TurfSlots]
  BY DEF WorldInv, TurfInv, TurfsIndexed
<1> QED
  BY <1>1, <1>2, <1>3 DEF WorldInv, TurfInv

\* The turf gets its heat and leaves the list.
LEMMA DeactivateKept ==
  ASSUME WorldInv, NEW h \in TurfHandles, NEW heat \in Heats \union {NoHeat},
         DeactivateTurfHeat(h, heat), UNCHANGED <<mixtureVars, mixtureTurfs>>
  PROVE  WorldInv'
<1> DEFINE d == Deactivated(h.slot)
           r == [d.turfs[h.slot] EXCEPT !.heat = heat]
<1>1. h.slot \in TurfSlots
  BY TurfHandleFacts
<1>2. /\ Listed(d.turfs, d.active) /\ d.turfs[h.slot].index = 0
      /\ \A s \in TurfSlots :
           d.turfs[s].live = turfs[s].live /\ d.turfs[s].mixture = turfs[s].mixture
  BY <1>1, DeactivatedListed DEF WorldInv, TurfInv
<1>3. turfs' = [d.turfs EXCEPT ![h.slot] = r] /\ heatActive' = d.active
  BY DEF DeactivateTurfHeat
<1> HIDE DEF d
<1>4. d.turfs[h.slot] \in TurfRecords
  BY <1>1, <1>2 DEF Listed
<1>5. /\ r \in TurfRecords /\ r.index = 0 /\ r.mixture = d.turfs[h.slot].mixture
      /\ r.live = d.turfs[h.slot].live
  BY <1>2, <1>4, TurfRecordFields
<1> HIDE DEF r
<1>6. Listed(turfs', heatActive')
  BY <1>1, <1>2, <1>3, <1>5, SetOffList
<1>7. \A s \in TurfSlots : turfs'[s] = IF s = h.slot THEN r ELSE d.turfs[s]
  BY <1>1, <1>2, <1>3 DEF Listed
<1>8. \A s \in TurfSlots : turfs'[s].mixture = turfs[s].mixture /\ turfs'[s].live = turfs[s].live
  BY <1>1, <1>2, <1>5, <1>7
<1> QED
  BY <1>6, <1>8, HeatKeepsOwners

\* The turf gets its heat in place: on the list where it is, or off it.
LEMMA HeatSetKept ==
  ASSUME WorldInv, NEW h \in TurfHandles, NEW heat \in Heats,
         turfs' = [turfs EXCEPT ![h.slot].heat = heat],
         UNCHANGED <<heatActive, mixtureVars, mixtureTurfs>>
  PROVE  WorldInv'
<1> DEFINE r == [turfs[h.slot] EXCEPT !.heat = heat]
<1>1. h.slot \in TurfSlots /\ heat # NoHeat /\ heat \in Heats \union {NoHeat}
  BY TurfHandleFacts DEF Heats, NoHeat
<1>2. Listed(turfs, heatActive) /\ turfs[h.slot] \in TurfRecords
  BY <1>1 DEF WorldInv, TurfInv, Listed
<1>3. /\ r \in TurfRecords /\ r.index = turfs[h.slot].index /\ r.gen = turfs[h.slot].gen
      /\ r.live = turfs[h.slot].live /\ r.mixture = turfs[h.slot].mixture /\ r.heat = heat
  BY <1>1, <1>2, TurfRecordFields
<1>4. turfs' = [turfs EXCEPT ![h.slot] = r]
  OBVIOUS
<1> HIDE DEF r
<1>5. Listed(turfs', heatActive')
  <2>1. turfs[h.slot].live => r.live
    BY <1>3
  <2>2. Listed([turfs EXCEPT ![h.slot] = r], heatActive)
    BY <1>1, <1>2, <1>3, <2>1, SetOnList
  <2>3. heatActive' = heatActive
    OBVIOUS
  <2> QED
    BY <1>4, <2>2, <2>3
<1>6. \A s \in TurfSlots : turfs'[s] = IF s = h.slot THEN r ELSE turfs[s]
  BY <1>1, <1>2, <1>4 DEF Listed
<1>7. \A s \in TurfSlots : turfs'[s].mixture = turfs[s].mixture /\ turfs'[s].live = turfs[s].live
  BY <1>3, <1>6
<1> QED
  BY <1>5, <1>7, HeatKeepsOwners

\* A live turf that is hot enough joins the list, or stays where it is on it.
LEMMA ActivateKept ==
  ASSUME WorldInv, NEW h \in TurfHandles, NEW heat \in Heats, LiveTurf(h),
         ActivateTurfHeat(h, heat), UNCHANGED <<mixtureVars, mixtureTurfs>>
  PROVE  WorldInv'
<1>1. CASE turfs[h.slot].index # 0
  BY <1>1, HeatSetKept DEF ActivateTurfHeat
<1>2. CASE turfs[h.slot].index = 0
  <2> DEFINE n == Len(heatActive) + 1
             r1 == [turfs[h.slot] EXCEPT !.heat = heat]
             r == [r1 EXCEPT !.index = n]
  <2>1. h.slot \in TurfSlots /\ heat # NoHeat /\ heat \in Heats \union {NoHeat}
    BY TurfHandleFacts DEF Heats, NoHeat
  <2>2. Listed(turfs, heatActive) /\ turfs[h.slot] \in TurfRecords /\ n \in Nat
    BY <2>1, LenProperties DEF WorldInv, TurfInv, Listed
  <2>3. /\ r1 \in TurfRecords /\ r1.gen = turfs[h.slot].gen /\ r1.live = turfs[h.slot].live
        /\ r1.mixture = turfs[h.slot].mixture /\ r1.heat = heat
    BY <2>1, <2>2, TurfRecordFields
  <2>4. turfs' = [turfs EXCEPT ![h.slot] = r] /\ heatActive' = Append(heatActive, h)
    <3>1. turfs' = [turfs EXCEPT ![h.slot].heat = heat, ![h.slot].index = n]
          /\ heatActive' = Append(heatActive, h)
      BY <1>2 DEF ActivateTurfHeat
    <3>2. [turfs EXCEPT ![h.slot].heat = heat, ![h.slot].index = n]
            = [[turfs EXCEPT ![h.slot].heat = heat] EXCEPT ![h.slot].index = n]
      OBVIOUS
    <3>3. [turfs EXCEPT ![h.slot].heat = heat] = [turfs EXCEPT ![h.slot] = r1]
      OBVIOUS
    <3> HIDE DEF r1, n
    <3>4. [[turfs EXCEPT ![h.slot] = r1] EXCEPT ![h.slot].index = n]
            = [turfs EXCEPT ![h.slot] = r]
      BY <2>1, <2>2 DEF Listed
    <3> QED
      BY <3>1, <3>2, <3>3, <3>4
  <2> HIDE DEF r1
  <2>5. /\ r \in TurfRecords /\ r.index = n /\ r.gen = h.gen /\ r.live
        /\ r.heat # NoHeat /\ r.mixture = turfs[h.slot].mixture
        /\ r.live = turfs[h.slot].live
    <3>1. /\ r \in TurfRecords /\ r.index = n /\ r.gen = r1.gen /\ r.live = r1.live
          /\ r.heat = r1.heat /\ r.mixture = r1.mixture
      BY <2>2, <2>3, TurfRecordFields
    <3> HIDE DEF r, n
    <3> QED
      BY <2>1, <2>3, <3>1 DEF LiveTurf
  <2> HIDE DEF r
  <2>6. Listed(turfs', heatActive')
    BY <1>2, <2>1, <2>2, <2>4, <2>5, AppendToList
  <2>7. \A s \in TurfSlots : turfs'[s] = IF s = h.slot THEN r ELSE turfs[s]
    BY <2>1, <2>2, <2>4 DEF Listed
  <2>8. \A s \in TurfSlots : turfs'[s].mixture = turfs[s].mixture /\ turfs'[s].live = turfs[s].live
    BY <2>5, <2>7
  <2> QED
    BY <2>6, <2>8, HeatKeepsOwners
<1> QED
  BY <1>1, <1>2

\* The edges between turfs and the stage are no part of the invariant.
LEMMA OtherKept ==
  ASSUME WorldInv, UNCHANGED <<mixtureVars, turfs, heatActive, mixtureTurfs>>
  PROVE  WorldInv'
<1>1. EdgesIndexed' /\ mixtures' \in [MixtureSlots -> MixtureRecords]
  BY EdgesUntouched DEF mixtureVars, WorldInv
<1>2. TurfInv'
  BY TurfsUntouched DEF WorldInv
<1> QED
  BY <1>1, <1>2 DEF WorldInv

LEMMA WorldKept ==
  ASSUME LifecycleConstants, WorldInv, [Next]_vars
  PROVE  WorldInv'
<1>1. ASSUME NEW h \in MixtureHandles, RegisterMixture(h)
      PROVE  WorldInv'
  BY <1>1, RegisterMixtureKept
<1>2. ASSUME NEW h \in MixtureHandles, UnregisterMixture(h)
      PROVE  WorldInv'
  BY <1>2, UnregisterMixtureKept
<1>3. ASSUME NEW l \in MixtureHandles, NEW r \in MixtureHandles,
             ApplyAdjacency(l, r) \/ FailAdjacency(l, r)
      PROVE  WorldInv'
  BY <1>3, AdjacencyKept
<1>4. ASSUME NEW h \in TurfHandles, NEW m \in MixtureHandles \union {NoHandle}, RegisterTurf(h, m)
      PROVE  WorldInv'
  BY <1>4, RegisterTurfKept
<1>5. ASSUME NEW h \in TurfHandles, UnregisterTurf(h)
      PROVE  WorldInv'
  BY <1>5, UnregisterTurfKept
<1>6. ASSUME NEW h \in TurfHandles, NEW heat \in Heats, SetTurfHeat(h, heat)
      PROVE  WorldInv'
  <2>1. /\ LiveTurf(h) /\ UNCHANGED <<mixtureVars, mixtureTurfs>>
        /\ ActivateTurfHeat(h, heat) \/ DeactivateTurfHeat(h, heat)
    BY <1>6 DEF SetTurfHeat
  <2> QED
    BY <2>1, ActivateKept, DeactivateKept
<1>7. ASSUME NEW h \in TurfHandles, NEW heat \in Heats, FailTurfHeat(h, heat)
      PROVE  WorldInv'
  <2>1. /\ turfs' = [turfs EXCEPT ![h.slot].heat = heat]
        /\ UNCHANGED <<heatActive, mixtureVars, mixtureTurfs>>
    BY <1>7 DEF FailTurfHeat
  <2> QED
    BY <2>1, HeatSetKept
<1>8. ASSUME NEW h \in TurfHandles, ClearTurfHeat(h)
      PROVE  WorldInv'
  <2>1. DeactivateTurfHeat(h, NoHeat) /\ UNCHANGED <<mixtureVars, mixtureTurfs>>
    BY <1>8 DEF ClearTurfHeat
  <2> QED
    BY <2>1, DeactivateKept
<1>9. ASSUME NEW l \in TurfHandles, NEW r \in TurfHandles, NEW k \in EdgeKinds,
             ConnectTurfs(k, l, r) \/ DisconnectTurfs(k, l, r)
      PROVE  WorldInv'
  BY <1>9, OtherKept DEF ConnectTurfs, DisconnectTurfs
<1>10. ASSUME NEW l \in TurfHandles, NEW r \in TurfHandles, NEW flag \in BOOLEAN,
              ApplyFirelock(l, r, flag)
       PROVE  WorldInv'
  BY <1>10, OtherKept DEF ApplyFirelock
<1>11. CASE ToggleStage
  BY <1>11, OtherKept DEF ToggleStage, turfVars
<1>12. CASE UNCHANGED vars
  BY <1>12, OtherKept DEF vars, mixtureVars
<1> QED
  BY <1>1, <1>2, <1>3, <1>4, <1>5, <1>6, <1>7, <1>8, <1>9, <1>10, <1>11, <1>12 DEF Next

\* The heat list, the index of turfs by mixture and the index of edges by mixture
\* stay what they stand for, in every order of batches (world.rs, apply_lifecycle,
\* apply_turf_lifecycle, apply_turf_heat, apply_adjacency).
THEOREM WorldInvariant == ASSUME LifecycleConstants PROVE Spec => []WorldInv
<1>1. Init => WorldInv
  BY WorldInitial
<1>2. WorldInv /\ [Next]_vars => WorldInv'
  BY WorldKept
<1> QED
  BY <1>1, <1>2, PTL DEF Spec

(***************************************************************************)
(* A client that unregisters a mixture before it registers its slot again  *)
(* leaves no turf with a mixture that is gone.                             *)
(***************************************************************************)
(* The index of turfs by mixture says the same: an entry that is not empty *)
(* is that of a registered mixture.                                        *)
EntriesCurrent == \A h \in MixtureHandles : mixtureTurfs[h] # {} => Live(h)

LEMMA CurrentByEntries ==
  ASSUME LifecycleConstants, WorldInv
  PROVE  TurfsHoldCurrent <=> EntriesCurrent
<1>1. \A s \in TurfSlots : turfs[s].mixture \in MixtureHandles \union {NoHandle}
  BY DEF WorldInv, TurfInv, Listed, TurfRecords
<1>2. \A h \in MixtureHandles : mixtureTurfs[h] = {s \in TurfSlots : turfs[s].mixture = h}
  BY DEF WorldInv, TurfInv, TurfsIndexed
<1>3. NoHandle \notin MixtureHandles
  BY MixtureHandleFacts
<1> QED
  BY <1>1, <1>2, <1>3 DEF TurfsHoldCurrent, EntriesCurrent

\* A mixture that is registered is found with the generation of its handle.
LEMMA LiveFacts ==
  ASSUME mixtures \in [MixtureSlots -> MixtureRecords], NEW h \in MixtureHandles
  PROVE  Live(h) <=> mixtures[h.slot].live /\ mixtures[h.slot].gen = h.gen
<1>1. h.slot \in MixtureSlots
  BY DEF MixtureHandles, Handle
<1>2. mixtures[h.slot] \in MixtureRecords
  BY <1>1
<1>3. ASSUME Live(h)
      PROVE  mixtures[h.slot].live /\ mixtures[h.slot].gen = h.gen
  <2>1. mixtures[h.slot] = [gen |-> h.gen, live |-> TRUE]
    BY <1>3 DEF Live
  <2> QED
    BY <2>1
<1>4. ASSUME mixtures[h.slot].live, mixtures[h.slot].gen = h.gen
      PROVE  Live(h)
  <2>1. mixtures[h.slot].live = TRUE
    BY <1>2, <1>4 DEF MixtureRecords
  <2>2. mixtures[h.slot] = [gen |-> h.gen, live |-> TRUE]
    BY <1>2, <1>4, <2>1 DEF MixtureRecords
  <2> QED
    BY <1>1, <2>2 DEF Live
<1> QED
  BY <1>3, <1>4

LEMMA EntriesKept ==
  ASSUME LifecycleConstants, ~ReplacesLive, WorldInv, EntriesCurrent, [Next]_vars
  PROVE  EntriesCurrent'
<1>0. /\ mixtures \in [MixtureSlots -> MixtureRecords]
      /\ mixtureTurfs \in [MixtureHandles -> SUBSET TurfSlots]
  BY DEF WorldInv, TurfInv
<1>1. ASSUME NEW h \in MixtureHandles, RegisterMixture(h)
      PROVE  EntriesCurrent'
  <2>1. mixtureTurfs' = mixtureTurfs
    BY <1>1 DEF RegisterMixture, turfVars
  <2>2. CASE Live(h)
    BY <1>1, <2>1, <2>2 DEF RegisterMixture, mixtureVars, EntriesCurrent, Live
  <2>3. CASE ~Live(h)
    <3>1. ~mixtures[h.slot].live
      BY <1>0, <1>1, <2>3, LiveFacts DEF RegisterMixture, MayRegister
    <3>2. \A k \in MixtureHandles : Live(k) => k.slot # h.slot
      BY <1>0, <3>1, LiveFacts
    <3>3. mixtures' = [mixtures EXCEPT ![h.slot] = [gen |-> h.gen, live |-> TRUE]]
      BY <1>1, <2>3 DEF RegisterMixture
    <3> QED
      BY <1>0, <2>1, <3>2, <3>3 DEF EntriesCurrent, Live
  <2> QED
    BY <2>2, <2>3
<1>2. ASSUME NEW h \in MixtureHandles, UnregisterMixture(h)
      PROVE  EntriesCurrent'
  <2>1. /\ mixtures' = [mixtures EXCEPT ![h.slot].live = FALSE]
        /\ mixtureTurfs' = [mixtureTurfs EXCEPT ![h] = {}]
        /\ mixtures[h.slot].gen = h.gen
    BY <1>2 DEF UnregisterMixture, MayUnregister
  <2>2. \A k \in MixtureHandles : Live(k) /\ k # h => k.slot # h.slot
    BY <1>0, <2>1, LiveFacts, MixtureHandleFacts
  <2>3. \A k \in MixtureHandles : mixtureTurfs'[k] # {} => k # h /\ mixtureTurfs[k] # {}
    BY <1>0, <2>1
  <2> QED
    BY <1>0, <2>1, <2>2, <2>3 DEF EntriesCurrent, Live
<1>3. ASSUME NEW h \in TurfHandles, NEW m \in MixtureHandles \union {NoHandle}, RegisterTurf(h, m)
      PROVE  EntriesCurrent'
  <2>1. /\ mixtureTurfs' = Relinked(h.slot, m) /\ mixtures' = mixtures
        /\ m = NoHandle \/ Live(m)
    BY <1>3 DEF RegisterTurf, mixtureVars
  <2> QED
    BY <2>1, MixtureHandleFacts DEF Relinked, EntriesCurrent, Live
<1>4. ASSUME NEW h \in TurfHandles, UnregisterTurf(h)
      PROVE  EntriesCurrent'
  <2>1. mixtureTurfs' = Relinked(h.slot, NoHandle) /\ mixtures' = mixtures
    BY <1>4 DEF UnregisterTurf, mixtureVars
  <2> QED
    BY <2>1, MixtureHandleFacts DEF Relinked, EntriesCurrent, Live
<1>5. CASE UNCHANGED <<mixtures, mixtureTurfs>>
  BY <1>5 DEF EntriesCurrent, Live
<1>6. \/ UNCHANGED <<mixtures, mixtureTurfs>>
      \/ \E h \in MixtureHandles : RegisterMixture(h) \/ UnregisterMixture(h)
      \/ \E h \in TurfHandles :
           \/ \E m \in MixtureHandles \union {NoHandle} : RegisterTurf(h, m)
           \/ UnregisterTurf(h)
  <2>1. ASSUME NEW l, NEW r, ApplyAdjacency(l, r) \/ FailAdjacency(l, r)
        PROVE  UNCHANGED <<mixtures, mixtureTurfs>>
    BY <2>1 DEF ApplyAdjacency, FailAdjacency, turfVars
  <2>2. ASSUME NEW h, NEW heat, SetTurfHeat(h, heat) \/ FailTurfHeat(h, heat) \/ ClearTurfHeat(h)
        PROVE  UNCHANGED <<mixtures, mixtureTurfs>>
    BY <2>2 DEF SetTurfHeat, FailTurfHeat, ClearTurfHeat, mixtureVars
  <2>3. ASSUME NEW k, NEW l, NEW r, NEW flag,
               ConnectTurfs(k, l, r) \/ DisconnectTurfs(k, l, r) \/ ApplyFirelock(l, r, flag)
        PROVE  UNCHANGED <<mixtures, mixtureTurfs>>
    BY <2>3 DEF ConnectTurfs, DisconnectTurfs, ApplyFirelock, mixtureVars
  <2>4. CASE ToggleStage \/ UNCHANGED vars
    BY <2>4 DEF ToggleStage, vars, mixtureVars, turfVars
  <2> QED
    BY <2>1, <2>2, <2>3, <2>4 DEF Next
<1> QED
  BY <1>1, <1>2, <1>3, <1>4, <1>5, <1>6

LEMMA LeastNatural ==
  ASSUME NEW T \in SUBSET Nat, T # {}
  PROVE  \E x \in T : \A y \in T : x <= y
<1> DEFINE R == {ss \in Nat \X Nat : ss[1] < ss[2]}
<1>1. IsWellFoundedOn(R, Nat)
  BY NatLessThanWellFounded DEF OpToRel
<1> HIDE DEF R
<1>2. PICK x \in T : \A y \in T : ~(<<y, x>> \in R)
  BY <1>1, WFMin
<1>3. \A y \in T : ~(y < x)
  BY <1>2 DEF R
<1> QED
  BY <1>3

\* Two elements more or less.
LEMMA TwoMore ==
  ASSUME NEW S, IsFiniteSet(S), NEW a, NEW b, a \notin S, b \notin S, a # b
  PROVE  Cardinality((S \union {a}) \union {b}) = Cardinality(S) + 2
<1> DEFINE T == S \union {a}
<1>1. IsFiniteSet(T) /\ Cardinality(T) = Cardinality(S) + 1 /\ Cardinality(S) \in Nat
  BY FS_AddElement, FS_CardinalityType
<1>2. b \notin T
  OBVIOUS
<1> HIDE DEF T
<1>3. Cardinality(T \union {b}) = Cardinality(T) + 1
  BY <1>1, <1>2, FS_AddElement
<1> QED
  BY <1>1, <1>3 DEF T

LEMMA TwoLess ==
  ASSUME NEW S, IsFiniteSet(S), NEW a \in S, NEW b \in S, a # b
  PROVE  Cardinality((S \ {a}) \ {b}) = Cardinality(S) - 2
<1> DEFINE T == S \ {a}
<1>1. IsFiniteSet(T) /\ Cardinality(T) = Cardinality(S) - 1 /\ Cardinality(S) \in Nat
  BY FS_RemoveElement, FS_CardinalityType
<1>2. b \in T
  OBVIOUS
<1> HIDE DEF T
<1>3. Cardinality(T \ {b}) = Cardinality(T) - 1
  BY <1>1, <1>2, FS_RemoveElement
<1> QED
  BY <1>1, <1>3 DEF T

(***************************************************************************)
(* Rows of neighbours.                                                     *)
(***************************************************************************)
Neighbors == [handle : TurfHandles, firelock : BOOLEAN]
NearRows == [TurfSlots -> SUBSET Neighbors]

\* The entry of the partner's row that stands for the same edge.
Across(s, n, gens) == [handle |-> Handle(s, gens[s]), firelock |-> n.firelock]

\* Every edge is entered on both sides, names the turf that is registered now, and
\* joins two turfs; a row names a turf once and fits its array.
Paired(near, gens) ==
  /\ near \in NearRows
  /\ \A s \in TurfSlots : \A n \in near[s] :
       /\ n.handle.slot # s /\ n.handle.gen = gens[n.handle.slot]
       /\ Across(s, n, gens) \in near[n.handle.slot]
  /\ \A s \in TurfSlots : \A n, p \in near[s] : n.handle = p.handle => n = p
  /\ \A s \in TurfSlots : Cardinality(near[s]) <= MaxTurfNeighbors

LEMMA NeighborFacts ==
  /\ \A n \in Neighbors : /\ n.handle \in TurfHandles /\ n.firelock \in BOOLEAN
                          /\ n.handle.slot \in TurfSlots
                          /\ n = [handle |-> n.handle, firelock |-> n.firelock]
                          /\ n.handle = Handle(n.handle.slot, n.handle.gen)
  /\ \A h \in TurfHandles, f \in BOOLEAN :
       /\ [handle |-> h, firelock |-> f] \in Neighbors
  /\ \A h, f : [handle |-> h, firelock |-> f].handle = h /\ [handle |-> h, firelock |-> f].firelock = f
<1>1. \A n \in Neighbors : /\ n.handle \in TurfHandles /\ n.firelock \in BOOLEAN
                           /\ n = [handle |-> n.handle, firelock |-> n.firelock]
  BY DEF Neighbors
<1>2. \A h \in TurfHandles, f \in BOOLEAN : [handle |-> h, firelock |-> f] \in Neighbors
  BY DEF Neighbors
<1> QED
  BY <1>1, <1>2, TurfHandleFacts

\* There are finitely many neighbours, so every row and all entries are finite.
LEMMA EntriesFinite ==
  ASSUME LifecycleConstants, NEW near \in NearRows
  PROVE  /\ IsFiniteSet(RowEntries(near)) /\ Cardinality(RowEntries(near)) \in Nat
         /\ \A s \in TurfSlots : IsFiniteSet(near[s]) /\ Cardinality(near[s]) \in Nat
         /\ \A e : e \in RowEntries(near) <=>
              \E s \in TurfSlots : \E n \in near[s] : e = <<s, n>>
<1>1. IsFiniteSet(TurfSlots) /\ IsFiniteSet(Generations) /\ IsFiniteSet(BOOLEAN)
  <2>1. IsFiniteSet(1..MaxGeneration)
    BY FS_Interval DEF LifecycleConstants
  <2>2. BOOLEAN = {TRUE} \union {FALSE} /\ IsFiniteSet({TRUE})
    BY FS_Singleton
  <2>3. IsFiniteSet(BOOLEAN)
    BY <2>2, FS_AddElement
  <2> QED
    BY <2>1, <2>3 DEF LifecycleConstants, Generations
<1>2. IsFiniteSet(TurfHandles)
  <2> DEFINE f == [p \in TurfSlots \X Generations |-> Handle(p[1], p[2])]
  <2>1. f \in Surjection(TurfSlots \X Generations, TurfHandles)
    <3>1. \A p \in TurfSlots \X Generations : f[p] \in TurfHandles
      BY DEF TurfHandles
    <3>2. \A h \in TurfHandles : \E p \in TurfSlots \X Generations : f[p] = h
      <4> TAKE h \in TurfHandles
      <4>1. h.slot \in TurfSlots /\ h.gen \in Generations /\ h = Handle(h.slot, h.gen)
        BY TurfHandleFacts
      <4>2. <<h.slot, h.gen>> \in TurfSlots \X Generations /\ f[<<h.slot, h.gen>>] = h
        BY <4>1
      <4> QED
        BY <4>2
    <3>3. f \in [TurfSlots \X Generations -> TurfHandles]
      BY <3>1
    <3> QED
      BY <3>2, <3>3 DEF Surjection
  <2>2. IsFiniteSet(TurfSlots \X Generations)
    BY <1>1, FS_Product
  <2> QED
    BY <2>1, <2>2, FS_Surjection
<1>3. IsFiniteSet(Neighbors)
  <2> DEFINE f == [p \in TurfHandles \X BOOLEAN |-> [handle |-> p[1], firelock |-> p[2]]]
  <2>1. f \in Surjection(TurfHandles \X BOOLEAN, Neighbors)
    <3>1. \A p \in TurfHandles \X BOOLEAN : f[p] \in Neighbors
      BY DEF Neighbors
    <3>2. \A n \in Neighbors : \E p \in TurfHandles \X BOOLEAN : f[p] = n
      <4> TAKE n \in Neighbors
      <4>1. <<n.handle, n.firelock>> \in TurfHandles \X BOOLEAN
            /\ f[<<n.handle, n.firelock>>] = n
        BY NeighborFacts
      <4> QED
        BY <4>1
    <3>3. f \in [TurfHandles \X BOOLEAN -> Neighbors]
      BY <3>1
    <3> QED
      BY <3>2, <3>3 DEF Surjection
  <2>2. IsFiniteSet(TurfHandles \X BOOLEAN)
    BY <1>1, <1>2, FS_Product
  <2> QED
    BY <2>1, <2>2, FS_Surjection
<1>4. \A s \in TurfSlots : near[s] \subseteq Neighbors
  BY DEF NearRows
<1>5. IsFiniteSet(TurfSlots \X Neighbors)
  BY <1>1, <1>3, FS_Product
<1>6. \A e : e \in RowEntries(near) <=> \E s \in TurfSlots : \E n \in near[s] : e = <<s, n>>
  BY DEF RowEntries
<1>7. RowEntries(near) \subseteq TurfSlots \X Neighbors
  BY <1>4, <1>6
<1>8. IsFiniteSet(RowEntries(near)) /\ Cardinality(RowEntries(near)) \in Nat
  BY <1>5, <1>7, FS_Subset, FS_CardinalityType
<1>9. \A s \in TurfSlots : IsFiniteSet(near[s]) /\ Cardinality(near[s]) \in Nat
  BY <1>3, <1>4, FS_Subset, FS_CardinalityType
<1> QED
  BY <1>6, <1>8, <1>9

\* An edge entered on both sides.
Entered(near, left, right, flag) ==
  [near EXCEPT ![left.slot]  = @ \union {[handle |-> right, firelock |-> flag]},
               ![right.slot] = @ \union {[handle |-> left, firelock |-> flag]}]

\* An edge taken off both sides.
Dropped(near, left, right) ==
  [near EXCEPT ![left.slot]  = {n \in @ : n.handle # right},
               ![right.slot] = {n \in @ : n.handle # left}]

LEMMA EnteredPaired ==
  ASSUME LifecycleConstants, NEW gens, NEW near, Paired(near, gens),
         NEW left \in TurfHandles, NEW right \in TurfHandles, NEW flag \in BOOLEAN,
         left.slot # right.slot,
         left.gen = gens[left.slot], right.gen = gens[right.slot],
         \A n \in near[left.slot] : n.handle # right,
         Cardinality(near[left.slot]) < MaxTurfNeighbors,
         Cardinality(near[right.slot]) < MaxTurfNeighbors
  PROVE  /\ Paired(Entered(near, left, right, flag), gens)
         /\ Cardinality(RowEntries(Entered(near, left, right, flag)))
              = Cardinality(RowEntries(near)) + 2
<1> DEFINE l == left.slot
           r == right.slot
           toRight == [handle |-> right, firelock |-> flag]
           toLeft == [handle |-> left, firelock |-> flag]
           new == Entered(near, left, right, flag)
<1>1. /\ l \in TurfSlots /\ r \in TurfSlots /\ l # r
      /\ left = Handle(l, gens[l]) /\ right = Handle(r, gens[r])
  BY TurfHandleFacts
<1>2. /\ toRight \in Neighbors /\ toLeft \in Neighbors
      /\ toRight.handle = right /\ toLeft.handle = left
      /\ toRight.firelock = flag /\ toLeft.firelock = flag
  BY NeighborFacts
<1>3. near \in NearRows /\ near \in [TurfSlots -> SUBSET Neighbors]
  BY DEF Paired, NearRows
<1>4. \A n \in near[r] : n.handle # left
  <2> SUFFICES ASSUME NEW n \in near[r], n.handle = left PROVE FALSE
    OBVIOUS
  <2>1. Across(r, n, gens) \in near[l]
    BY <1>1 DEF Paired
  <2>2. Across(r, n, gens).handle = right
    BY <1>1 DEF Across
  <2> QED
    BY <2>1, <2>2
<1>5. /\ new \in NearRows
      /\ new[l] = near[l] \union {toRight} /\ new[r] = near[r] \union {toLeft}
      /\ \A s \in TurfSlots : s # l /\ s # r => new[s] = near[s]
  BY <1>1, <1>2, <1>3 DEF Entered, NearRows
<1>6. toRight \notin near[l] /\ toLeft \notin near[r]
  BY <1>2, <1>4
<1>7. MaxTurfNeighbors \in Nat
  BY DEF LifecycleConstants, TopologyConstants
<1>8. \A s \in TurfSlots : IsFiniteSet(near[s]) /\ Cardinality(near[s]) \in Nat
  BY <1>3, EntriesFinite
<1>9. \A s \in TurfSlots : Cardinality(new[s]) <= MaxTurfNeighbors
  <2>1. Cardinality(new[l]) = Cardinality(near[l]) + 1
    BY <1>1, <1>5, <1>6, <1>8, FS_AddElement
  <2>2. Cardinality(new[r]) = Cardinality(near[r]) + 1
    BY <1>1, <1>5, <1>6, <1>8, FS_AddElement
  <2>3. \A s \in TurfSlots : Cardinality(near[s]) <= MaxTurfNeighbors
    BY DEF Paired
  <2>4. Cardinality(near[l]) < MaxTurfNeighbors /\ Cardinality(near[r]) < MaxTurfNeighbors
    OBVIOUS
  <2>5. Cardinality(near[l]) \in Nat /\ Cardinality(near[r]) \in Nat
    BY <1>1, <1>8
  <2> HIDE DEF new, l, r
  <2> TAKE s \in TurfSlots
  <2>6. CASE s = l
    BY <1>7, <2>1, <2>4, <2>5, <2>6
  <2>7. CASE s = r
    BY <1>7, <2>2, <2>4, <2>5, <2>7
  <2>8. CASE s # l /\ s # r
    BY <1>5, <2>3, <2>8
  <2> QED
    BY <2>6, <2>7, <2>8
<1>10. Across(l, toRight, gens) = toLeft /\ Across(r, toLeft, gens) = toRight
  BY <1>1, <1>2 DEF Across
<1>11. ASSUME NEW s \in TurfSlots, NEW n \in new[s]
       PROVE  /\ n.handle.slot # s /\ n.handle.gen = gens[n.handle.slot]
              /\ Across(s, n, gens) \in new[n.handle.slot]
  <2>1. CASE n \in near[s]
    <3>1. /\ n.handle.slot # s /\ n.handle.gen = gens[n.handle.slot]
          /\ Across(s, n, gens) \in near[n.handle.slot] /\ n.handle.slot \in TurfSlots
      BY <1>3, <2>1, NeighborFacts DEF Paired
    <3> QED
      BY <1>5, <3>1
  <2>2. CASE s = l /\ n = toRight
    BY <1>1, <1>2, <1>5, <1>10, <2>2
  <2>3. CASE s = r /\ n = toLeft
    BY <1>1, <1>2, <1>5, <1>10, <2>3
  <2> QED
    BY <1>5, <2>1, <2>2, <2>3
<1>12. \A s \in TurfSlots : \A n, p \in new[s] : n.handle = p.handle => n = p
  BY <1>2, <1>4, <1>5 DEF Paired
<1>13. Paired(new, gens)
  BY <1>5, <1>9, <1>11, <1>12 DEF Paired
<1>14. RowEntries(new) = (RowEntries(near) \union {<<l, toRight>>}) \union {<<r, toLeft>>}
  <2>1. /\ \A e : e \in RowEntries(near) <=> \E s \in TurfSlots : \E n \in near[s] : e = <<s, n>>
        /\ \A e : e \in RowEntries(new) <=> \E s \in TurfSlots : \E n \in new[s] : e = <<s, n>>
    BY <1>3, <1>5, EntriesFinite
  <2>2. \A s \in TurfSlots : \A n : n \in new[s] <=> \/ n \in near[s]
                                                     \/ s = l /\ n = toRight
                                                     \/ s = r /\ n = toLeft
    <3> HIDE DEF l, r, toRight, toLeft, new
    <3> TAKE s \in TurfSlots
    <3>1. CASE s = l
      BY <1>1, <1>5, <3>1
    <3>2. CASE s = r
      BY <1>1, <1>5, <3>2
    <3>3. CASE s # l /\ s # r
      BY <1>5, <3>3
    <3> QED
      BY <3>1, <3>2, <3>3
  <2>3. l \in TurfSlots /\ r \in TurfSlots
    BY <1>1
  <2> HIDE DEF l, r, toRight, toLeft, new
  <2>4. \A e : e \in RowEntries(new)
               <=> e \in (RowEntries(near) \union {<<l, toRight>>}) \union {<<r, toLeft>>}
    <3> TAKE e
    <3>1. ASSUME NEW s \in TurfSlots, NEW n \in new[s], e = <<s, n>>
          PROVE  e \in RowEntries(near) \/ e = <<l, toRight>> \/ e = <<r, toLeft>>
      BY <2>1, <2>2, <3>1
    <3>2. ASSUME NEW s \in TurfSlots, NEW n \in near[s], e = <<s, n>>
          PROVE  e \in RowEntries(new)
      BY <2>1, <2>2, <3>2
    <3>3. <<l, toRight>> \in RowEntries(new) /\ <<r, toLeft>> \in RowEntries(new)
      BY <2>1, <2>2, <2>3
    <3> QED
      BY <2>1, <3>1, <3>2, <3>3
  <2> QED
    BY <2>4
<1>15. <<l, toRight>> \notin RowEntries(near) /\ <<r, toLeft>> \notin RowEntries(near)
       /\ <<r, toLeft>> # <<l, toRight>>
  BY <1>1, <1>3, <1>6, EntriesFinite
<1>16. IsFiniteSet(RowEntries(near)) /\ Cardinality(RowEntries(near)) \in Nat
  BY <1>3, EntriesFinite
<1>17. Cardinality(RowEntries(new)) = Cardinality(RowEntries(near)) + 2
  <2> DEFINE a == <<l, toRight>>
             b == <<r, toLeft>>
             old == RowEntries(near)
  <2>1. IsFiniteSet(old) /\ a \notin old /\ b \notin old /\ a # b
    BY <1>15, <1>16
  <2>2. RowEntries(new) = (old \union {a}) \union {b}
    BY <1>14
  <2> HIDE DEF a, b, old, new
  <2>3. Cardinality((old \union {a}) \union {b}) = Cardinality(old) + 2
    BY <2>1, TwoMore
  <2> QED
    BY <2>2, <2>3 DEF old
<1> QED
  BY <1>13, <1>17

LEMMA DroppedPaired ==
  ASSUME LifecycleConstants, NEW gens, NEW near, Paired(near, gens),
         NEW left \in TurfHandles, NEW right \in TurfHandles,
         left.slot # right.slot,
         left.gen = gens[left.slot], right.gen = gens[right.slot],
         \E n \in near[left.slot] : n.handle = right
  PROVE  /\ Paired(Dropped(near, left, right), gens)
         /\ \A n \in Dropped(near, left, right)[left.slot] : n.handle # right
         /\ Cardinality(Dropped(near, left, right)[left.slot]) = Cardinality(near[left.slot]) - 1
         /\ Cardinality(Dropped(near, left, right)[right.slot]) = Cardinality(near[right.slot]) - 1
         /\ Cardinality(RowEntries(Dropped(near, left, right)))
              = Cardinality(RowEntries(near)) - 2
<1> DEFINE l == left.slot
           r == right.slot
           new == Dropped(near, left, right)
<1>1. /\ l \in TurfSlots /\ r \in TurfSlots /\ l # r
      /\ left = Handle(l, gens[l]) /\ right = Handle(r, gens[r])
  BY TurfHandleFacts
<1>2. near \in NearRows /\ near \in [TurfSlots -> SUBSET Neighbors]
  BY DEF Paired, NearRows
<1>3. PICK toRight \in near[l] : toRight.handle = right
  OBVIOUS
<1> DEFINE toLeft == Across(l, toRight, gens)
<1>4. toLeft \in near[r] /\ toLeft.handle = left
  BY <1>1, <1>3 DEF Paired, Across
<1>5. \A n, p \in near[l] : n.handle = p.handle => n = p
  BY <1>1 DEF Paired
<1>6. \A n, p \in near[r] : n.handle = p.handle => n = p
  BY <1>1 DEF Paired
<1>7. /\ new \in NearRows
      /\ new[l] = near[l] \ {toRight} /\ new[r] = near[r] \ {toLeft}
      /\ \A s \in TurfSlots : s # l /\ s # r => new[s] = near[s]
  <2>1. /\ new \in NearRows
        /\ new[l] = {n \in near[l] : n.handle # right}
        /\ new[r] = {n \in near[r] : n.handle # left}
        /\ \A s \in TurfSlots : s # l /\ s # r => new[s] = near[s]
    BY <1>1, <1>2 DEF Dropped, NearRows
  <2>2. {n \in near[l] : n.handle # right} = near[l] \ {toRight}
    BY <1>3, <1>5
  <2>3. {n \in near[r] : n.handle # left} = near[r] \ {toLeft}
    BY <1>4, <1>6
  <2> QED
    BY <2>1, <2>2, <2>3
<1>8. \A s \in TurfSlots : IsFiniteSet(near[s]) /\ Cardinality(near[s]) \in Nat
  BY <1>2, EntriesFinite
<1>9. /\ Cardinality(new[l]) = Cardinality(near[l]) - 1
      /\ Cardinality(new[r]) = Cardinality(near[r]) - 1
  <2> HIDE DEF toLeft, new, l, r
  <2>1. Cardinality(near[l] \ {toRight}) = Cardinality(near[l]) - 1
    BY <1>1, <1>3, <1>8, FS_RemoveElement
  <2>2. Cardinality(near[r] \ {toLeft}) = Cardinality(near[r]) - 1
    BY <1>1, <1>4, <1>8, FS_RemoveElement
  <2> QED
    BY <1>7, <2>1, <2>2
<1>10. \A s \in TurfSlots : Cardinality(new[s]) <= MaxTurfNeighbors
  <2>1. MaxTurfNeighbors \in Nat
    BY DEF LifecycleConstants, TopologyConstants
  <2>2. \A s \in TurfSlots : Cardinality(near[s]) <= MaxTurfNeighbors
    BY DEF Paired
  <2>3. Cardinality(near[l]) \in Nat /\ Cardinality(near[r]) \in Nat
        /\ Cardinality(near[l]) <= MaxTurfNeighbors /\ Cardinality(near[r]) <= MaxTurfNeighbors
    BY <1>1, <1>8, <2>2
  <2> HIDE DEF new, l, r
  <2> TAKE s \in TurfSlots
  <2>4. CASE s = l
    BY <1>9, <2>1, <2>3, <2>4
  <2>5. CASE s = r
    BY <1>9, <2>1, <2>3, <2>5
  <2>6. CASE s # l /\ s # r
    BY <1>7, <2>2, <2>6
  <2> QED
    BY <2>4, <2>5, <2>6
<1>11. \A s \in TurfSlots : new[s] \subseteq near[s]
  BY <1>1, <1>7
<1>12. ASSUME NEW s \in TurfSlots, NEW n \in new[s]
       PROVE  /\ n.handle.slot # s /\ n.handle.gen = gens[n.handle.slot]
              /\ Across(s, n, gens) \in new[n.handle.slot]
  <2>1. /\ n \in near[s] /\ n.handle.slot # s /\ n.handle.gen = gens[n.handle.slot]
        /\ Across(s, n, gens) \in near[n.handle.slot] /\ n.handle.slot \in TurfSlots
        /\ n.handle = Handle(n.handle.slot, gens[n.handle.slot])
        /\ Across(s, n, gens).handle = Handle(s, gens[s])
    BY <1>2, <1>11, NeighborFacts DEF Paired, Across
  <2>2. CASE n.handle.slot = l
    <3>1. Across(s, n, gens) # toRight
      <4> SUFFICES ASSUME Across(s, n, gens) = toRight PROVE FALSE
        OBVIOUS
      <4>1. Handle(s, gens[s]) = Handle(r, gens[r]) /\ n.handle = left
        BY <1>1, <1>3, <2>1, <2>2
      <4>2. s = r
        BY <4>1, TurfHandleFacts
      <4>3. n = toLeft
        BY <1>4, <1>6, <2>1, <4>1, <4>2
      <4> QED
        BY <1>7, <4>2, <4>3
    <3> QED
      BY <1>7, <2>1, <2>2, <3>1
  <2>3. CASE n.handle.slot = r
    <3>1. Across(s, n, gens) # toLeft
      <4> SUFFICES ASSUME Across(s, n, gens) = toLeft PROVE FALSE
        OBVIOUS
      <4>1. Handle(s, gens[s]) = Handle(l, gens[l]) /\ n.handle = right
        BY <1>1, <1>4, <2>1, <2>3
      <4>2. s = l
        BY <4>1, TurfHandleFacts
      <4>3. n = toRight
        BY <1>3, <1>5, <2>1, <4>1, <4>2
      <4> QED
        BY <1>7, <4>2, <4>3
    <3> QED
      BY <1>7, <2>1, <2>3, <3>1
  <2>4. CASE n.handle.slot # l /\ n.handle.slot # r
    BY <1>7, <2>1, <2>4
  <2> QED
    BY <2>1, <2>2, <2>3, <2>4
<1>13. \A s \in TurfSlots : \A n, p \in new[s] : n.handle = p.handle => n = p
  BY <1>11 DEF Paired
<1>14. Paired(new, gens)
  BY <1>7, <1>10, <1>12, <1>13 DEF Paired
<1>15. RowEntries(new) = (RowEntries(near) \ {<<l, toRight>>}) \ {<<r, toLeft>>}
  <2>1. /\ \A e : e \in RowEntries(near) <=> \E s \in TurfSlots : \E n \in near[s] : e = <<s, n>>
        /\ \A e : e \in RowEntries(new) <=> \E s \in TurfSlots : \E n \in new[s] : e = <<s, n>>
    BY <1>2, <1>7, EntriesFinite
  <2>2. \A s \in TurfSlots : \A n : n \in new[s] <=> /\ n \in near[s]
                                                     /\ ~(s = l /\ n = toRight)
                                                     /\ ~(s = r /\ n = toLeft)
    BY <1>1, <1>7
  <2> HIDE DEF l, r, toLeft, new
  <2>3. \A e : e \in RowEntries(new) <=> e \in (RowEntries(near) \ {<<l, toRight>>}) \ {<<r, toLeft>>}
    BY <2>1, <2>2
  <2> QED
    BY <2>3
<1>16. /\ IsFiniteSet(RowEntries(near)) /\ Cardinality(RowEntries(near)) \in Nat
       /\ <<l, toRight>> \in RowEntries(near) /\ <<r, toLeft>> \in RowEntries(near)
       /\ <<l, toRight>> # <<r, toLeft>>
  BY <1>1, <1>2, <1>3, <1>4, EntriesFinite
<1>17. Cardinality(RowEntries(new)) = Cardinality(RowEntries(near)) - 2
  BY <1>15, <1>16, TwoLess
<1>19. \A n \in new[l] : n.handle # right
  BY <1>3, <1>5, <1>7
<1> QED
  BY <1>9, <1>14, <1>17, <1>19

\* The entries of a slot and of its partners for it, gone.
Without(near, slot) ==
  [s \in TurfSlots |-> IF s = slot THEN {} ELSE {n \in near[s] : n.handle.slot # slot}]

\* A set is as large as the one it is mapped to one to one.
LEMMA SameCount ==
  ASSUME NEW S, NEW T, NEW f \in [S -> T], IsFiniteSet(S),
         \A x, y \in S : f[x] = f[y] => x = y, \A t \in T : \E x \in S : f[x] = t
  PROVE  IsFiniteSet(T) /\ Cardinality(T) = Cardinality(S)
<1>1. f \in Surjection(S, T) /\ f \in Injection(S, T)
  BY DEF Surjection, Injection, IsInjective
<1> QED
  BY <1>1, FS_Surjection

LEMMA WithoutPaired ==
  ASSUME LifecycleConstants, NEW gens, NEW near, Paired(near, gens), NEW slot \in TurfSlots
  PROVE  /\ Paired(Without(near, slot), gens)
         /\ Cardinality(RowEntries(Without(near, slot)))
              = Cardinality(RowEntries(near)) - 2 * Cardinality(near[slot])
         /\ Cardinality(near[slot]) \in Nat
         /\ 2 * Cardinality(near[slot]) <= Cardinality(RowEntries(near))
<1> DEFINE new == Without(near, slot)
           row == near[slot]
           mine == {<<slot, n>> : n \in row}
           theirs == {<<n.handle.slot, Across(slot, n, gens)>> : n \in row}
<1>1. near \in NearRows /\ near \in [TurfSlots -> SUBSET Neighbors]
  BY DEF Paired, NearRows
<1>2. /\ new \in NearRows /\ new[slot] = {}
      /\ \A s \in TurfSlots : s # slot => new[s] = {n \in near[s] : n.handle.slot # slot}
  BY <1>1 DEF Without, NearRows
<1>3. \A s \in TurfSlots : new[s] \subseteq near[s]
  BY <1>2
<1>4. \A s \in TurfSlots : \A n \in near[s] :
        /\ n.handle.slot # s /\ n.handle.slot \in TurfSlots
        /\ n.handle = Handle(n.handle.slot, gens[n.handle.slot])
        /\ n = [handle |-> n.handle, firelock |-> n.firelock]
        /\ Across(s, n, gens) \in near[n.handle.slot]
        /\ Across(s, n, gens).handle = Handle(s, gens[s])
        /\ Across(s, n, gens).handle.slot = s
        /\ Across(s, n, gens).firelock = n.firelock
  BY <1>1, NeighborFacts, TurfHandleFacts DEF Paired, Across
<1>5. Paired(new, gens)
  <2>1. ASSUME NEW s \in TurfSlots, NEW n \in new[s]
        PROVE  /\ n.handle.slot # s /\ n.handle.gen = gens[n.handle.slot]
               /\ Across(s, n, gens) \in new[n.handle.slot]
    <3>1. n \in near[s] /\ s # slot /\ n.handle.slot # slot
      BY <1>2, <2>1
    <3>2. /\ n.handle.slot # s /\ n.handle.slot \in TurfSlots
          /\ Across(s, n, gens) \in near[n.handle.slot] /\ Across(s, n, gens).handle.slot = s
      BY <1>4, <3>1
    <3>3. n.handle.gen = gens[n.handle.slot]
      BY <3>1 DEF Paired
    <3> QED
      BY <1>2, <3>1, <3>2, <3>3
  <2>2. \A s \in TurfSlots : \A n, p \in new[s] : n.handle = p.handle => n = p
    BY <1>3 DEF Paired
  <2>3. \A s \in TurfSlots : Cardinality(new[s]) <= MaxTurfNeighbors
    <3> TAKE s \in TurfSlots
    <3>1. IsFiniteSet(near[s]) /\ Cardinality(near[s]) \in Nat
      BY <1>1, EntriesFinite
    <3>2. Cardinality(new[s]) <= Cardinality(near[s]) /\ Cardinality(new[s]) \in Nat
      BY <1>3, <3>1, FS_Subset, FS_CardinalityType
    <3>3. Cardinality(near[s]) <= MaxTurfNeighbors /\ MaxTurfNeighbors \in Nat
      BY DEF Paired, LifecycleConstants, TopologyConstants
    <3> QED
      BY <3>1, <3>2, <3>3
  <2> QED
    BY <1>2, <2>1, <2>2, <2>3 DEF Paired
<1>6. IsFiniteSet(row) /\ Cardinality(row) \in Nat
  BY <1>1, EntriesFinite
<1>7. IsFiniteSet(mine) /\ Cardinality(mine) = Cardinality(row)
  <2> DEFINE f == [n \in row |-> <<slot, n>>]
  <2>1. f \in [row -> mine] /\ \A n \in row : f[n] = <<slot, n>>
    OBVIOUS
  <2>2. \A t \in mine : \E n \in row : f[n] = t
    OBVIOUS
  <2>3. \A x, y \in row : f[x] = f[y] => x = y
    OBVIOUS
  <2> HIDE DEF f, mine, row
  <2> QED
    BY <1>6, <2>1, <2>2, <2>3, SameCount
<1>8. IsFiniteSet(theirs) /\ Cardinality(theirs) = Cardinality(row)
  <2> DEFINE f == [n \in row |-> <<n.handle.slot, Across(slot, n, gens)>>]
  <2>1. f \in [row -> theirs] /\ \A n \in row : f[n] = <<n.handle.slot, Across(slot, n, gens)>>
    OBVIOUS
  <2>2. \A t \in theirs : \E n \in row : f[n] = t
    OBVIOUS
  <2>3. \A x, y \in row : f[x] = f[y] => x = y
    <3> TAKE x, y \in row
    <3> HAVE f[x] = f[y]
    <3>1. x.handle.slot = y.handle.slot /\ Across(slot, x, gens) = Across(slot, y, gens)
      BY <2>1
    <3>2. x.firelock = y.firelock /\ x.handle = y.handle
      BY <1>4, <3>1
    <3> QED
      BY <1>4, <3>2
  <2> HIDE DEF f, theirs, row
  <2> QED
    BY <1>6, <2>1, <2>2, <2>3, SameCount
<1>9. /\ \A e : e \in RowEntries(near) <=> \E s \in TurfSlots : \E n \in near[s] : e = <<s, n>>
      /\ \A e : e \in RowEntries(new) <=> \E s \in TurfSlots : \E n \in new[s] : e = <<s, n>>
      /\ IsFiniteSet(RowEntries(near)) /\ Cardinality(RowEntries(near)) \in Nat
  BY <1>1, <1>2, EntriesFinite
<1>10. mine \subseteq RowEntries(near)
  BY <1>9
<1>11. theirs \subseteq RowEntries(near)
  BY <1>4, <1>9
<1>12. mine \cap theirs = {}
  BY <1>4
<1>13. ASSUME NEW s \in TurfSlots, NEW n \in near[s]
       PROVE  n \in new[s] <=> <<s, n>> \notin mine \union theirs
  <2>1. CASE s = slot
    BY <1>2, <2>1
  <2>2. CASE s # slot /\ n.handle.slot = slot
    <3> DEFINE p == Across(s, n, gens)
    <3>1. /\ p \in row /\ p.handle.slot = s /\ p.firelock = n.firelock
          /\ n = [handle |-> Handle(slot, gens[slot]), firelock |-> n.firelock]
      BY <1>4, <2>2
    <3>2. Across(slot, p, gens) = n
      BY <3>1 DEF Across
    <3>3. <<s, n>> \in theirs
      BY <3>1, <3>2
    <3> QED
      BY <1>2, <2>2, <3>3
  <2>3. CASE s # slot /\ n.handle.slot # slot
    <3>1. \A p \in row : Across(slot, p, gens).handle.slot = slot
      BY <1>4
    <3> QED
      BY <1>2, <2>3, <3>1
  <2> QED
    BY <2>1, <2>2, <2>3
<1> HIDE DEF new, mine, theirs, row
<1>14. RowEntries(new) = RowEntries(near) \ (mine \union theirs)
  <2>1. ASSUME NEW e \in RowEntries(new)
        PROVE  e \in RowEntries(near) \ (mine \union theirs)
    <3>1. PICK s \in TurfSlots : \E n \in new[s] : e = <<s, n>>
      BY <1>9
    <3>2. PICK n \in new[s] : e = <<s, n>>
      BY <3>1
    <3> QED
      BY <1>3, <1>9, <1>13, <3>2
  <2>2. ASSUME NEW e \in RowEntries(near) \ (mine \union theirs)
        PROVE  e \in RowEntries(new)
    <3>1. PICK s \in TurfSlots : \E n \in near[s] : e = <<s, n>>
      BY <1>9
    <3>2. PICK n \in near[s] : e = <<s, n>>
      BY <3>1
    <3> QED
      BY <1>9, <1>13, <3>2
  <2> QED
    BY <2>1, <2>2
<1>15. /\ IsFiniteSet(mine \union theirs)
       /\ Cardinality(mine \union theirs) = 2 * Cardinality(row)
  <2>1. /\ IsFiniteSet(mine \union theirs)
        /\ Cardinality(mine \union theirs)
             = Cardinality(mine) + Cardinality(theirs) - Cardinality(mine \cap theirs)
    BY <1>7, <1>8, FS_Union
  <2>2. Cardinality(mine \cap theirs) = 0
    BY <1>12, FS_EmptySet
  <2> QED
    BY <1>6, <1>7, <1>8, <2>1, <2>2
<1>16. mine \union theirs \subseteq RowEntries(near)
  BY <1>10, <1>11
<1>17. Cardinality(RowEntries(new)) = Cardinality(RowEntries(near)) - 2 * Cardinality(row)
  <2>1. RowEntries(near) \cap (mine \union theirs) = mine \union theirs
    BY <1>16
  <2>2. Cardinality(RowEntries(near) \ (mine \union theirs))
          = Cardinality(RowEntries(near)) - Cardinality(RowEntries(near) \cap (mine \union theirs))
    BY <1>9, FS_Difference
  <2> QED
    BY <1>14, <1>15, <2>1, <2>2
<1>18. 2 * Cardinality(row) <= Cardinality(RowEntries(near))
  <2>1. Cardinality(mine \union theirs) <= Cardinality(RowEntries(near))
    BY <1>9, <1>16, FS_Subset
  <2> QED
    BY <1>15, <2>1
<1> QED
  BY <1>5, <1>6, <1>17, <1>18 DEF new, row

\* Nothing to take away where a row is empty: its partners have no entry for it.
LEMMA WithoutEmpty ==
  ASSUME NEW gens, NEW near, Paired(near, gens), NEW slot \in TurfSlots, near[slot] = {}
  PROVE  Without(near, slot) = near
<1>1. near \in [TurfSlots -> SUBSET Neighbors]
  BY DEF Paired, NearRows
<1>2. ASSUME NEW s \in TurfSlots, NEW n \in near[s]
      PROVE  n.handle.slot # slot
  BY DEF Paired
<1>3. \A s \in TurfSlots : Without(near, slot)[s] = near[s]
  BY <1>2 DEF Without
<1> QED
  BY <1>1, <1>3 DEF Without

(***************************************************************************)
(* The operations of PackedTopology.                                       *)
(***************************************************************************)
Topologies == [near : [EdgeKinds -> NearRows], edges : [EdgeKinds -> Nat], revision : Nat]

\* Rows that fit each other, and counters of the edges in them.
TopologySound(topo, gens) ==
  /\ topo \in Topologies
  /\ \A k \in EdgeKinds : /\ Paired(topo.near[k], gens)
                          /\ topo.edges[k] * 2 = Cardinality(RowEntries(topo.near[k]))

LEMMA TopologyFields ==
  /\ \A t \in Topologies : /\ t.near \in [EdgeKinds -> NearRows]
                           /\ t.edges \in [EdgeKinds -> Nat] /\ t.revision \in Nat
  /\ \A n \in [EdgeKinds -> NearRows], e \in [EdgeKinds -> Nat], r \in Nat :
       /\ [near |-> n, edges |-> e, revision |-> r] \in Topologies
  /\ \A n, e, r : /\ [near |-> n, edges |-> e, revision |-> r].near = n
                  /\ [near |-> n, edges |-> e, revision |-> r].edges = e
                  /\ [near |-> n, edges |-> e, revision |-> r].revision = r
  BY DEF Topologies

\* A topology is sound when its fields are.
LEMMA SoundByFields ==
  ASSUME NEW topo, NEW gens, topo \in Topologies,
         \A k \in EdgeKinds : /\ Paired(topo.near[k], gens)
                              /\ topo.edges[k] * 2 = Cardinality(RowEntries(topo.near[k]))
  PROVE  TopologySound(topo, gens)
  BY DEF TopologySound

\* remove_slot takes the edges of a slot away on both sides, of both kinds.
LEMMA RemoveSlotSound ==
  ASSUME LifecycleConstants, NEW gens, NEW topo, TopologySound(topo, gens),
         NEW slot \in TurfSlots
  PROVE  /\ TopologySound(RemoveSlot(topo, slot), gens)
         /\ \A k \in EdgeKinds :
              RemoveSlot(topo, slot).near[k] = Without(topo.near[k], slot)
         /\ \A k \in EdgeKinds :
              RemoveSlot(topo, slot).edges[k] = topo.edges[k] - Cardinality(topo.near[k][slot])
<1> DEFINE removed(k) == Cardinality(topo.near[k][slot])
           near == [k \in EdgeKinds |-> [s \in DOMAIN topo.near[k] |->
                      IF s = slot THEN {}
                      ELSE {n \in topo.near[k][s] :
                              ~(n.handle.slot = slot
                                /\ s \in {p.slot : p \in Partners(topo, k, slot)})}]]
           counts == [k \in EdgeKinds |-> topo.edges[k] - removed(k)]
<1>1. /\ topo \in Topologies /\ topo.near \in [EdgeKinds -> NearRows]
      /\ topo.edges \in [EdgeKinds -> Nat] /\ topo.revision \in Nat
      /\ \A k \in EdgeKinds : /\ topo.near[k] \in NearRows /\ topo.edges[k] \in Nat
                              /\ topo.near[k] \in [TurfSlots -> SUBSET Neighbors]
  BY TopologyFields DEF TopologySound, NearRows
<1>2. \A k \in EdgeKinds :
        /\ Paired(topo.near[k], gens)
        /\ topo.edges[k] * 2 = Cardinality(RowEntries(topo.near[k]))
  BY DEF TopologySound
<1>3. \A k \in EdgeKinds :
        /\ Paired(Without(topo.near[k], slot), gens)
        /\ Cardinality(RowEntries(Without(topo.near[k], slot)))
             = Cardinality(RowEntries(topo.near[k])) - 2 * removed(k)
        /\ removed(k) \in Nat
        /\ 2 * removed(k) <= Cardinality(RowEntries(topo.near[k]))
  BY <1>2, WithoutPaired
<1>4. CASE \A k \in EdgeKinds : removed(k) = 0
  <2>1. RemoveSlot(topo, slot) = topo
    BY <1>4 DEF RemoveSlot
  <2>2. \A k \in EdgeKinds : topo.near[k][slot] = {}
    <3> TAKE k \in EdgeKinds
    <3>1. IsFiniteSet(topo.near[k][slot])
      BY <1>1, EntriesFinite
    <3> QED
      BY <1>4, <3>1, FS_EmptySet
  <2>3. \A k \in EdgeKinds : Without(topo.near[k], slot) = topo.near[k]
    BY <1>2, <2>2, WithoutEmpty
  <2> QED
    BY <1>1, <1>4, <2>1, <2>3
<1>5. CASE ~\A k \in EdgeKinds : removed(k) = 0
  <2>1. RemoveSlot(topo, slot)
          = [near |-> near, edges |-> counts, revision |-> topo.revision + 1]
    BY <1>5 DEF RemoveSlot
  <2>2. ASSUME NEW k \in EdgeKinds
        PROVE  near[k] = Without(topo.near[k], slot)
    <3>1. ASSUME NEW s \in TurfSlots, NEW n \in topo.near[k][s], n.handle.slot = slot
          PROVE  s \in {p.slot : p \in Partners(topo, k, slot)}
      <4> DEFINE q == Across(s, n, gens)
      <4>1. q \in topo.near[k][slot]
        BY <1>2, <3>1 DEF Paired
      <4>2. q.handle.slot = s
        BY TurfHandleFacts DEF Across
      <4>3. q.handle \in Partners(topo, k, slot)
        BY <4>1 DEF Partners
      <4> QED
        BY <4>2, <4>3
    <3>2. DOMAIN topo.near[k] = TurfSlots
      BY <1>1
    <3>3. \A s \in TurfSlots :
            {n \in topo.near[k][s] : ~(n.handle.slot = slot
                                       /\ s \in {p.slot : p \in Partners(topo, k, slot)})}
              = {n \in topo.near[k][s] : n.handle.slot # slot}
      BY <3>1
    <3> QED
      BY <3>2, <3>3 DEF Without
  <2>3. \A k \in EdgeKinds : Without(topo.near[k], slot) \in NearRows
    BY <1>3 DEF Paired
  <2>4. near \in [EdgeKinds -> NearRows]
    BY <2>2, <2>3
  <2>5. \A k \in EdgeKinds : counts[k] = topo.edges[k] - removed(k)
    OBVIOUS
  <2>6. \A k \in EdgeKinds :
          /\ counts[k] \in Nat
          /\ counts[k] * 2 = Cardinality(RowEntries(Without(topo.near[k], slot)))
    <3> TAKE k \in EdgeKinds
    <3>1. /\ topo.edges[k] \in Nat /\ removed(k) \in Nat
          /\ topo.edges[k] * 2 = Cardinality(RowEntries(topo.near[k]))
          /\ 2 * removed(k) <= Cardinality(RowEntries(topo.near[k]))
          /\ Cardinality(RowEntries(Without(topo.near[k], slot)))
               = Cardinality(RowEntries(topo.near[k])) - 2 * removed(k)
          /\ counts[k] = topo.edges[k] - removed(k)
      BY <1>1, <1>2, <1>3, <2>5
    <3> HIDE DEF removed, counts
    <3> QED
      BY <3>1
  <2>7. counts \in [EdgeKinds -> Nat]
    BY <2>5, <2>6
  <2> HIDE DEF near, counts
  <2>8. /\ RemoveSlot(topo, slot) \in Topologies
        /\ RemoveSlot(topo, slot).near = near /\ RemoveSlot(topo, slot).edges = counts
    BY <1>1, <2>1, <2>4, <2>7, TopologyFields
  <2>9. TopologySound(RemoveSlot(topo, slot), gens)
    BY <1>3, <2>2, <2>6, <2>8, SoundByFields
  <2> QED
    BY <2>2, <2>5, <2>8, <2>9
<1> QED
  BY <1>4, <1>5

\* The rows once the neighbours of a turf are connected to it again.
Rebuilt(near, turf, back) ==
  [s \in TurfSlots |->
     IF s = turf.slot THEN back
     ELSE near[s] \union {[handle |-> turf, firelock |-> n.firelock] :
                            n \in {x \in back : x.handle.slot = s}}]

\* An edge that is connected again after its slot was removed is as it was.
LEMMA ReconnectedRows ==
  ASSUME NEW gens, NEW near, Paired(near, gens), NEW turf \in TurfHandles,
         turf.gen = gens[turf.slot] \/ near[turf.slot] = {},
         NEW back, back = near[turf.slot]
  PROVE  Rebuilt(Without(near, turf.slot), turf, back) = near
<1> DEFINE slot == turf.slot
           again(s) == {[handle |-> turf, firelock |-> n.firelock] :
                          n \in {x \in back : x.handle.slot = s}}
<1>1. near \in [TurfSlots -> SUBSET Neighbors] /\ slot \in TurfSlots
      /\ turf = Handle(slot, turf.gen)
  BY TurfHandleFacts DEF Paired, NearRows
<1>2. \A s \in TurfSlots : \A n \in near[s] :
        /\ n.handle.slot # s /\ n.handle.slot \in TurfSlots
        /\ n.handle = Handle(n.handle.slot, gens[n.handle.slot])
        /\ n = [handle |-> n.handle, firelock |-> n.firelock]
        /\ Across(s, n, gens) \in near[n.handle.slot]
        /\ Across(s, n, gens) = [handle |-> Handle(s, gens[s]), firelock |-> n.firelock]
        /\ Across(s, n, gens).handle.slot = s
        /\ Across(s, n, gens).firelock = n.firelock
  BY <1>1, NeighborFacts, TurfHandleFacts DEF Paired, Across
<1>3. back = near[slot]
  OBVIOUS
<1>4. ASSUME NEW s \in TurfSlots, s # slot
      PROVE  Without(near, slot)[s] \union again(s) = near[s]
  <2>1. Without(near, slot)[s] = {n \in near[s] : n.handle.slot # slot}
    BY <1>4 DEF Without
  <2>2. ASSUME NEW n \in near[s], n.handle.slot = slot
        PROVE  n \in again(s)
    <3> DEFINE p == Across(s, n, gens)
    <3>1. p \in back /\ p.handle.slot = s /\ p.firelock = n.firelock
      BY <1>2, <1>3, <2>2
    <3>2. near[slot] # {} /\ turf = Handle(slot, gens[slot])
      BY <1>1, <1>3, <3>1
    <3>3. n = [handle |-> turf, firelock |-> p.firelock]
      BY <1>2, <2>2, <3>1, <3>2
    <3> QED
      BY <3>1, <3>3
  <2>3. ASSUME NEW n \in back, n.handle.slot = s
        PROVE  [handle |-> turf, firelock |-> n.firelock] \in near[s]
    <3>1. near[slot] # {} /\ turf = Handle(slot, gens[slot])
      BY <1>1, <1>3, <2>3
    <3> QED
      BY <1>1, <1>2, <1>3, <2>3, <3>1
  <2> QED
    BY <2>1, <2>2, <2>3
<1> QED
  BY <1>1, <1>3, <1>4 DEF Rebuilt

OtherKind(k) == IF k = "gas" THEN "heat" ELSE "gas"

\* remove_incident_gas_edges and its twin: the edges of one kind go, those of the
\* other stay for a turf that is registered.
LEMMA RemoveEdgesSound ==
  ASSUME LifecycleConstants, NEW gens, NEW topo, TopologySound(topo, gens),
         NEW k \in EdgeKinds, NEW turf \in TurfHandles,
         \/ turf.gen = gens[turf.slot]
         \/ topo.near[OtherKind(k)][turf.slot] = {}
  PROVE  /\ TopologySound(RemoveEdges(topo, k, turf, TRUE), gens)
         /\ RemoveEdges(topo, k, turf, TRUE).near[k] = Without(topo.near[k], turf.slot)
         /\ RemoveEdges(topo, k, turf, TRUE).near[OtherKind(k)] = topo.near[OtherKind(k)]
<1> DEFINE o == OtherKind(k)
           slot == turf.slot
           gone == RemoveSlot(topo, slot)
           old == topo.near[o][slot]
           back == {n \in old : n.handle.slot # slot}
<1>1. /\ o \in EdgeKinds /\ o # k /\ EdgeKinds = {k, o}
      /\ o = IF k = "gas" THEN "heat" ELSE "gas"
  BY DEF EdgeKinds, OtherKind
<1>2. slot \in TurfSlots
  BY TurfHandleFacts
<1>3. /\ TopologySound(gone, gens)
      /\ \A i \in EdgeKinds : gone.near[i] = Without(topo.near[i], slot)
      /\ \A i \in EdgeKinds : gone.edges[i] = topo.edges[i] - Cardinality(topo.near[i][slot])
  BY <1>2, RemoveSlotSound
<1>4. RemoveEdges(topo, k, turf, TRUE) = Reconnected(gone, o, turf, old)
  BY <1>1 DEF RemoveEdges
<1> QED
  <2> DEFINE row(s) == IF s = slot THEN back
                       ELSE gone.near[o][s] \union {[handle |-> turf, firelock |-> n.firelock] :
                                                      n \in {x \in back : x.handle.slot = s}}
             near == [gone.near EXCEPT ![o] = [s \in DOMAIN gone.near[o] |-> row(s)]]
             revision == gone.revision + Cardinality(back)
                           + Cardinality({n \in back : n.firelock})
             new == Reconnected(gone, o, turf, old)
  <2>1. /\ gone \in Topologies /\ gone.near \in [EdgeKinds -> NearRows]
        /\ gone.edges \in [EdgeKinds -> Nat] /\ gone.revision \in Nat
        /\ topo \in Topologies /\ topo.near \in [EdgeKinds -> NearRows]
        /\ topo.edges \in [EdgeKinds -> Nat]
        /\ \A i \in EdgeKinds : topo.near[i] \in NearRows /\ DOMAIN gone.near[i] = TurfSlots
    BY <1>3, TopologyFields DEF TopologySound, NearRows
  <2>2. new = [gone EXCEPT !.near = near, !.edges[o] = @ + Cardinality(back), !.revision = revision]
    BY DEF Reconnected
  <2>3. back = old /\ Rebuilt(Without(topo.near[o], slot), turf, back) = topo.near[o]
    <3>1. Paired(topo.near[o], gens)
      BY <1>1 DEF TopologySound
    <3>2. turf.gen = gens[turf.slot] \/ topo.near[o][turf.slot] = {}
      OBVIOUS
    <3>3. back = old
      BY <1>2, <3>1 DEF Paired
    <3>4. back = topo.near[o][turf.slot]
      BY <3>3
    <3> HIDE DEF back, o, old
    <3>5. Rebuilt(Without(topo.near[o], turf.slot), turf, back) = topo.near[o]
      BY <3>1, <3>2, <3>4, ReconnectedRows
    <3> QED
      BY <3>3, <3>5
  <2>4. [s \in DOMAIN gone.near[o] |-> row(s)] = topo.near[o]
    BY <1>1, <1>3, <2>1, <2>3 DEF Rebuilt
  <2>5. near[o] = topo.near[o] /\ near[k] = Without(topo.near[k], slot)
        /\ near \in [EdgeKinds -> NearRows]
    BY <1>1, <1>3, <2>1, <2>4
  <2>6. IsFiniteSet(back) /\ Cardinality(back) \in Nat
        /\ Cardinality({n \in back : n.firelock}) \in Nat
    <3>1. topo.near[o] \in NearRows
      BY <1>1, <2>1
    <3>2. IsFiniteSet(topo.near[o][slot]) /\ Cardinality(topo.near[o][slot]) \in Nat
      BY <1>2, <3>1, EntriesFinite
    <3>3. back = topo.near[o][slot]
      BY <2>3
    <3>4. {n \in back : n.firelock} \in SUBSET back
      OBVIOUS
    <3> HIDE DEF back
    <3> QED
      BY <3>2, <3>3, <3>4, FS_Subset, FS_CardinalityType
  <2>7. revision \in Nat
    BY <2>1, <2>6
  <2> DEFINE counts == [gone.edges EXCEPT ![o] = @ + Cardinality(back)]
  <2>8. counts \in [EdgeKinds -> Nat] /\ counts[o] = gone.edges[o] + Cardinality(back)
        /\ counts[k] = gone.edges[k]
    BY <1>1, <2>1, <2>6
  <2>9. counts[o] = topo.edges[o]
    <3>1. gone.edges[o] = topo.edges[o] - Cardinality(back) /\ topo.edges[o] \in Nat
      BY <1>1, <1>3, <2>1, <2>3
    <3> QED
      BY <2>6, <2>8, <3>1
  <2> HIDE DEF near, revision, counts, back, old
  <2>10. new = [near |-> near, edges |-> counts, revision |-> revision]
    BY <2>1, <2>2 DEF counts, Topologies
  <2>11. new \in Topologies /\ new.near = near /\ new.edges = counts
    BY <2>5, <2>7, <2>8, <2>10, TopologyFields
  <2>12. /\ Paired(near[o], gens) /\ counts[o] * 2 = Cardinality(RowEntries(near[o]))
    BY <1>1, <2>5, <2>9 DEF TopologySound
  <2>13. /\ Paired(near[k], gens) /\ counts[k] * 2 = Cardinality(RowEntries(near[k]))
    BY <1>1, <1>3, <2>5, <2>8 DEF TopologySound
  <2>14. TopologySound(new, gens)
    BY <1>1, <2>11, <2>12, <2>13, SoundByFields
  <2> QED
    BY <1>4, <2>5, <2>11, <2>14

\* connect_gas, connect_heat.
LEMMA ConnectSound ==
  ASSUME LifecycleConstants, NEW gens, NEW topo, TopologySound(topo, gens),
         NEW k \in EdgeKinds, NEW left \in TurfHandles, NEW right \in TurfHandles,
         left.gen = gens[left.slot], right.gen = gens[right.slot],
         CanConnect(topo, k, left, right)
  PROVE  /\ TopologySound(Connect(topo, k, left, right), gens)
         /\ \A i \in EdgeKinds, s \in TurfSlots :
              Connect(topo, k, left, right).near[i][s] # {} =>
                \/ topo.near[i][s] # {}
                \/ i = k /\ s \in {left.slot, right.slot}
<1> DEFINE new == Connect(topo, k, left, right)
<1>1. CASE Connected(topo, k, left, right)
  BY <1>1 DEF Connect
<1>2. CASE ~Connected(topo, k, left, right)
  <2>1. /\ topo \in Topologies /\ topo.near \in [EdgeKinds -> NearRows]
        /\ topo.edges \in [EdgeKinds -> Nat] /\ topo.revision \in Nat
        /\ topo.near[k] \in [TurfSlots -> SUBSET Neighbors]
        /\ left.slot \in TurfSlots /\ right.slot \in TurfSlots
    BY TopologyFields, TurfHandleFacts DEF TopologySound, NearRows
  <2>2. left.slot # right.slot /\ \A n \in topo.near[k][left.slot] : n.handle # right
    BY <1>2 DEF CanConnect, Connected
  <2>3. /\ Cardinality(topo.near[k][left.slot]) < MaxTurfNeighbors
        /\ Cardinality(topo.near[k][right.slot]) < MaxTurfNeighbors
    <3>1. /\ Cardinality(topo.near[k][left.slot]) # MaxTurfNeighbors
          /\ Cardinality(topo.near[k][right.slot]) # MaxTurfNeighbors
      BY <1>2 DEF CanConnect, Full
    <3>2. /\ Cardinality(topo.near[k][left.slot]) <= MaxTurfNeighbors
          /\ Cardinality(topo.near[k][right.slot]) <= MaxTurfNeighbors
          /\ MaxTurfNeighbors \in Nat
      BY <2>1 DEF TopologySound, Paired, LifecycleConstants, TopologyConstants
    <3>3. /\ Cardinality(topo.near[k][left.slot]) \in Nat
          /\ Cardinality(topo.near[k][right.slot]) \in Nat
      BY <2>1, EntriesFinite DEF NearRows
    <3> QED
      BY <3>1, <3>2, <3>3
  <2> DEFINE row == Entered(topo.near[k], left, right, FALSE)
             near == [topo.near EXCEPT ![k] = row]
             counts == [topo.edges EXCEPT ![k] = @ + 1]
  <2>4. Paired(topo.near[k], gens) /\ topo.edges[k] * 2 = Cardinality(RowEntries(topo.near[k]))
    BY DEF TopologySound
  <2>5. Paired(row, gens) /\ Cardinality(RowEntries(row)) = Cardinality(RowEntries(topo.near[k])) + 2
    <3> DEFINE N == topo.near[k]
    <3>1. /\ Paired(N, gens) /\ \A n \in N[left.slot] : n.handle # right
          /\ Cardinality(N[left.slot]) < MaxTurfNeighbors
          /\ Cardinality(N[right.slot]) < MaxTurfNeighbors /\ FALSE \in BOOLEAN
      BY <2>2, <2>3, <2>4
    <3> HIDE DEF N
    <3>2. /\ Paired(Entered(N, left, right, FALSE), gens)
          /\ Cardinality(RowEntries(Entered(N, left, right, FALSE))) = Cardinality(RowEntries(N)) + 2
      BY <2>2, <3>1, EnteredPaired
    <3> QED
      BY <3>2 DEF N
  <2>6. new = [near |-> near, edges |-> counts, revision |-> topo.revision + 1]
    BY <1>2, <2>1, <2>2 DEF Connect, Entered, Topologies
  <2>7. \A s \in TurfSlots : s # left.slot /\ s # right.slot => row[s] = topo.near[k][s]
    BY <2>1 DEF Entered
  <2> HIDE DEF row
  <2>8. /\ near \in [EdgeKinds -> NearRows] /\ near[k] = row
        /\ \A i \in EdgeKinds : i # k => near[i] = topo.near[i]
    BY <2>1, <2>5 DEF Paired
  <2>9. /\ counts \in [EdgeKinds -> Nat] /\ counts[k] = topo.edges[k] + 1
        /\ \A i \in EdgeKinds : i # k => counts[i] = topo.edges[i]
    BY <2>1
  <2>10. counts[k] * 2 = Cardinality(RowEntries(near[k]))
    BY <2>1, <2>4, <2>5, <2>8, <2>9
  <2> HIDE DEF near, counts
  <2>11. new \in Topologies /\ new.near = near /\ new.edges = counts
    BY <2>1, <2>6, <2>8, <2>9, TopologyFields
  <2>12. \A i \in EdgeKinds : /\ Paired(near[i], gens)
                              /\ counts[i] * 2 = Cardinality(RowEntries(near[i]))
    BY <2>5, <2>8, <2>9, <2>10 DEF TopologySound
  <2>13. TopologySound(new, gens)
    BY <2>11, <2>12, SoundByFields
  <2> QED
    BY <2>7, <2>8, <2>11, <2>13
<1> QED
  BY <1>1, <1>2

\* disconnect_gas, disconnect_heat.
LEMMA DisconnectSound ==
  ASSUME LifecycleConstants, NEW gens, NEW topo, TopologySound(topo, gens),
         NEW k \in EdgeKinds, NEW left \in TurfHandles, NEW right \in TurfHandles,
         left.gen = gens[left.slot], right.gen = gens[right.slot], left.slot # right.slot
  PROVE  /\ TopologySound(Disconnect(topo, k, left, right), gens)
         /\ \A i \in EdgeKinds, s \in TurfSlots :
              Disconnect(topo, k, left, right).near[i][s] # {} => topo.near[i][s] # {}
<1> DEFINE new == Disconnect(topo, k, left, right)
<1>1. CASE ~Connected(topo, k, left, right)
  BY <1>1 DEF Disconnect
<1>2. CASE Connected(topo, k, left, right)
  <2>1. /\ topo \in Topologies /\ topo.near \in [EdgeKinds -> NearRows]
        /\ topo.edges \in [EdgeKinds -> Nat] /\ topo.revision \in Nat
        /\ topo.near[k] \in [TurfSlots -> SUBSET Neighbors]
        /\ left.slot \in TurfSlots /\ right.slot \in TurfSlots
    BY TopologyFields, TurfHandleFacts DEF TopologySound, NearRows
  <2>2. \E n \in topo.near[k][left.slot] : n.handle = right
    BY <1>2 DEF Connected
  <2> DEFINE row == Dropped(topo.near[k], left, right)
             near == [topo.near EXCEPT ![k] = row]
             counts == [topo.edges EXCEPT ![k] = @ - 1]
  <2>4. Paired(topo.near[k], gens) /\ topo.edges[k] * 2 = Cardinality(RowEntries(topo.near[k]))
    BY DEF TopologySound
  <2>5. Paired(row, gens) /\ Cardinality(RowEntries(row)) = Cardinality(RowEntries(topo.near[k])) - 2
    BY <2>2, <2>4, DroppedPaired
  <2>6. new = [near |-> near, edges |-> counts, revision |-> topo.revision + 1]
    BY <1>2, <2>1 DEF Disconnect, Dropped, Topologies
  <2>7. \A s \in TurfSlots : row[s] \subseteq topo.near[k][s]
    BY <2>1 DEF Dropped
  <2>15. Cardinality(RowEntries(row)) \in Nat
    BY <2>5, EntriesFinite DEF Paired
  <2> HIDE DEF row
  <2>8. /\ near \in [EdgeKinds -> NearRows] /\ near[k] = row
        /\ \A i \in EdgeKinds : i # k => near[i] = topo.near[i]
    BY <2>1, <2>5 DEF Paired
  <2>16. topo.edges[k] - 1 \in Nat
    BY <2>1, <2>4, <2>5, <2>15
  <2>9. /\ counts \in [EdgeKinds -> Nat] /\ counts[k] = topo.edges[k] - 1
        /\ \A i \in EdgeKinds : i # k => counts[i] = topo.edges[i]
    BY <2>1, <2>16
  <2>10. counts[k] * 2 = Cardinality(RowEntries(near[k]))
    BY <2>1, <2>4, <2>5, <2>8, <2>9
  <2> HIDE DEF near, counts
  <2>11. new \in Topologies /\ new.near = near /\ new.edges = counts
    BY <2>1, <2>6, <2>8, <2>9, TopologyFields
  <2>12. \A i \in EdgeKinds : /\ Paired(near[i], gens)
                              /\ counts[i] * 2 = Cardinality(RowEntries(near[i]))
    BY <2>5, <2>8, <2>9, <2>10 DEF TopologySound
  <2>13. TopologySound(new, gens)
    BY <2>11, <2>12, SoundByFields
  <2> QED
    BY <2>7, <2>8, <2>11, <2>13
<1> QED
  BY <1>1, <1>2

\* set_firelock changes the flag of an edge on both sides.
LEMMA SetFirelockSound ==
  ASSUME LifecycleConstants, NEW gens, NEW topo, TopologySound(topo, gens),
         NEW left \in TurfHandles, NEW right \in TurfHandles, NEW flag \in BOOLEAN,
         left.gen = gens[left.slot], right.gen = gens[right.slot],
         Connected(topo, "gas", left, right)
  PROVE  /\ TopologySound(SetFirelock(topo, left, right, flag), gens)
         /\ \A i \in EdgeKinds, s \in TurfSlots :
              SetFirelock(topo, left, right, flag).near[i][s] # {} => topo.near[i][s] # {}
<1> DEFINE new == SetFirelock(topo, left, right, flag)
           N == topo.near["gas"]
<1>0. "gas" \in EdgeKinds
  BY DEF EdgeKinds
<1>1. CASE \E n \in N[left.slot] : n.handle = right /\ n.firelock = flag
  <2>1. new = topo
    BY <1>1 DEF SetFirelock
  <2> QED
    BY <2>1
<1>2. CASE ~\E n \in N[left.slot] : n.handle = right /\ n.firelock = flag
  <2>1. /\ topo \in Topologies /\ topo.near \in [EdgeKinds -> NearRows]
        /\ topo.edges \in [EdgeKinds -> Nat] /\ topo.revision \in Nat
        /\ N \in [TurfSlots -> SUBSET Neighbors]
        /\ left.slot \in TurfSlots /\ right.slot \in TurfSlots
    BY <1>0, TopologyFields, TurfHandleFacts DEF TopologySound, NearRows
  <2>2. PICK e \in N[left.slot] : e.handle = right
    BY DEF Connected
  <2>3. Paired(N, gens) /\ topo.edges["gas"] * 2 = Cardinality(RowEntries(N))
    BY <1>0 DEF TopologySound
  <2>4. left.slot # right.slot
    BY <2>1, <2>2, <2>3 DEF Paired
  <2> DEFINE mid == Dropped(N, left, right)
             row == Entered(mid, left, right, flag)
             near == [topo.near EXCEPT !["gas"] = row]
  <2>5. /\ Paired(mid, gens) /\ \A n \in mid[left.slot] : n.handle # right
        /\ Cardinality(mid[left.slot]) = Cardinality(N[left.slot]) - 1
        /\ Cardinality(mid[right.slot]) = Cardinality(N[right.slot]) - 1
        /\ Cardinality(RowEntries(mid)) = Cardinality(RowEntries(N)) - 2
    BY <2>2, <2>3, <2>4, DroppedPaired
  <2>6. /\ Cardinality(mid[left.slot]) < MaxTurfNeighbors
        /\ Cardinality(mid[right.slot]) < MaxTurfNeighbors
    <3>1. /\ Cardinality(N[left.slot]) <= MaxTurfNeighbors
          /\ Cardinality(N[right.slot]) <= MaxTurfNeighbors /\ MaxTurfNeighbors \in Nat
      BY <2>1, <2>3 DEF Paired, LifecycleConstants, TopologyConstants
    <3>2. Cardinality(N[left.slot]) \in Nat /\ Cardinality(N[right.slot]) \in Nat
      BY <2>1, EntriesFinite DEF NearRows
    <3> QED
      BY <2>5, <3>1, <3>2
  <2>7. /\ Paired(row, gens)
        /\ Cardinality(RowEntries(row)) = Cardinality(RowEntries(mid)) + 2
    BY <2>4, <2>5, <2>6, EnteredPaired
  <2>8. Cardinality(RowEntries(row)) = Cardinality(RowEntries(N))
    <3>1. Cardinality(RowEntries(N)) \in Nat
      BY <2>3, EntriesFinite DEF Paired
    <3> HIDE DEF row, mid
    <3> QED
      BY <2>5, <2>7, <3>1
  <2> DEFINE set(ns, h) == {IF n.handle = h THEN [n EXCEPT !.firelock = flag] ELSE n : n \in ns}
  <2>9. new = [topo EXCEPT !.near["gas"][left.slot]  = set(@, right),
                           !.near["gas"][right.slot] = set(@, left),
                           !.revision = @ + 1]
    BY <1>2 DEF SetFirelock
  <2>10. \A ns \in SUBSET Neighbors, h \in TurfHandles :
           (\E n \in ns : n.handle = h)
             => set(ns, h) = {n \in ns : n.handle # h} \union {[handle |-> h, firelock |-> flag]}
    <3> TAKE ns \in SUBSET Neighbors, h \in TurfHandles
    <3> HAVE \E n \in ns : n.handle = h
    <3>1. \A n \in ns : n.handle = h => [n EXCEPT !.firelock = flag] = [handle |-> h, firelock |-> flag]
      BY DEF Neighbors
    <3> QED
      BY <3>1
  <2>11. \E n \in N[right.slot] : n.handle = left
    <3>1. Across(left.slot, e, gens) \in N[right.slot]
      BY <2>1, <2>2, <2>3 DEF Paired
    <3>2. Across(left.slot, e, gens).handle = left
      BY TurfHandleFacts DEF Across
    <3> QED
      BY <3>1, <3>2
  <2>12. /\ set(N[left.slot], right) = {n \in N[left.slot] : n.handle # right}
                                         \union {[handle |-> right, firelock |-> flag]}
         /\ set(N[right.slot], left) = {n \in N[right.slot] : n.handle # left}
                                         \union {[handle |-> left, firelock |-> flag]}
    <3>1. N[left.slot] \in SUBSET Neighbors /\ N[right.slot] \in SUBSET Neighbors
      BY <2>1
    <3>2. \E n \in N[left.slot] : n.handle = right
      BY <2>2
    <3> HIDE DEF set, N
    <3> QED
      BY <2>10, <2>11, <3>1, <3>2
  <2>13. row = [N EXCEPT ![left.slot] = set(@, right), ![right.slot] = set(@, left)]
    <3> HIDE DEF set
    <3> QED
      BY <2>1, <2>4, <2>12 DEF Entered, Dropped
  <2>14. new = [near |-> near, edges |-> topo.edges, revision |-> topo.revision + 1]
    <3> DEFINE A == set(N[left.slot], right)
               B == set(N[right.slot], left)
    <3>1. new = [topo EXCEPT !.near = [topo.near EXCEPT !["gas"] =
                   [N EXCEPT ![left.slot] = A, ![right.slot] = B]], !.revision = @ + 1]
      <4> HIDE DEF set
      <4> QED
        BY <1>0, <2>1, <2>4, <2>9 DEF Topologies
    <3>2. row = [N EXCEPT ![left.slot] = A, ![right.slot] = B]
      <4> HIDE DEF set, row
      <4> QED
        BY <2>1, <2>4, <2>13
    <3>3. [N EXCEPT ![left.slot] = A, ![right.slot] = B] = row
      BY <3>2
    <3>4. new = [topo EXCEPT !.near = near, !.revision = @ + 1]
      BY <3>1, <3>3
    <3> HIDE DEF near, new
    <3> QED
      BY <2>1, <3>4 DEF Topologies
  <2>15. \A s \in TurfSlots : row[s] # {} => N[s] # {}
    <3>1. \A s \in TurfSlots : s # left.slot /\ s # right.slot => row[s] = N[s]
      BY <2>1 DEF Entered, Dropped
    <3> HIDE DEF row
    <3> QED
      BY <2>2, <2>11, <3>1
  <2> HIDE DEF row, set
  <2>16. /\ near \in [EdgeKinds -> NearRows] /\ near["gas"] = row
         /\ \A i \in EdgeKinds : i # "gas" => near[i] = topo.near[i]
    BY <1>0, <2>1, <2>7 DEF Paired
  <2> HIDE DEF near
  <2>17. new \in Topologies /\ new.near = near /\ new.edges = topo.edges
    BY <2>1, <2>14, <2>16, TopologyFields
  <2>18. \A i \in EdgeKinds : /\ Paired(near[i], gens)
                              /\ topo.edges[i] * 2 = Cardinality(RowEntries(near[i]))
    BY <2>3, <2>7, <2>8, <2>16 DEF TopologySound
  <2>19. TopologySound(new, gens)
    BY <2>17, <2>18, SoundByFields
  <2> QED
    BY <2>15, <2>16, <2>17, <2>19
<1> QED
  BY <1>1, <1>2

(***************************************************************************)
(* Slot after slot removed, as UnregisterMixture does.                     *)
(***************************************************************************)
First(S) == CHOOSE x \in S : TRUE
RemovedWith(iter, S, topo) ==
  IF S = {} THEN topo ELSE RemoveSlot(iter[S \ {First(S)}], First(S))
Removals(S, topo) == CHOOSE iter : iter = [T \in SUBSET S |-> RemovedWith(iter, T, topo)]

LEMMA FoldIsRemovals ==
  ASSUME NEW S, NEW topo
  PROVE  FoldSet(LAMBDA s, t : RemoveSlot(t, s), topo, S) = Removals(S, topo)[S]
  BY DEF FoldSet, MapThenFoldSet, Removals, RemovedWith, First

Small(S, n) == {T \in SUBSET S : Cardinality(T) <= n}
Removing(iter, S, n, topo) == iter = [T \in Small(S, n) |-> RemovedWith(iter, T, topo)]

\* What a step of the fold takes away is in the set, and leaves a smaller one.
LEMMA FirstFacts ==
  ASSUME NEW S, IsFiniteSet(S), S # {}
  PROVE  /\ First(S) \in S /\ Cardinality(S \ {First(S)}) = Cardinality(S) - 1
         /\ Cardinality(S) \in Nat \ {0}
<1>1. First(S) \in S
  BY DEF First
<1> QED
  BY <1>1, FS_RemoveElement, FS_CardinalityType, FS_EmptySet

\* The fold is defined: removals exist for sets of every size.
LEMMA RemovingExists ==
  ASSUME NEW S, IsFiniteSet(S), NEW topo, NEW n \in Nat
  PROVE  \E iter : Removing(iter, S, n, topo)
<1> DEFINE Bad == {m \in Nat : ~\E iter : Removing(iter, S, m, topo)}
<1> SUFFICES ASSUME n \in Bad PROVE FALSE
  OBVIOUS
<1>1. PICK m \in Bad : \A y \in Bad : m <= y
  BY LeastNatural
<1>2. m \in Nat /\ ~\E iter : Removing(iter, S, m, topo)
  OBVIOUS
<1>3. \A T \in Small(S, m) : T \in SUBSET S /\ IsFiniteSet(T) /\ Cardinality(T) <= m
  BY FS_Subset DEF Small
<1>4. CASE m = 0
  <2> DEFINE iter == [T \in Small(S, m) |-> topo]
  <2>1. \A T \in Small(S, m) : T = {}
    <3> TAKE T \in Small(S, m)
    <3>1. IsFiniteSet(T) /\ Cardinality(T) <= 0 /\ Cardinality(T) \in Nat
      BY <1>3, <1>4, FS_CardinalityType
    <3> QED
      BY <3>1, FS_EmptySet
  <2>2. Removing(iter, S, m, topo)
    BY <2>1 DEF Removing, RemovedWith
  <2> QED
    BY <1>2, <2>2
<1>5. CASE m # 0
  <2>1. m - 1 \in Nat /\ m - 1 \notin Bad
    BY <1>1, <1>2, <1>5
  <2>2. PICK f : Removing(f, S, m - 1, topo)
    BY <2>1
  <2> DEFINE iter == [T \in Small(S, m) |-> RemovedWith(f, T, topo)]
  <2>3. \A T \in Small(S, m - 1) : f[T] = RemovedWith(f, T, topo)
    BY <2>2 DEF Removing
  <2>4. \A T \in Small(S, m - 1) : T \in Small(S, m)
    <3> TAKE T \in Small(S, m - 1)
    <3>1. T \in SUBSET S /\ Cardinality(T) <= m - 1 /\ Cardinality(T) \in Nat
      BY FS_Subset, FS_CardinalityType DEF Small
    <3> QED
      BY <1>2, <3>1 DEF Small
  <2>5. ASSUME NEW T \in Small(S, m)
        PROVE  RemovedWith(f, T, topo) = RemovedWith(iter, T, topo)
    <3>1. CASE T = {}
      BY <3>1 DEF RemovedWith
    <3>2. CASE T # {}
      <4> DEFINE U == T \ {First(T)}
      <4>1. U \in Small(S, m - 1)
        <5>1. T \in SUBSET S /\ IsFiniteSet(T) /\ Cardinality(T) <= m
          BY <1>3
        <5>2. Cardinality(U) = Cardinality(T) - 1 /\ Cardinality(T) \in Nat
          BY <3>2, <5>1, FirstFacts
        <5>3. U \in SUBSET S /\ Cardinality(U) <= m - 1
          BY <1>2, <5>1, <5>2
        <5> QED
          BY <5>3 DEF Small
      <4>2. f[U] = iter[U]
        BY <2>3, <2>4, <4>1
      <4> QED
        BY <3>2, <4>2 DEF RemovedWith
    <3> QED
      BY <3>1, <3>2
  <2>6. Removing(iter, S, m, topo)
    BY <2>5 DEF Removing
  <2> QED
    BY <1>2, <2>6
<1> QED
  BY <1>4, <1>5

LEMMA RemovalsStep ==
  ASSUME NEW S, IsFiniteSet(S), NEW topo, NEW T \in SUBSET S
  PROVE  Removals(S, topo)[T] = RemovedWith(Removals(S, topo), T, topo)
<1> DEFINE n == Cardinality(S)
<1>1. n \in Nat
  BY FS_CardinalityType
<1>2. Small(S, n) = SUBSET S
  BY FS_Subset DEF Small
<1>3. PICK f : Removing(f, S, n, topo)
  BY <1>1, RemovingExists
<1>4. f = [U \in SUBSET S |-> RemovedWith(f, U, topo)]
  BY <1>2, <1>3 DEF Removing
<1>5. Removals(S, topo) = [U \in SUBSET S |-> RemovedWith(Removals(S, topo), U, topo)]
  BY <1>4 DEF Removals
<1> HIDE DEF n
<1> QED
  BY <1>5

\* After the removals the topology is sound, the rows of the removed slots are
\* empty, and no row has grown.
LEMMA RemovalsSound ==
  ASSUME LifecycleConstants, NEW gens, NEW topo, TopologySound(topo, gens),
         NEW S \in SUBSET TurfSlots
  PROVE  LET done == FoldSet(LAMBDA s, t : RemoveSlot(t, s), topo, S) IN
         /\ TopologySound(done, gens)
         /\ \A k \in EdgeKinds : \A s \in TurfSlots :
              /\ s \in S => done.near[k][s] = {}
              /\ done.near[k][s] # {} => topo.near[k][s] # {}
<1> DEFINE Fine(t, T) ==
             /\ TopologySound(t, gens)
             /\ \A k \in EdgeKinds : \A s \in TurfSlots :
                  /\ s \in T => t.near[k][s] = {}
                  /\ t.near[k][s] # {} => topo.near[k][s] # {}
           iter == Removals(S, topo)
           Bad == {n \in Nat : \E T \in SUBSET S : Cardinality(T) = n /\ ~Fine(iter[T], T)}
<1>1. IsFiniteSet(S) /\ \A T \in SUBSET S : IsFiniteSet(T) /\ Cardinality(T) \in Nat
  BY FS_Subset, FS_CardinalityType DEF LifecycleConstants
<1>2. \A T \in SUBSET S : iter[T] = RemovedWith(iter, T, topo)
  BY <1>1, RemovalsStep
<1>3. ASSUME NEW T \in SUBSET S, ~Fine(iter[T], T)
      PROVE  FALSE
  <2>1. Bad \in SUBSET Nat /\ Bad # {}
    <3>1. Cardinality(T) \in Bad
      BY <1>1, <1>3
    <3> QED
      BY <3>1
  <2>2. PICK m \in Bad : \A y \in Bad : m <= y
    BY <2>1, LeastNatural
  <2>3. PICK U \in SUBSET S : Cardinality(U) = m /\ ~Fine(iter[U], U)
    BY <2>2
  <2> HIDE DEF iter
  <2>4. CASE U = {}
    <3>1. iter[U] = topo
      BY <1>2, <2>4 DEF RemovedWith
    <3>2. Fine(iter[U], U)
      BY <2>4, <3>1
    <3> QED
      BY <2>3, <3>2
  <2>5. CASE U # {}
    <3> DEFINE x == First(U)
               V == U \ {x}
               t == iter[V]
    <3>1. x \in U /\ Cardinality(V) = m - 1 /\ Cardinality(V) \in Nat /\ m \in Nat
          /\ V \in SUBSET S
      BY <1>1, <2>3, <2>5, FirstFacts
    <3>2. Fine(t, V)
      <4> SUFFICES ASSUME ~Fine(t, V) PROVE FALSE
        OBVIOUS
      <4>1. Cardinality(V) \in Bad
        BY <3>1
      <4> HIDE DEF Bad, Fine
      <4> QED
        BY <2>2, <3>1, <4>1
    <3>3. iter[U] = RemoveSlot(t, x)
      BY <1>2, <2>5 DEF RemovedWith
    <3> HIDE DEF t, V, x
    <3>4. x \in TurfSlots /\ TopologySound(t, gens)
      BY <3>1, <3>2
    <3>5. /\ TopologySound(iter[U], gens)
          /\ \A k \in EdgeKinds : iter[U].near[k] = Without(t.near[k], x)
      BY <3>3, <3>4, RemoveSlotSound
    <3>6. ASSUME NEW k \in EdgeKinds, NEW s \in TurfSlots
          PROVE  /\ s \in U => iter[U].near[k][s] = {}
                 /\ iter[U].near[k][s] # {} => topo.near[k][s] # {}
      <4>1. /\ s \in V => t.near[k][s] = {}
            /\ t.near[k][s] # {} => topo.near[k][s] # {}
        BY <3>2
      <4>2. iter[U].near[k][s] = IF s = x THEN {} ELSE {n \in t.near[k][s] : n.handle.slot # x}
        BY <3>5 DEF Without
      <4>3. s \in U => s = x \/ s \in V
        BY DEF V
      <4> QED
        BY <4>1, <4>2, <4>3
    <3>7. Fine(iter[U], U)
      BY <3>5, <3>6
    <3> QED
      BY <2>3, <3>7
  <2> QED
    BY <2>4, <2>5
<1>4. Fine(iter[S], S)
  BY <1>3
<1>5. FoldSet(LAMBDA s, t : RemoveSlot(t, s), topo, S) = iter[S]
  BY FoldIsRemovals
<1> HIDE DEF iter
<1> QED
  BY <1>4, <1>5

(***************************************************************************)
(* The edges of the registered turfs.  A row that is not empty is that of  *)
(* a turf which has what its edges carry.                                  *)
(***************************************************************************)
Carries(k, r) == r.live /\ IF k = "gas" THEN r.mixture # NoHandle ELSE r.heat # NoHeat
GensOf(T) == [s \in TurfSlots |-> T[s].gen]

RowsCarried(topo, T) ==
  \A k \in EdgeKinds : \A s \in TurfSlots : topo.near[k][s] # {} => Carries(k, T[s])
EdgeInv == TopologySound(topology, GensOf(turfs)) /\ RowsCarried(topology, turfs)

LEMMA EdgeInvGivesSound ==
  ASSUME WorldInv, EdgeInv
  PROVE  EdgesSound
<1>1. ASSUME NEW k \in EdgeKinds
      PROVE  /\ Paired(topology.near[k], GensOf(turfs))
             /\ topology.edges[k] * 2 = Cardinality(RowEntries(topology.near[k]))
             /\ topology.near[k] \in [TurfSlots -> SUBSET Neighbors]
  BY DEF EdgeInv, TopologySound, Paired, NearRows
<1>2. ASSUME NEW k \in EdgeKinds, NEW s \in TurfSlots, NEW n \in topology.near[k][s]
      PROVE  /\ Grounded(k, n.handle) /\ n.handle.slot # s
             /\ [handle |-> Handle(s, turfs[s].gen), firelock |-> n.firelock]
                  \in topology.near[k][n.handle.slot]
  <2>1. n.handle.slot \in TurfSlots
    BY <1>1, NeighborFacts
  <2>2. /\ n.handle.slot # s /\ n.handle.gen = GensOf(turfs)[n.handle.slot]
        /\ Across(s, n, GensOf(turfs)) \in topology.near[k][n.handle.slot]
    BY <1>1 DEF Paired
  <2>3. Carries(k, turfs[n.handle.slot])
    BY <2>1, <2>2 DEF EdgeInv, RowsCarried
  <2> QED
    BY <2>1, <2>2, <2>3 DEF Grounded, LiveTurf, Carries, Across, GensOf
<1>3. \A k \in EdgeKinds : \A s \in TurfSlots : Cardinality(topology.near[k][s]) <= MaxTurfNeighbors
  BY <1>1 DEF Paired
<1> QED
  BY <1>1, <1>2, <1>3 DEF EdgesSound

\* The wrap of the revision changes no edge.
LEMMA MovedSound ==
  ASSUME LifecycleConstants, NEW gens, NEW topo, TopologySound(topo, gens), Moved(topo)
  PROVE  TopologySound(topology', gens) /\ topology'.near = topo.near
<1> DEFINE r == topo.revision % RevisionWrap
<1>1. topo \in Topologies /\ topo.revision \in Nat /\ RevisionWrap \in Nat \ {0}
  BY TopologyFields DEF TopologySound, LifecycleConstants
<1>2. r \in Nat
  BY <1>1
<1>3. topology' = [topo EXCEPT !.revision = r]
  BY DEF Moved
<1> HIDE DEF r
<1>4. topology' \in Topologies /\ topology'.near = topo.near /\ topology'.edges = topo.edges
  BY <1>1, <1>2, <1>3 DEF Topologies
<1> QED
  BY <1>4 DEF TopologySound

\* A slot without edges may take another generation.
LEMMA RegeneratedSound ==
  ASSUME NEW gens, NEW other, NEW topo, TopologySound(topo, gens), NEW slot \in TurfSlots,
         \A k \in EdgeKinds : topo.near[k][slot] = {},
         \A s \in TurfSlots : s # slot => other[s] = gens[s]
  PROVE  TopologySound(topo, other)
<1>1. ASSUME NEW k \in EdgeKinds
      PROVE  Paired(topo.near[k], other)
  <2> DEFINE N == topo.near[k]
  <2>1. Paired(N, gens) /\ N[slot] = {} /\ N \in [TurfSlots -> SUBSET Neighbors]
    BY DEF TopologySound, Paired, NearRows
  <2> HIDE DEF N
  <2>2. ASSUME NEW s \in TurfSlots, NEW n \in N[s]
        PROVE  /\ n.handle.slot # s /\ n.handle.gen = other[n.handle.slot]
               /\ Across(s, n, other) \in N[n.handle.slot]
    <3>1. /\ n.handle.slot # s /\ n.handle.gen = gens[n.handle.slot]
          /\ Across(s, n, gens) \in N[n.handle.slot] /\ n.handle.slot \in TurfSlots
      BY <2>1, NeighborFacts DEF Paired
    <3>2. s # slot /\ n.handle.slot # slot
      BY <2>1, <3>1
    <3> QED
      BY <3>1, <3>2 DEF Across
  <2>3. Paired(N, other)
    BY <2>1, <2>2 DEF Paired
  <2> QED
    BY <2>3 DEF N
<1> QED
  BY <1>1 DEF TopologySound

\* The turfs after an operation, and a topology that suits them.
LEMMA EdgesFollowTurfs ==
  ASSUME LifecycleConstants, NEW topo, TopologySound(topo, GensOf(turfs)), Moved(topo),
         \A s \in TurfSlots : turfs'[s].gen = turfs[s].gen,
         RowsCarried(topo, turfs')
  PROVE  EdgeInv'
<1>1. GensOf(turfs') = GensOf(turfs)
  BY DEF GensOf
<1>2. TopologySound(topology', GensOf(turfs')) /\ topology'.near = topo.near
  BY <1>1, MovedSound
<1> QED
  BY <1>2 DEF EdgeInv, RowsCarried

LEMMA EdgesStay ==
  ASSUME EdgeInv, topology' = topology,
         \A s \in TurfSlots :
           /\ turfs'[s].gen = turfs[s].gen
           /\ turfs[s].live => turfs'[s].live
           /\ turfs[s].mixture # NoHandle => turfs'[s].mixture # NoHandle
           /\ turfs[s].heat # NoHeat => turfs'[s].heat # NoHeat
  PROVE  EdgeInv'
<1>1. GensOf(turfs') = GensOf(turfs)
  BY DEF GensOf
<1> QED
  BY <1>1 DEF EdgeInv, RowsCarried, Carries

LEMMA EdgesInitial ==
  ASSUME LifecycleConstants, Init
  PROVE  EdgeInv
<1> DEFINE row == [s \in TurfSlots |-> {}]
           near == [k \in EdgeKinds |-> row]
           counts == [k \in EdgeKinds |-> 0]
<1>1. topology = [near |-> near, edges |-> counts, revision |-> 0]
  BY DEF Init, EmptyTopology
<1>2. row \in NearRows /\ \A s \in TurfSlots : row[s] = {}
  BY DEF NearRows
<1>3. near \in [EdgeKinds -> NearRows] /\ counts \in [EdgeKinds -> Nat]
      /\ \A k \in EdgeKinds : near[k] = row /\ counts[k] = 0
  BY <1>2
<1> HIDE DEF row, near, counts
<1>4. topology \in Topologies /\ topology.near = near /\ topology.edges = counts
  BY <1>1, <1>3, TopologyFields
<1>5. Cardinality(RowEntries(row)) = 0
  <2>1. RowEntries(row) = {}
    BY <1>2, EntriesFinite
  <2> QED
    BY <2>1, FS_EmptySet
<1>6. Paired(row, GensOf(turfs))
  <2>1. Cardinality({}) = 0 /\ 0 <= MaxTurfNeighbors
    BY FS_EmptySet DEF LifecycleConstants, TopologyConstants
  <2> QED
    BY <1>2, <2>1 DEF Paired
<1>7. TopologySound(topology, GensOf(turfs))
  BY <1>3, <1>4, <1>5, <1>6, SoundByFields
<1> QED
  BY <1>2, <1>3, <1>4, <1>7 DEF EdgeInv, RowsCarried

(***************************************************************************)
(* One step of the edges per operation.                                    *)
(***************************************************************************)
\* Unregistering a mixture takes the edges of every turf that held it.
LEMMA UnregisterMixtureEdges ==
  ASSUME LifecycleConstants, WorldInv, EdgeInv, NEW h \in MixtureHandles, UnregisterMixture(h)
  PROVE  EdgeInv'
<1> DEFINE owners == mixtureTurfs[h]
           done == FoldSet(LAMBDA s, topo : RemoveSlot(topo, s), topology, owners)
<1>1. /\ turfs' = [s \in TurfSlots |->
           IF s \in owners /\ turfs[s].live THEN [turfs[s] EXCEPT !.mixture = NoHandle]
                                            ELSE turfs[s]]
      /\ Moved(done)
  BY DEF UnregisterMixture
<1>2. owners \in SUBSET TurfSlots /\ \A s \in TurfSlots : turfs[s] \in TurfRecords
  BY DEF WorldInv, TurfInv, Listed
<1>3. \A s \in TurfSlots :
        /\ turfs'[s].gen = turfs[s].gen /\ turfs'[s].live = turfs[s].live
        /\ turfs'[s].heat = turfs[s].heat
        /\ s \notin owners => turfs'[s].mixture = turfs[s].mixture
  <2> TAKE s \in TurfSlots
  <2>1. CASE s \in owners /\ turfs[s].live
    <3>1. turfs'[s] = [turfs[s] EXCEPT !.mixture = NoHandle] /\ turfs[s] \in TurfRecords
      BY <1>1, <1>2, <2>1
    <3>2. \A r \in TurfRecords : /\ [r EXCEPT !.mixture = NoHandle].gen = r.gen
                                  /\ [r EXCEPT !.mixture = NoHandle].live = r.live
                                  /\ [r EXCEPT !.mixture = NoHandle].heat = r.heat
      BY DEF TurfRecords
    <3> QED
      BY <2>1, <3>1, <3>2
  <2>2. CASE ~(s \in owners /\ turfs[s].live)
    BY <1>1, <2>2
  <2> QED
    BY <2>1, <2>2
<1> HIDE DEF owners
<1>4. /\ TopologySound(done, GensOf(turfs))
      /\ \A k \in EdgeKinds : \A s \in TurfSlots :
           /\ s \in owners => done.near[k][s] = {}
           /\ done.near[k][s] # {} => topology.near[k][s] # {}
  BY <1>2, RemovalsSound DEF EdgeInv
<1> HIDE DEF done
<1>5. RowsCarried(done, turfs')
  BY <1>3, <1>4 DEF EdgeInv, RowsCarried, Carries
<1> QED
  BY <1>1, <1>3, <1>4, <1>5, EdgesFollowTurfs

\* A slot without edges, and an operation that gives edges to no turf without.
Bare(topo, slot) == \A k \in EdgeKinds : topo.near[k][slot] = {}
NoNewRows(topo, new) ==
  \A k \in EdgeKinds : \A s \in TurfSlots : new.near[k][s] # {} => topo.near[k][s] # {}

\* Taking the edges of one kind away, of a turf that is registered and whose edges of
\* the other kind, if it has any, name its generation.
LEMMA RemovedEdges ==
  ASSUME LifecycleConstants, NEW gens, NEW topo, TopologySound(topo, gens),
         NEW k \in EdgeKinds, NEW turf \in TurfHandles,
         turf.gen = gens[turf.slot] \/ Bare(topo, turf.slot)
  PROVE  /\ TopologySound(RemoveEdges(topo, k, turf, TRUE), gens)
         /\ RemoveEdges(topo, k, turf, TRUE).near[k][turf.slot] = {}
         /\ NoNewRows(topo, RemoveEdges(topo, k, turf, TRUE))
<1> DEFINE new == RemoveEdges(topo, k, turf, TRUE)
           o == OtherKind(k)
<1>1. o \in EdgeKinds /\ EdgeKinds = {k, o} /\ turf.slot \in TurfSlots
  BY TurfHandleFacts DEF EdgeKinds, OtherKind
<1>2. /\ TopologySound(new, gens)
      /\ new.near[k] = Without(topo.near[k], turf.slot)
      /\ new.near[o] = topo.near[o]
  <2>1. \/ turf.gen = gens[turf.slot]
        \/ topo.near[OtherKind(k)][turf.slot] = {}
    BY <1>1 DEF Bare
  <2> QED
    BY <2>1, RemoveEdgesSound
<1> HIDE DEF new, o
<1>3. /\ new.near[k][turf.slot] = {}
      /\ \A s \in TurfSlots : new.near[k][s] # {} => topo.near[k][s] # {}
  BY <1>1, <1>2 DEF Without
<1> QED
  BY <1>1, <1>2, <1>3 DEF new, NoNewRows

LEMMA RegisterTurfEdges ==
  ASSUME LifecycleConstants, WorldInv, EdgeInv, NEW h \in TurfHandles,
         NEW m \in MixtureHandles \union {NoHandle}, RegisterTurf(h, m)
  PROVE  EdgeInv'
<1> DEFINE replaces == turfs[h.slot].gen # h.gen
           d     == IF replaces THEN Deactivated(h.slot)
                                ELSE [turfs |-> turfs, active |-> heatActive]
           old   == d.turfs[h.slot]
           heat  == IF replaces THEN NoHeat ELSE old.heat
           topo1 == IF replaces THEN RemoveSlot(topology, h.slot) ELSE topology
           topo2 == IF m = NoHandle THEN RemoveEdges(topo1, "gas", h, TRUE) ELSE topo1
           topo3 == IF heat = NoHeat THEN RemoveEdges(topo2, "heat", h, TRUE) ELSE topo2
           gens  == GensOf(turfs)
           r == [gen |-> h.gen, live |-> TRUE, mixture |-> m, heat |-> heat,
                 index |-> IF replaces THEN 0 ELSE old.index]
<1>0. /\ h.slot \in TurfSlots /\ Listed(turfs, heatActive) /\ TopologySound(topology, gens)
      /\ "gas" \in EdgeKinds /\ "heat" \in EdgeKinds /\ EdgeKinds = {"gas", "heat"}
  BY TurfHandleFacts DEF WorldInv, TurfInv, EdgeInv, EdgeKinds
<1>1. turfs' = [d.turfs EXCEPT ![h.slot] = r] /\ Moved(topo3)
  BY DEF RegisterTurf
<1>2. /\ d.turfs \in [TurfSlots -> TurfRecords]
      /\ \A s \in TurfSlots : /\ d.turfs[s].gen = turfs[s].gen
                              /\ d.turfs[s].live = turfs[s].live
                              /\ d.turfs[s].mixture = turfs[s].mixture
                              /\ d.turfs[s].heat = turfs[s].heat
  <2>1. CASE replaces
    BY <1>0, <2>1, DeactivatedListed DEF Listed
  <2>2. CASE ~replaces
    BY <1>0, <2>2 DEF Listed
  <2> QED
    BY <2>1, <2>2
<1> HIDE DEF d
<1>3. /\ turfs'[h.slot].gen = h.gen /\ turfs'[h.slot].live
      /\ turfs'[h.slot].mixture = m /\ turfs'[h.slot].heat = heat
      /\ \A s \in TurfSlots : s # h.slot =>
           /\ turfs'[s].gen = turfs[s].gen /\ turfs'[s].live = turfs[s].live
           /\ turfs'[s].mixture = turfs[s].mixture /\ turfs'[s].heat = turfs[s].heat
  BY <1>0, <1>1, <1>2
<1>4. TopologySound(topo1, gens) /\ NoNewRows(topology, topo1) /\ (replaces => Bare(topo1, h.slot))
  <2>1. CASE replaces
    <3> DEFINE t == RemoveSlot(topology, h.slot)
    <3>1. TopologySound(t, gens) /\ \A k \in EdgeKinds : t.near[k] = Without(topology.near[k], h.slot)
      BY <1>0, RemoveSlotSound
    <3>2. topo1 = t
      BY <2>1
    <3> HIDE DEF t, topo1
    <3> QED
      BY <1>0, <3>1, <3>2 DEF Without, Bare, NoNewRows
  <2>2. CASE ~replaces
    BY <1>0, <2>2 DEF NoNewRows
  <2> QED
    BY <2>1, <2>2
<1>5. gens[h.slot] = turfs[h.slot].gen
  BY <1>0 DEF GensOf
<1>6. h.gen = gens[h.slot] \/ Bare(topo1, h.slot)
  BY <1>4, <1>5
<1> HIDE DEF topo1, gens
<1>7. /\ TopologySound(topo2, gens) /\ NoNewRows(topo1, topo2)
      /\ m = NoHandle => topo2.near["gas"][h.slot] = {}
  <2>1. CASE m = NoHandle
    <3> DEFINE t == RemoveEdges(topo1, "gas", h, TRUE)
    <3>1. TopologySound(t, gens) /\ t.near["gas"][h.slot] = {} /\ NoNewRows(topo1, t)
      BY <1>0, <1>4, <1>6, RemovedEdges
    <3>2. topo2 = t
      BY <2>1
    <3> HIDE DEF t
    <3> QED
      BY <3>1, <3>2
  <2>2. CASE m # NoHandle
    BY <1>4, <2>2 DEF NoNewRows
  <2> QED
    BY <2>1, <2>2
<1>8. h.gen = gens[h.slot] \/ Bare(topo2, h.slot)
  BY <1>0, <1>6, <1>7 DEF Bare, NoNewRows
<1> HIDE DEF topo2, heat
<1>9. /\ TopologySound(topo3, gens) /\ NoNewRows(topo2, topo3)
      /\ heat = NoHeat => topo3.near["heat"][h.slot] = {}
  <2>1. CASE heat = NoHeat
    <3> DEFINE t == RemoveEdges(topo2, "heat", h, TRUE)
    <3>1. TopologySound(t, gens) /\ t.near["heat"][h.slot] = {} /\ NoNewRows(topo2, t)
      BY <1>0, <1>7, <1>8, RemovedEdges
    <3>2. topo3 = t
      BY <2>1
    <3> HIDE DEF t
    <3> QED
      BY <3>1, <3>2
  <2>2. CASE heat # NoHeat
    BY <1>7, <2>2 DEF NoNewRows
  <2> QED
    BY <2>1, <2>2
<1> HIDE DEF topo3
<1>10. NoNewRows(topology, topo3) /\ (replaces => Bare(topo3, h.slot))
       /\ (m = NoHandle => topo3.near["gas"][h.slot] = {})
  BY <1>0, <1>4, <1>7, <1>9 DEF Bare, NoNewRows
<1>11. TopologySound(topo3, GensOf(turfs'))
  <2>1. \A s \in TurfSlots : s # h.slot => GensOf(turfs')[s] = gens[s]
    BY <1>3 DEF GensOf, gens
  <2>2. CASE replaces
    BY <1>0, <1>9, <1>10, <2>1, <2>2, RegeneratedSound DEF Bare
  <2>3. CASE ~replaces
    <3>1. GensOf(turfs') = gens
      BY <1>0, <1>3, <2>3 DEF GensOf, gens
    <3> QED
      BY <1>9, <3>1
  <2> QED
    BY <2>2, <2>3
<1>12. RowsCarried(topo3, turfs')
  <2> SUFFICES ASSUME NEW k \in EdgeKinds, NEW s \in TurfSlots, topo3.near[k][s] # {}
               PROVE  Carries(k, turfs'[s])
    BY DEF RowsCarried
  <2>1. CASE s # h.slot
    BY <1>3, <1>10, <2>1 DEF EdgeInv, RowsCarried, Carries, NoNewRows
  <2>2. CASE s = h.slot
    BY <1>0, <1>3, <1>9, <1>10, <2>2 DEF Carries
  <2> QED
    BY <2>1, <2>2
<1>13. TopologySound(topology', GensOf(turfs')) /\ topology'.near = topo3.near
  BY <1>1, <1>11, MovedSound
<1> QED
  BY <1>12, <1>13 DEF EdgeInv, RowsCarried

LEMMA WithoutKeeps ==
  ASSUME NEW near, NEW slot, NEW s \in TurfSlots, Without(near, slot)[s] # {}
  PROVE  s # slot /\ near[s] # {}
<1>1. Without(near, slot)[s] = IF s = slot THEN {} ELSE {n \in near[s] : n.handle.slot # slot}
  BY DEF Without
<1>2. s # slot
  BY <1>1
<1>3. Without(near, slot)[s] \subseteq near[s]
  BY <1>1, <1>2
<1> QED
  BY <1>2, <1>3

LEMMA UnregisterTurfEdges ==
  ASSUME LifecycleConstants, WorldInv, EdgeInv, NEW h \in TurfHandles, UnregisterTurf(h)
  PROVE  EdgeInv'
<1> DEFINE d == Deactivated(h.slot)
           gone == RemoveSlot(topology, h.slot)
<1>1. /\ h.slot \in TurfSlots /\ Listed(turfs, heatActive)
      /\ TopologySound(topology, GensOf(turfs)) /\ turfs[h.slot].gen = h.gen
  BY TurfHandleFacts DEF WorldInv, TurfInv, EdgeInv, UnregisterTurf, MayUnregister
<1>2. RemoveEdges(gone, "heat", h, FALSE) = RemoveSlot(gone, h.slot)
  BY DEF RemoveEdges
<1>3. /\ turfs' = [d.turfs EXCEPT ![h.slot] = EmptyTurf(h.gen)]
      /\ Moved(RemoveSlot(gone, h.slot))
  BY <1>2 DEF UnregisterTurf
<1>4. /\ d.turfs \in [TurfSlots -> TurfRecords]
      /\ \A s \in TurfSlots : /\ d.turfs[s].gen = turfs[s].gen
                              /\ d.turfs[s].live = turfs[s].live
                              /\ d.turfs[s].mixture = turfs[s].mixture
                              /\ d.turfs[s].heat = turfs[s].heat
  BY <1>1, DeactivatedListed DEF Listed
<1> HIDE DEF d
<1>5. /\ turfs'[h.slot].gen = h.gen
      /\ \A s \in TurfSlots : s # h.slot =>
           /\ turfs'[s].gen = turfs[s].gen /\ turfs'[s].live = turfs[s].live
           /\ turfs'[s].mixture = turfs[s].mixture /\ turfs'[s].heat = turfs[s].heat
  BY <1>1, <1>3, <1>4 DEF EmptyTurf
<1>6. /\ TopologySound(gone, GensOf(turfs))
      /\ \A k \in EdgeKinds : gone.near[k] = Without(topology.near[k], h.slot)
  BY <1>1, RemoveSlotSound
<1> HIDE DEF gone
<1>7. /\ TopologySound(RemoveSlot(gone, h.slot), GensOf(turfs))
      /\ \A k \in EdgeKinds : RemoveSlot(gone, h.slot).near[k] = Without(gone.near[k], h.slot)
  BY <1>1, <1>6, RemoveSlotSound
<1>8. RowsCarried(RemoveSlot(gone, h.slot), turfs')
  <2> SUFFICES ASSUME NEW k \in EdgeKinds, NEW s \in TurfSlots,
                      RemoveSlot(gone, h.slot).near[k][s] # {}
               PROVE  Carries(k, turfs'[s])
    BY DEF RowsCarried
  <2>1. s # h.slot /\ gone.near[k][s] # {}
    BY <1>7, WithoutKeeps
  <2>2. topology.near[k][s] # {}
    BY <1>6, <2>1, WithoutKeeps
  <2> QED
    BY <1>5, <2>1, <2>2 DEF EdgeInv, RowsCarried, Carries
<1> QED
  BY <1>1, <1>3, <1>5, <1>7, <1>8, EdgesFollowTurfs

\* A turf that loses its place in the active list keeps what edges need; one whose
\* heat is set as well has it then, or has none.
LEMMA DeactivatedKeeps ==
  ASSUME WorldInv, NEW h \in TurfHandles, NEW heat \in Heats \union {NoHeat},
         DeactivateTurfHeat(h, heat)
  PROVE  \A s \in TurfSlots :
           /\ turfs'[s].gen = turfs[s].gen /\ turfs'[s].live = turfs[s].live
           /\ turfs'[s].mixture = turfs[s].mixture
           /\ turfs'[s].heat = IF s = h.slot THEN heat ELSE turfs[s].heat
<1> DEFINE d == Deactivated(h.slot)
<1>1. h.slot \in TurfSlots /\ Listed(turfs, heatActive)
  BY TurfHandleFacts DEF WorldInv, TurfInv
<1>2. /\ d.turfs \in [TurfSlots -> TurfRecords]
      /\ \A s \in TurfSlots : /\ d.turfs[s].gen = turfs[s].gen
                              /\ d.turfs[s].live = turfs[s].live
                              /\ d.turfs[s].mixture = turfs[s].mixture
                              /\ d.turfs[s].heat = turfs[s].heat
  BY <1>1, DeactivatedListed DEF Listed
<1>3. turfs' = [d.turfs EXCEPT ![h.slot] = [d.turfs[h.slot] EXCEPT !.heat = heat]]
  BY DEF DeactivateTurfHeat
<1> HIDE DEF d
<1>4. \A s \in TurfSlots : turfs'[s] = IF s = h.slot THEN [d.turfs[s] EXCEPT !.heat = heat]
                                                     ELSE d.turfs[s]
  BY <1>2, <1>3
<1> TAKE s \in TurfSlots
<1>6. CASE s = h.slot
  <2> DEFINE r == d.turfs[s]
  <2>1. r \in TurfRecords /\ turfs'[s] = [r EXCEPT !.heat = heat]
    BY <1>2, <1>4, <1>6
  <2> HIDE DEF r
  <2>2. /\ [r EXCEPT !.heat = heat].gen = r.gen /\ [r EXCEPT !.heat = heat].live = r.live
        /\ [r EXCEPT !.heat = heat].mixture = r.mixture
        /\ [r EXCEPT !.heat = heat].heat = heat
    BY <2>1 DEF TurfRecords
  <2> QED
    BY <1>2, <1>6, <2>1, <2>2 DEF r
<1>7. CASE s # h.slot
  BY <1>2, <1>4, <1>7
<1> QED
  BY <1>6, <1>7

LEMMA ClearTurfHeatEdges ==
  ASSUME LifecycleConstants, WorldInv, EdgeInv, NEW h \in TurfHandles, ClearTurfHeat(h)
  PROVE  EdgeInv'
<1> DEFINE new == RemoveEdges(topology, "heat", h, TRUE)
<1>1. /\ h.slot \in TurfSlots /\ "heat" \in EdgeKinds
      /\ TopologySound(topology, GensOf(turfs)) /\ h.gen = GensOf(turfs)[h.slot]
  BY TurfHandleFacts DEF EdgeInv, ClearTurfHeat, LiveTurf, GensOf, EdgeKinds
<1>2. DeactivateTurfHeat(h, NoHeat) /\ Moved(new)
  BY DEF ClearTurfHeat
<1>3. NoHeat \in Heats \union {NoHeat}
  OBVIOUS
<1>4. \A s \in TurfSlots :
        /\ turfs'[s].gen = turfs[s].gen /\ turfs'[s].live = turfs[s].live
        /\ turfs'[s].mixture = turfs[s].mixture
        /\ turfs'[s].heat = IF s = h.slot THEN NoHeat ELSE turfs[s].heat
  BY <1>2, <1>3, DeactivatedKeeps
<1>5. TopologySound(new, GensOf(turfs)) /\ new.near["heat"][h.slot] = {} /\ NoNewRows(topology, new)
  BY <1>1, RemovedEdges
<1> HIDE DEF new
<1>6. RowsCarried(new, turfs')
  BY <1>4, <1>5 DEF EdgeInv, RowsCarried, Carries, NoNewRows, EdgeKinds
<1> QED
  BY <1>2, <1>4, <1>5, <1>6, EdgesFollowTurfs

LEMMA HeatSetEdges ==
  ASSUME LifecycleConstants, WorldInv, EdgeInv, NEW h \in TurfHandles, NEW heat \in Heats,
         SetTurfHeat(h, heat) \/ FailTurfHeat(h, heat)
  PROVE  EdgeInv'
<1>1. topology' = topology
  BY DEF SetTurfHeat, FailTurfHeat
<1>2. heat \in Heats \union {NoHeat} /\ heat # NoHeat /\ h.slot \in TurfSlots
  BY TurfHandleFacts DEF Heats, NoHeat
<1>3. turfs \in [TurfSlots -> TurfRecords] /\ heatActive \in Seq(TurfHandles)
  BY DEF WorldInv, TurfInv, Listed
<1>4. CASE DeactivateTurfHeat(h, heat)
  BY <1>1, <1>2, <1>4, DeactivatedKeeps, EdgesStay
<1>5. ASSUME turfs' = [turfs EXCEPT ![h.slot].heat = heat]
      PROVE  EdgeInv'
  BY <1>1, <1>2, <1>3, <1>5, EdgesStay, TurfRecordFields
<1>6. ASSUME turfs' = [turfs EXCEPT ![h.slot].heat = heat, ![h.slot].index = Len(heatActive) + 1]
      PROVE  EdgeInv'
  <2>1. Len(heatActive) + 1 \in Nat
    BY <1>3, LenProperties
  <2>2. \A s \in TurfSlots : turfs'[s] = IF s = h.slot
          THEN [[turfs[s] EXCEPT !.heat = heat] EXCEPT !.index = Len(heatActive) + 1]
          ELSE turfs[s]
    BY <1>2, <1>3, <1>6
  <2>3. [turfs[h.slot] EXCEPT !.heat = heat] \in TurfRecords
    BY <1>2, <1>3, TurfRecordFields
  <2>4. \A s \in TurfSlots :
          /\ turfs'[s].gen = turfs[s].gen
          /\ turfs'[s].live = turfs[s].live
          /\ turfs'[s].mixture = turfs[s].mixture
          /\ turfs'[s].heat = IF s = h.slot THEN heat ELSE turfs[s].heat
    <3> TAKE s \in TurfSlots
    <3>1. CASE s = h.slot
      <4> DEFINE r == turfs[s]
                 i == Len(heatActive) + 1
      <4>1. r \in TurfRecords /\ i \in Nat /\ turfs'[s] = [[r EXCEPT !.heat = heat] EXCEPT !.index = i]
        BY <1>2, <1>3, <2>1, <2>2, <3>1
      <4> HIDE DEF r, i
      <4>2. /\ [[r EXCEPT !.heat = heat] EXCEPT !.index = i].gen = r.gen
            /\ [[r EXCEPT !.heat = heat] EXCEPT !.index = i].live = r.live
            /\ [[r EXCEPT !.heat = heat] EXCEPT !.index = i].mixture = r.mixture
            /\ [[r EXCEPT !.heat = heat] EXCEPT !.index = i].heat = heat
        BY <4>1 DEF TurfRecords
      <4> QED
        BY <3>1, <4>1, <4>2 DEF r
    <3>2. CASE s # h.slot
      BY <2>2, <3>2
    <3> QED
      BY <3>1, <3>2
  <2> QED
    BY <1>1, <1>2, <2>4, EdgesStay
<1>7. CASE SetTurfHeat(h, heat)
  <2>1. PICK a : IF Activates(h, a) THEN ActivateTurfHeat(h, heat) ELSE DeactivateTurfHeat(h, heat)
    BY <1>7 DEF SetTurfHeat
  <2>2. ActivateTurfHeat(h, heat) => EdgeInv'
    BY <1>5, <1>6 DEF ActivateTurfHeat
  <2> QED
    BY <1>4, <2>1, <2>2
<1>8. CASE FailTurfHeat(h, heat)
  BY <1>5, <1>8 DEF FailTurfHeat
<1> QED
  BY <1>7, <1>8

\* The turfs stay as they are when edges come and go.
LEMMA ConnectTurfsEdges ==
  ASSUME LifecycleConstants, EdgeInv, NEW k \in EdgeKinds,
         NEW left \in TurfHandles, NEW right \in TurfHandles, ConnectTurfs(k, left, right)
  PROVE  EdgeInv'
<1> DEFINE new == Connect(topology, k, left, right)
<1>1. /\ Moved(new) /\ turfs' = turfs /\ CanConnect(topology, k, left, right)
      /\ Grounded(k, left) /\ Grounded(k, right)
  BY DEF ConnectTurfs
<1>2. /\ left.slot \in TurfSlots /\ right.slot \in TurfSlots
      /\ left.gen = GensOf(turfs)[left.slot] /\ right.gen = GensOf(turfs)[right.slot]
      /\ Carries(k, turfs[left.slot]) /\ Carries(k, turfs[right.slot])
  BY <1>1, TurfHandleFacts DEF Grounded, LiveTurf, Carries, GensOf
<1>3. /\ TopologySound(new, GensOf(turfs))
      /\ \A i \in EdgeKinds, s \in TurfSlots :
           new.near[i][s] # {} => \/ topology.near[i][s] # {}
                                  \/ i = k /\ s \in {left.slot, right.slot}
  BY <1>1, <1>2, ConnectSound DEF EdgeInv
<1> HIDE DEF new
<1>4. RowsCarried(new, turfs')
  BY <1>1, <1>2, <1>3 DEF EdgeInv, RowsCarried
<1> QED
  BY <1>1, <1>3, <1>4, EdgesFollowTurfs

LEMMA DisconnectTurfsEdges ==
  ASSUME LifecycleConstants, EdgeInv, NEW k \in EdgeKinds,
         NEW left \in TurfHandles, NEW right \in TurfHandles, DisconnectTurfs(k, left, right)
  PROVE  EdgeInv'
<1> DEFINE new == Disconnect(topology, k, left, right)
<1>1. /\ Moved(new) /\ turfs' = turfs /\ left.slot # right.slot
      /\ Grounded(k, left) /\ Grounded(k, right)
  BY DEF DisconnectTurfs
<1>2. left.gen = GensOf(turfs)[left.slot] /\ right.gen = GensOf(turfs)[right.slot]
  BY <1>1, TurfHandleFacts DEF Grounded, LiveTurf, GensOf
<1>3. /\ TopologySound(new, GensOf(turfs))
      /\ \A i \in EdgeKinds, s \in TurfSlots : new.near[i][s] # {} => topology.near[i][s] # {}
  BY <1>1, <1>2, DisconnectSound DEF EdgeInv
<1> HIDE DEF new
<1>4. RowsCarried(new, turfs')
  BY <1>1, <1>3 DEF EdgeInv, RowsCarried
<1> QED
  BY <1>1, <1>3, <1>4, EdgesFollowTurfs

LEMMA ApplyFirelockEdges ==
  ASSUME LifecycleConstants, EdgeInv, NEW left \in TurfHandles, NEW right \in TurfHandles,
         NEW flag \in BOOLEAN, ApplyFirelock(left, right, flag)
  PROVE  EdgeInv'
<1> DEFINE new == SetFirelock(topology, left, right, flag)
<1>1. /\ Moved(new) /\ turfs' = turfs /\ Connected(topology, "gas", left, right)
      /\ LiveTurf(left) /\ LiveTurf(right)
  BY DEF ApplyFirelock
<1>2. left.gen = GensOf(turfs)[left.slot] /\ right.gen = GensOf(turfs)[right.slot]
  BY <1>1, TurfHandleFacts DEF LiveTurf, GensOf
<1>3. /\ TopologySound(new, GensOf(turfs))
      /\ \A i \in EdgeKinds, s \in TurfSlots : new.near[i][s] # {} => topology.near[i][s] # {}
  BY <1>1, <1>2, SetFirelockSound DEF EdgeInv
<1> HIDE DEF new
<1>4. RowsCarried(new, turfs')
  BY <1>1, <1>3 DEF EdgeInv, RowsCarried
<1> QED
  BY <1>1, <1>3, <1>4, EdgesFollowTurfs

LEMMA EdgesKept ==
  ASSUME LifecycleConstants, WorldInv, EdgeInv, [Next]_vars
  PROVE  EdgeInv'
<1>1. ASSUME UNCHANGED <<turfs, topology>>
      PROVE  EdgeInv'
  BY <1>1, EdgesStay
<1>2. ASSUME NEW h \in MixtureHandles, RegisterMixture(h)
      PROVE  EdgeInv'
  BY <1>1, <1>2 DEF RegisterMixture, turfVars
<1>3. ASSUME NEW h \in MixtureHandles, UnregisterMixture(h)
      PROVE  EdgeInv'
  BY <1>3, UnregisterMixtureEdges
<1>4. ASSUME NEW l, NEW r, ApplyAdjacency(l, r) \/ FailAdjacency(l, r)
      PROVE  EdgeInv'
  BY <1>1, <1>4 DEF ApplyAdjacency, FailAdjacency, turfVars
<1>5. ASSUME NEW h \in TurfHandles, NEW m \in MixtureHandles \union {NoHandle}, RegisterTurf(h, m)
      PROVE  EdgeInv'
  BY <1>5, RegisterTurfEdges
<1>6. ASSUME NEW h \in TurfHandles, UnregisterTurf(h) \/ ClearTurfHeat(h)
      PROVE  EdgeInv'
  BY <1>6, UnregisterTurfEdges, ClearTurfHeatEdges
<1>7. ASSUME NEW h \in TurfHandles, NEW heat \in Heats, SetTurfHeat(h, heat) \/ FailTurfHeat(h, heat)
      PROVE  EdgeInv'
  BY <1>7, HeatSetEdges
<1>8. ASSUME NEW l \in TurfHandles, NEW r \in TurfHandles, NEW k \in EdgeKinds,
             ConnectTurfs(k, l, r) \/ DisconnectTurfs(k, l, r)
      PROVE  EdgeInv'
  BY <1>8, ConnectTurfsEdges, DisconnectTurfsEdges
<1>9. ASSUME NEW l \in TurfHandles, NEW r \in TurfHandles, NEW flag \in BOOLEAN,
             ApplyFirelock(l, r, flag)
      PROVE  EdgeInv'
  BY <1>9, ApplyFirelockEdges
<1>10. CASE ToggleStage \/ UNCHANGED vars
  BY <1>1, <1>10 DEF ToggleStage, vars, turfVars
<1> QED
  BY <1>2, <1>3, <1>4, <1>5, <1>6, <1>7, <1>8, <1>9, <1>10 DEF Next

\* HandlesCurrent: what the world looks up through the reverse indexes and the
\* heat list is what a scan finds; every edge of a turf is entered on both sides,
\* names two registered turfs that have what it carries, and is counted once; and
\* when no client registers over a live mixture, no turf names one that is gone.
THEOREM HandlesTheorem == ASSUME LifecycleConstants PROVE Spec => []HandlesCurrent
<1> DEFINE Entries == ~ReplacesLive => EntriesCurrent
<1>1. Init => WorldInv /\ Entries /\ EdgeInv
  <2>1. Init => EntriesCurrent
    BY DEF Init, EntriesCurrent
  <2> QED
    BY <2>1, WorldInitial, EdgesInitial
<1>2. WorldInv /\ Entries /\ EdgeInv /\ [Next]_vars => WorldInv' /\ Entries' /\ EdgeInv'
  BY WorldKept, EntriesKept, EdgesKept
<1>3. WorldInv /\ Entries /\ EdgeInv => HandlesCurrent
  BY InvGivesProperties, CurrentByEntries, EdgeInvGivesSound DEF HandlesCurrent
<1> QED
  BY <1>1, <1>2, <1>3, PTL DEF Spec

(***************************************************************************)
(* The cached graph of the mixtures.                                       *)
(***************************************************************************)
\* GraphFresh: while no adjacency batch fails half-way, a cached mixture graph is
\* that of the registered mixtures and the edges (apply_adjacency, the clearing of
\* mixture_graph in apply_lifecycle).
THEOREM GraphTheorem ==
  ASSUME LifecycleConstants, ~FailingBatches PROVE Spec => []GraphFresh
<1>1. Init => GraphFresh
  BY DEF Init, GraphFresh
<1>2. GraphFresh /\ [Next]_vars => GraphFresh'
  <2> SUFFICES ASSUME GraphFresh, [Next]_vars
               PROVE  GraphFresh'
    OBVIOUS
  <2>1. CASE UNCHANGED <<mixtures, edges, graph>>
    BY <2>1 DEF GraphFresh, BuiltGraph
  <2>2. ASSUME NEW h \in MixtureHandles, RegisterMixture(h)
        PROVE  GraphFresh'
    BY <2>1, <2>2 DEF RegisterMixture, WithoutMixtureEdges, mixtureVars, GraphFresh
  <2>3. ASSUME NEW h \in MixtureHandles, UnregisterMixture(h)
        PROVE  GraphFresh'
    BY <2>3 DEF UnregisterMixture, WithoutMixtureEdges, GraphFresh
  <2>4. ASSUME NEW l, NEW r, ApplyAdjacency(l, r)
        PROVE  GraphFresh'
    <3>1. graph' = BuiltGraph(mixtures, edges') /\ mixtures' = mixtures
      BY <2>4 DEF ApplyAdjacency
    <3> QED
      BY <3>1 DEF GraphFresh, BuiltGraph
  <2>5. ASSUME NEW l, NEW r, FailAdjacency(l, r)
        PROVE  FALSE
    BY <2>5 DEF FailAdjacency
  <2>6. ASSUME NEW h, NEW m, RegisterTurf(h, m) \/ UnregisterTurf(h)
        PROVE  UNCHANGED <<mixtures, edges, graph>>
    BY <2>6 DEF RegisterTurf, UnregisterTurf, mixtureVars
  <2>7. ASSUME NEW h, NEW heat, SetTurfHeat(h, heat) \/ FailTurfHeat(h, heat) \/ ClearTurfHeat(h)
        PROVE  UNCHANGED <<mixtures, edges, graph>>
    BY <2>7 DEF SetTurfHeat, FailTurfHeat, ClearTurfHeat, mixtureVars
  <2>8. ASSUME NEW k, NEW l, NEW r, NEW flag,
               ConnectTurfs(k, l, r) \/ DisconnectTurfs(k, l, r) \/ ApplyFirelock(l, r, flag)
        PROVE  UNCHANGED <<mixtures, edges, graph>>
    BY <2>8 DEF ConnectTurfs, DisconnectTurfs, ApplyFirelock, mixtureVars
  <2>9. CASE ToggleStage \/ UNCHANGED vars
    BY <2>1, <2>9 DEF ToggleStage, vars, mixtureVars, turfVars
  <2> QED
    BY <2>1, <2>2, <2>3, <2>4, <2>5, <2>6, <2>7, <2>8, <2>9 DEF Next
<1> QED
  BY <1>1, <1>2, PTL DEF Spec

(***************************************************************************)
(* The world under a stage.                                                *)
(***************************************************************************)
\* While a stage is active no batch touches turfs, heat, turf edges or a registered
\* mixture: the guards of every apply_ function of world.rs that a stage must not
\* race with are there, and registering adds mixtures only.
THEOREM FixedTheorem ==
  ASSUME LifecycleConstants PROVE Spec => [][FixedUnderStage]_vars
<1>1. WorldInv /\ [Next]_vars => [FixedUnderStage]_vars
  <2> SUFFICES ASSUME WorldInv, [Next]_vars, staging, staging'
               PROVE  /\ UNCHANGED <<turfs, heatActive, mixtureTurfs, topology>>
                      /\ \A h \in MixtureHandles : Live(h) => Live(h)'
    BY DEF FixedUnderStage
  <2>0. mixtures \in [MixtureSlots -> MixtureRecords]
    BY DEF WorldInv
  <2>1. CASE UNCHANGED <<turfs, heatActive, mixtureTurfs, topology, mixtures>>
    BY <2>1 DEF Live
  <2>2. ASSUME NEW h \in MixtureHandles, RegisterMixture(h)
        PROVE  /\ UNCHANGED <<turfs, heatActive, mixtureTurfs, topology>>
               /\ \A k \in MixtureHandles : Live(k) => Live(k)'
    <3>1. UNCHANGED <<turfs, heatActive, mixtureTurfs, topology>>
      BY <2>2 DEF RegisterMixture, turfVars
    <3>2. CASE Live(h)
      BY <2>2, <3>1, <3>2 DEF RegisterMixture, mixtureVars, Live
    <3>3. CASE ~Live(h)
      <4>1. ~mixtures[h.slot].live
        BY <2>0, <2>2, <3>3, LiveFacts DEF RegisterMixture, MayRegister
      <4>2. \A k \in MixtureHandles : Live(k) => k.slot # h.slot
        BY <2>0, <4>1, LiveFacts
      <4>3. mixtures' = [mixtures EXCEPT ![h.slot] = [gen |-> h.gen, live |-> TRUE]]
        BY <2>2, <3>3 DEF RegisterMixture
      <4> QED
        BY <2>0, <3>1, <4>2, <4>3 DEF Live
    <3> QED
      BY <3>2, <3>3
  <2>3. ASSUME NEW h, NEW m, UnregisterMixture(h) \/ RegisterTurf(h, m) \/ UnregisterTurf(h)
        PROVE  FALSE
    BY <2>3 DEF UnregisterMixture, RegisterTurf, UnregisterTurf
  <2>4. ASSUME NEW l, NEW r, ApplyAdjacency(l, r) \/ FailAdjacency(l, r)
        PROVE  UNCHANGED <<turfs, heatActive, mixtureTurfs, topology, mixtures>>
    BY <2>4 DEF ApplyAdjacency, FailAdjacency, turfVars
  <2>5. ASSUME NEW h, NEW heat, SetTurfHeat(h, heat) \/ FailTurfHeat(h, heat) \/ ClearTurfHeat(h)
        PROVE  FALSE
    BY <2>5 DEF SetTurfHeat, FailTurfHeat, ClearTurfHeat
  <2>6. ASSUME NEW k, NEW l, NEW r, NEW flag,
               ConnectTurfs(k, l, r) \/ DisconnectTurfs(k, l, r) \/ ApplyFirelock(l, r, flag)
        PROVE  FALSE
    BY <2>6 DEF ConnectTurfs, DisconnectTurfs, ApplyFirelock
  <2>7. ASSUME ToggleStage
        PROVE  FALSE
    BY <2>7 DEF ToggleStage
  <2>8. CASE UNCHANGED vars
    BY <2>1, <2>8 DEF vars
  <2> QED
    BY <2>1, <2>2, <2>3, <2>4, <2>5, <2>6, <2>7, <2>8 DEF Next
<1> QED
  BY <1>1, WorldInvariant, PTL DEF Spec

(***************************************************************************)
(* The two passes of a batch of adjacency mutations, step by step.         *)
(***************************************************************************)
\* The mutations one pass takes, and what it makes of the topology.
PassAccepts(pass, topo, m) ==
  LET left == Batch!Turf(m.left)  right == Batch!Turf(m.right) IN
  IF pass = "adjacency"
    THEN /\ Batch!Pair(m) \subseteq open /\ m.left # m.right
         /\ m.connected => Batch!CanConnect(topo, "gas", left, right)
    ELSE m.connected => Batch!Connected(topo, "gas", left, right)
PassResult(pass, topo, m) ==
  LET left == Batch!Turf(m.left)  right == Batch!Turf(m.right) IN
  IF pass = "adjacency"
    THEN IF m.connected THEN Batch!Connect(topo, "gas", left, right)
                        ELSE Batch!Disconnect(topo, "gas", left, right)
    ELSE IF m.connected THEN Batch!SetFirelock(topo, left, right, m.firelock) ELSE topo
PassStep(pass, run, m) ==
  IF run.ok /\ PassAccepts(pass, run.topo, m)
    THEN [ok |-> TRUE, topo |-> PassResult(pass, run.topo, m)]
    ELSE [run EXCEPT !.ok = FALSE]
Begun(topo) == [ok |-> TRUE, topo |-> topo]

\* The fold behind a pass over the first n mutations, as a function of sets of positions.
Folded(pass, topo, b, T, g) ==
  IF T = {} THEN Begun(topo) ELSE PassStep(pass, g[T \ {Max(T)}], b[Max(T)])
Folds(pass, topo, b, n, g) ==
  g = [T \in SUBSET (1..n) |-> Folded(pass, topo, b, T, g)]

\* The runs of a pass, from the topology it begins with.
Passes(pass, topo, b, n, r) ==
  r[0] = Begun(topo) /\ \A k \in 1..n : r[k] = PassStep(pass, r[k - 1], b[k])

\* A set of positions that is not empty has a last one, which Max finds.
LEMMA MaxIsLast ==
  ASSUME NEW n \in Nat, NEW T \in SUBSET (1..n), T # {}
  PROVE  Max(T) \in T /\ \A x \in T : x <= Max(T)
<1> DEFINE U == {k \in Nat : \A x \in T : x <= k}
<1>1. U \in SUBSET Nat /\ n \in U
  OBVIOUS
<1>2. PICK k \in U : \A m \in U : k <= m
  BY <1>1, LeastNatural
<1>3. k \in T
  <2> SUFFICES ASSUME k \notin T PROVE FALSE
    OBVIOUS
  <2>1. \A x \in T : x <= k - 1 /\ x \in Nat /\ x >= 1
    BY <1>2
  <2>2. k - 1 \in Nat
    <3>1. PICK x \in T : TRUE
      OBVIOUS
    <3>2. k \in Nat /\ x <= k - 1 /\ x \in Nat
      BY <1>2, <2>1
    <3> QED
      BY <3>2
  <2>3. k - 1 \in U
    BY <2>1, <2>2
  <2> QED
    BY <1>2, <2>2, <2>3
<1>4. \E x \in T : \A y \in T : x >= y
  BY <1>2, <1>3
<1>5. Max(T) \in T /\ \A y \in T : Max(T) >= y
  BY <1>4, Zenon DEF Max
<1> QED
  BY <1>5

\* The last of an interval's numbers is its upper end.
LEMMA MaxOfInterval ==
  ASSUME NEW n \in Nat, NEW k \in 1..n
  PROVE  Max(1..k) = k
<1>1. 1..k \in SUBSET (1..k) /\ 1..k # {} /\ k \in Nat /\ k \in 1..k
  OBVIOUS
<1>2. Max(1..k) \in 1..k /\ \A x \in 1..k : x <= Max(1..k)
  BY <1>1, MaxIsLast
<1> QED
  BY <1>1, <1>2

\* A fold over any number of mutations exists.
LEMMA FoldExists ==
  ASSUME NEW pass, NEW topo, NEW b, NEW n \in Nat
  PROVE  \E g : Folds(pass, topo, b, n, g)
<1> SUFFICES ASSUME ~\E g : Folds(pass, topo, b, n, g) PROVE FALSE
  OBVIOUS
<1> DEFINE T == {k \in Nat : ~\E g : Folds(pass, topo, b, k, g)}
<1>1. T \in SUBSET Nat /\ T # {}
  OBVIOUS
<1>2. PICK k \in T : \A j \in T : k <= j
  BY <1>1, LeastNatural
<1>3. k # 0
  <2> DEFINE g == [S \in SUBSET (1..0) |-> Begun(topo)]
  <2>1. \A S \in SUBSET (1..0) : S = {}
    OBVIOUS
  <2>2. \A S \in SUBSET (1..0) : Folded(pass, topo, b, S, g) = Begun(topo)
    BY <2>1 DEF Folded
  <2>3. g = [S \in SUBSET (1..0) |-> Folded(pass, topo, b, S, g)]
    BY <2>2
  <2> QED
    BY <1>2, <2>3 DEF Folds
<1>4. k \in Nat /\ k - 1 \in Nat /\ k - 1 \notin T
  BY <1>2, <1>3
<1>5. PICK g : Folds(pass, topo, b, k - 1, g)
  BY <1>4
<1> DEFINE h == [S \in SUBSET (1..k) |->
                   IF k \in S THEN PassStep(pass, g[S \ {k}], b[k]) ELSE g[S]]
<1>6. ASSUME NEW S \in SUBSET (1..k) PROVE h[S] = Folded(pass, topo, b, S, h)
  <2>1. CASE k \in S
    <3>1. Max(S) = k
      <4>1. Max(S) \in S /\ \A x \in S : x <= Max(S)
        BY <1>4, <2>1, MaxIsLast
      <4>2. Max(S) \in 1..k /\ k <= Max(S)
        BY <2>1, <4>1
      <4> QED
        BY <1>4, <4>2
    <3>2. S \ {k} \in SUBSET (1..k) /\ k \notin S \ {k} /\ S # {}
      BY <2>1
    <3>3. h[S \ {k}] = g[S \ {k}]
      BY <3>2
    <3>4. h[S] = PassStep(pass, g[S \ {k}], b[k])
      BY <2>1
    <3> HIDE DEF h
    <3> QED
      BY <3>1, <3>2, <3>3, <3>4 DEF Folded
  <2>2. CASE k \notin S
    <3>1. S \in SUBSET (1..(k - 1))
      BY <1>4, <2>2
    <3>2. h[S] = g[S] /\ g[S] = Folded(pass, topo, b, S, g)
      BY <1>5, <2>2, <3>1 DEF Folds
    <3>3. CASE S = {}
      BY <3>2, <3>3 DEF Folded
    <3>4. CASE S # {}
      <4>1. S \ {Max(S)} \in SUBSET (1..k) /\ k \notin S \ {Max(S)}
        BY <2>2
      <4>2. h[S \ {Max(S)}] = g[S \ {Max(S)}]
        BY <4>1
      <4> HIDE DEF h
      <4> QED
        BY <3>2, <3>4, <4>2 DEF Folded
    <3> QED
      BY <3>3, <3>4
  <2> QED
    BY <2>1, <2>2
<1>7. Folds(pass, topo, b, k, h)
  <2>1. h = [S \in SUBSET (1..k) |-> h[S]]
    OBVIOUS
  <2> HIDE DEF h
  <2>2. h = [S \in SUBSET (1..k) |-> Folded(pass, topo, b, S, h)]
    BY <1>6, <2>1
  <2> QED
    BY <2>2 DEF Folds
<1> QED
  BY <1>2, <1>7

\* Its values on the first positions are the runs of the pass.
LEMMA FoldPasses ==
  ASSUME NEW pass, NEW topo, NEW b, NEW n \in Nat, NEW g, Folds(pass, topo, b, n, g)
  PROVE  Passes(pass, topo, b, n, [k \in 0..n |-> g[1..k]])
<1> DEFINE r == [k \in 0..n |-> g[1..k]]
<1>1. \A T \in SUBSET (1..n) : g[T] = Folded(pass, topo, b, T, g)
  BY DEF Folds
<1>2. r[0] = Begun(topo)
  <2>1. 1..0 = {} /\ {} \in SUBSET (1..n) /\ 0 \in 0..n
    OBVIOUS
  <2>2. g[{}] = Begun(topo)
    BY <1>1, <2>1 DEF Folded
  <2>3. r[0] = g[1..0]
    BY <2>1
  <2> QED
    BY <2>1, <2>2, <2>3
<1>3. ASSUME NEW k \in 1..n PROVE r[k] = PassStep(pass, r[k - 1], b[k])
  <2>4. k \in Nat /\ k >= 1 /\ k <= n
    OBVIOUS
  <2>5. 1..k \in SUBSET (1..n) /\ k - 1 \in 0..n /\ k \in 0..n
    BY <2>4
  <2>6. k \in 1..k
    BY <2>4
  <2>7. (1..k) \ {k} = 1..(k - 1)
    BY <2>4
  <2>1. 1..k \in SUBSET (1..n) /\ 1..k # {} /\ (1..k) \ {k} = 1..(k - 1) /\ k - 1 \in 0..n
        /\ k \in 0..n
    BY <2>5, <2>6, <2>7
  <2>2. Max(1..k) = k
    BY MaxOfInterval
  <2>3. g[1..k] = PassStep(pass, g[1..(k - 1)], b[k])
    BY <1>1, <2>1, <2>2 DEF Folded
  <2> QED
    BY <2>1, <2>3
<1> QED
  BY <1>2, <1>3 DEF Passes

\* What a pass of the model is: the last of its runs.
LEMMA AdjacencyRuns ==
  ASSUME NEW topo, NEW b, NEW n \in Nat, DOMAIN b = 1..n
  PROVE  \E r : Passes("adjacency", topo, b, n, r) /\ Batch!AdjacencyPass(topo, b) = r[n]
<1> DEFINE F(g) == [T \in SUBSET (1..n) |->
                      IF T = {} THEN [ok |-> TRUE, topo |-> topo]
                      ELSE LET run == g[T \ {Max(T)}]  m == b[Max(T)] IN
                           IF run.ok /\ (/\ Batch!Pair(m) \subseteq open /\ m.left # m.right
                                         /\ m.connected => Batch!CanConnect(run.topo, "gas", Batch!Turf(m.left), Batch!Turf(m.right)))
                             THEN [ok |-> TRUE, topo |->
                                     IF m.connected THEN Batch!Connect(run.topo, "gas", Batch!Turf(m.left), Batch!Turf(m.right))
                                     ELSE Batch!Disconnect(run.topo, "gas", Batch!Turf(m.left), Batch!Turf(m.right))]
                             ELSE [run EXCEPT !.ok = FALSE]]
           it == CHOOSE g : g = F(g)
<1>1. \A g : F(g) = [T \in SUBSET (1..n) |-> Folded("adjacency", topo, b, T, g)]
  BY DEF Folded, PassStep, PassAccepts, PassResult, Begun
<1>2. Batch!AdjacencyPass(topo, b) = it[1..n]
  BY Zenon DEF Batch!AdjacencyPass, Batch!Passed, Batch!FoldLeft, Batch!MapThenFoldSet, Batch!Max, Max
<1> HIDE DEF F
<1>3. it = F(it)
  <2>2. PICK g : Folds("adjacency", topo, b, n, g)
    BY FoldExists
  <2>3. g = F(g)
    BY <1>1, <2>2 DEF Folds
  <2>1. \E f : f = F(f)
    BY <2>3
  <2> QED
    BY <2>1
<1> HIDE DEF it
<1>4. Folds("adjacency", topo, b, n, it)
  BY <1>1, <1>3 DEF Folds
<1>5. Passes("adjacency", topo, b, n, [k \in 0..n |-> it[1..k]])
  BY <1>4, FoldPasses
<1>6. [k \in 0..n |-> it[1..k]][n] = it[1..n]
  OBVIOUS
<1> QED
  BY <1>2, <1>5, <1>6
\* And so for the pass over the firelocks.
LEMMA FirelockRuns ==
  ASSUME NEW topo, NEW b, NEW n \in Nat, DOMAIN b = 1..n
  PROVE  \E r : Passes("firelock", topo, b, n, r) /\ Batch!FirelockPass(topo, b) = r[n]
<1> DEFINE F(g) == [T \in SUBSET (1..n) |->
                      IF T = {} THEN [ok |-> TRUE, topo |-> topo]
                      ELSE LET run == g[T \ {Max(T)}]  m == b[Max(T)] IN
                           IF run.ok /\ (m.connected => Batch!Connected(run.topo, "gas", Batch!Turf(m.left), Batch!Turf(m.right)))
                             THEN [ok |-> TRUE, topo |->
                                     IF m.connected THEN Batch!SetFirelock(run.topo, Batch!Turf(m.left), Batch!Turf(m.right), m.firelock)
                                     ELSE run.topo]
                             ELSE [run EXCEPT !.ok = FALSE]]
           it == CHOOSE g : g = F(g)
<1>1. \A g : F(g) = [T \in SUBSET (1..n) |-> Folded("firelock", topo, b, T, g)]
  BY DEF Folded, PassStep, PassAccepts, PassResult, Begun
<1>2. Batch!FirelockPass(topo, b) = it[1..n]
  BY Zenon DEF Batch!FirelockPass, Batch!Passed, Batch!FoldLeft, Batch!MapThenFoldSet, Batch!Max, Max
<1> HIDE DEF F
<1>3. it = F(it)
  <2>2. PICK g : Folds("firelock", topo, b, n, g)
    BY FoldExists
  <2>3. g = F(g)
    BY <1>1, <2>2 DEF Folds
  <2>1. \E f : f = F(f)
    BY <2>3
  <2> QED
    BY <2>1
<1> HIDE DEF it
<1>4. Folds("firelock", topo, b, n, it)
  BY <1>1, <1>3 DEF Folds
<1>5. Passes("firelock", topo, b, n, [k \in 0..n |-> it[1..k]])
  BY <1>4, FoldPasses
<1>6. [k \in 0..n |-> it[1..k]][n] = it[1..n]
  OBVIOUS
<1> QED
  BY <1>2, <1>5, <1>6
(***************************************************************************)
(* The gas edges.                                                          *)
(***************************************************************************)
BatchNear == [handle : {Batch!Turf(s) : s \in BatchSlots}, firelock : BOOLEAN]
BatchTopologies ==
  [near : [{"gas", "heat"} -> [BatchSlots -> SUBSET BatchNear]],
   edges : [{"gas", "heat"} -> Int], revision : Int]
Entry(t, f) == [handle |-> Batch!Turf(t), firelock |-> f]

\* The row of s has turf t with this flag.
Linked(topo, s, t, f) == Entry(t, f) \in topo.near["gas"][s]
Unlinked(topo, s, t) == \A f \in BOOLEAN : ~Linked(topo, s, t, f)

\* Both ends of an edge have the same flag, and no turf is its own neighbour.
RowsSound(topo) ==
  /\ topo \in BatchTopologies
  /\ \A s, t \in BatchSlots, f \in BOOLEAN :
       Linked(topo, s, t, f) =>
         /\ s # t /\ Linked(topo, t, s, f)
         /\ \A g \in BOOLEAN : Linked(topo, s, t, g) => f = g

Same(s, t, l, r) == (s = l /\ t = r) \/ (s = r /\ t = l)

\* A neighbour is a turf and a flag.
LEMMA EntryFacts ==
  /\ \A s : Batch!Turf(s).slot = s
  /\ \A s, t : Batch!Turf(s) = Batch!Turf(t) <=> s = t
  /\ \A t, f : Entry(t, f).handle = Batch!Turf(t) /\ Entry(t, f).firelock = f
  /\ \A s, t, f, g : Entry(s, f) = Entry(t, g) <=> s = t /\ f = g
  /\ \A n \in BatchNear : \E t \in BatchSlots, f \in BOOLEAN : n = Entry(t, f)
  /\ \A t \in BatchSlots, f \in BOOLEAN : Entry(t, f) \in BatchNear
<1>1. \A s : Batch!Turf(s).slot = s
  BY DEF Batch!Turf
<1>2. \A t, f : Entry(t, f).handle = Batch!Turf(t) /\ Entry(t, f).firelock = f
  BY DEF Entry
<1>3. \A n \in BatchNear : \E t \in BatchSlots, f \in BOOLEAN : n = Entry(t, f)
  BY DEF BatchNear, Entry
<1>4. \A t \in BatchSlots, f \in BOOLEAN : Entry(t, f) \in BatchNear
  BY DEF BatchNear, Entry
<1>5. \A s, t : Batch!Turf(s) = Batch!Turf(t) => s = t
  <2> TAKE s, t
  <2> HAVE Batch!Turf(s) = Batch!Turf(t)
  <2> QED
    BY <1>1
<1>6. \A s, t, f, g : Entry(s, f) = Entry(t, g) => s = t /\ f = g
  <2> TAKE s, t, f, g
  <2> HAVE Entry(s, f) = Entry(t, g)
  <2>1. Batch!Turf(s) = Batch!Turf(t) /\ f = g
    BY <1>2
  <2> QED
    BY <1>5, <2>1
<1> QED
  BY <1>1, <1>2, <1>3, <1>4, <1>5, <1>6

\* A pair of turfs is the same whichever comes first.
LEMMA SamePair ==
  ASSUME NEW s, NEW t, NEW l, NEW r
  PROVE  {s, t} = {l, r} <=> Same(s, t, l, r)
  BY DEF Same

\* find_neighbor, in terms of rows.
LEMMA ConnectedLinks ==
  ASSUME NEW topo \in BatchTopologies, NEW l \in BatchSlots, NEW r \in BatchSlots
  PROVE  Batch!Connected(topo, "gas", Batch!Turf(l), Batch!Turf(r)) <=> ~Unlinked(topo, l, r)
<1>1. topo.near["gas"][l] \in SUBSET BatchNear /\ Batch!Turf(l).slot = l
  BY EntryFacts DEF BatchTopologies
<1>2. ASSUME NEW n \in topo.near["gas"][l], n.handle = Batch!Turf(r)
      PROVE  ~Unlinked(topo, l, r)
  <2>1. PICK t \in BatchSlots, f \in BOOLEAN : n = Entry(t, f)
    BY <1>1, EntryFacts
  <2>2. t = r
    BY <1>2, <2>1, EntryFacts
  <2> QED
    BY <2>1, <2>2 DEF Unlinked, Linked
<1>3. ASSUME NEW f \in BOOLEAN, Linked(topo, l, r, f)
      PROVE  \E n \in topo.near["gas"][l] : n.handle = Batch!Turf(r)
  BY <1>3, EntryFacts DEF Linked
<1> QED
  BY <1>1, <1>2, <1>3 DEF Batch!Connected, Unlinked

\* A topology with two new rows.
WithRows(topo, l, r, A, B, e, v) ==
  [near |-> [topo.near EXCEPT !["gas"] = [@ EXCEPT ![l] = A, ![r] = B]],
   edges |-> e, revision |-> v]

\* Only these two rows are new.
LEMMA RowsReplaced ==
  ASSUME NEW topo \in BatchTopologies, NEW l \in BatchSlots, NEW r \in BatchSlots, l # r,
         NEW A \in SUBSET BatchNear, NEW B \in SUBSET BatchNear, NEW v \in Int,
         NEW e \in [{"gas", "heat"} -> Int], NEW new, new = WithRows(topo, l, r, A, B, e, v)
  PROVE  /\ new \in BatchTopologies
         /\ new.near["gas"][l] = A /\ new.near["gas"][r] = B
         /\ \A s \in BatchSlots : s # l /\ s # r => new.near["gas"][s] = topo.near["gas"][s]
<1>1. /\ topo.near \in [{"gas", "heat"} -> [BatchSlots -> SUBSET BatchNear]]
      /\ topo.near["gas"] \in [BatchSlots -> SUBSET BatchNear]
  BY DEF BatchTopologies
<1> DEFINE row == [topo.near["gas"] EXCEPT ![l] = A, ![r] = B]
<1>2. /\ row \in [BatchSlots -> SUBSET BatchNear] /\ row[l] = A /\ row[r] = B
      /\ \A s \in BatchSlots : s # l /\ s # r => row[s] = topo.near["gas"][s]
  BY <1>1
<1> DEFINE near == [topo.near EXCEPT !["gas"] = row]
<1> HIDE DEF row
<1>3. near \in [{"gas", "heat"} -> [BatchSlots -> SUBSET BatchNear]] /\ near["gas"] = row
  BY <1>1, <1>2
<1>4. new = [near |-> near, edges |-> e, revision |-> v]
  BY <1>1 DEF row, WithRows
<1> HIDE DEF near
<1>5. new \in BatchTopologies /\ new.near = near
  BY <1>3, <1>4 DEF BatchTopologies
<1> QED
  BY <1>2, <1>3, <1>5

\* What connect_gas adds: the edge without a firelock, unless it is there.
Adds(topo, new, l, r) ==
  \A s, t \in BatchSlots, f \in BOOLEAN :
    Linked(new, s, t, f) <=>
      \/ Linked(topo, s, t, f)
      \/ Same(s, t, l, r) /\ f = FALSE /\ Unlinked(topo, s, t)

\* It is entered on both sides.
LEMMA ConnectLinks ==
  ASSUME NEW topo, RowsSound(topo), NEW l \in BatchSlots, NEW r \in BatchSlots, l # r, NEW new,
         new = Batch!Connect(topo, "gas", Batch!Turf(l), Batch!Turf(r))
  PROVE  RowsSound(new) /\ ~Unlinked(new, l, r) /\ Adds(topo, new, l, r)
<1>0. topo \in BatchTopologies
  BY DEF RowsSound
<1>1. Unlinked(topo, l, r) <=> Unlinked(topo, r, l)
  BY DEF RowsSound, Unlinked
<1>2. CASE ~Unlinked(topo, l, r)
  <2>1. new = topo
    BY <1>0, <1>2, ConnectedLinks DEF Batch!Connect
  <2> QED
    BY <1>1, <1>2, <2>1 DEF Same, Adds
<1>3. CASE Unlinked(topo, l, r)
  <2>1. ~Batch!Connected(topo, "gas", Batch!Turf(l), Batch!Turf(r))
    BY <1>0, <1>3, ConnectedLinks
  <2> DEFINE A == topo.near["gas"][l] \union {Entry(r, FALSE)}
             B == topo.near["gas"][r] \union {Entry(l, FALSE)}
             e == [topo.edges EXCEPT !["gas"] = @ + 1]
  <2>2. /\ topo.near \in [{"gas", "heat"} -> [BatchSlots -> SUBSET BatchNear]]
        /\ topo.edges \in [{"gas", "heat"} -> Int] /\ topo.revision \in Int
        /\ topo = [near |-> topo.near, edges |-> topo.edges, revision |-> topo.revision]
    BY <1>0 DEF BatchTopologies
  <2>3. new = WithRows(topo, l, r, A, B, e, topo.revision + 1)
    BY <2>1, <2>2, EntryFacts DEF Batch!Connect, Entry, WithRows
  <2>4. A \in SUBSET BatchNear /\ B \in SUBSET BatchNear
    <3>1. topo.near["gas"][l] \in SUBSET BatchNear /\ topo.near["gas"][r] \in SUBSET BatchNear
      BY <2>2
    <3>2. FALSE \in BOOLEAN
      OBVIOUS
    <3>3. Entry(l, FALSE) \in BatchNear /\ Entry(r, FALSE) \in BatchNear
      BY <3>2, EntryFacts
    <3> QED
      BY <3>1, <3>3
  <2>5. e \in [{"gas", "heat"} -> Int] /\ topo.revision + 1 \in Int
    BY <2>2
  <2>12. \A n : /\ n \in A <=> n \in topo.near["gas"][l] \/ n = Entry(r, FALSE)
                /\ n \in B <=> n \in topo.near["gas"][r] \/ n = Entry(l, FALSE)
    OBVIOUS
  <2> HIDE DEF A, B, e
  <2>6. /\ new \in BatchTopologies
        /\ new.near["gas"][l] = A /\ new.near["gas"][r] = B
        /\ \A s \in BatchSlots : s # l /\ s # r => new.near["gas"][s] = topo.near["gas"][s]
    BY <1>0, <2>3, <2>4, <2>5, RowsReplaced
  <2>7. ASSUME NEW s \in BatchSlots, NEW t \in BatchSlots, NEW f \in BOOLEAN
        PROVE  Linked(new, s, t, f) <=> \/ Linked(topo, s, t, f)
                                        \/ Same(s, t, l, r) /\ f = FALSE
    <3>4. \A u : Entry(t, f) = Entry(u, FALSE) <=> t = u /\ f = FALSE
      <4> DEFINE no == FALSE
      <4>1. \A u : Entry(t, f) = Entry(u, no) <=> t = u /\ f = no
        <5> HIDE DEF no
        <5> QED
          BY EntryFacts
      <4> QED
        BY <4>1, Zenon
    <3>1. CASE s = l
      <4>1. Linked(new, s, t, f) <=> Linked(topo, s, t, f) \/ Entry(t, f) = Entry(r, FALSE)
        BY <2>6, <2>12, <3>1 DEF Linked
      <4> QED
        BY <3>1, <3>4, <4>1 DEF Same
    <3>2. CASE s = r
      <4>1. Linked(new, s, t, f) <=> Linked(topo, s, t, f) \/ Entry(t, f) = Entry(l, FALSE)
        BY <2>6, <2>12, <3>2 DEF Linked
      <4> QED
        BY <3>2, <3>4, <4>1 DEF Same
    <3>3. CASE s # l /\ s # r
      BY <2>6, <3>3 DEF Linked, Same
    <3> QED
      BY <3>1, <3>2, <3>3
  <2>8. \A s, t : Same(s, t, l, r) => Unlinked(topo, s, t) /\ s # t /\ Same(t, s, l, r)
    BY <1>1, <1>3 DEF Same
  <2>9. ASSUME NEW s \in BatchSlots, NEW t \in BatchSlots, NEW f \in BOOLEAN, Linked(new, s, t, f)
        PROVE  /\ s # t /\ Linked(new, t, s, f)
               /\ \A g \in BOOLEAN : Linked(new, s, t, g) => f = g
    <3>1. CASE Linked(topo, s, t, f)
      <4>1. ~Unlinked(topo, s, t)
        BY <3>1 DEF Unlinked
      <4>2. ~Same(s, t, l, r) /\ ~Same(t, s, l, r)
        BY <2>8, <4>1 DEF Same
      <4>3. /\ s # t /\ Linked(topo, t, s, f)
            /\ \A g \in BOOLEAN : Linked(topo, s, t, g) => f = g
        BY <3>1 DEF RowsSound
      <4> QED
        BY <2>7, <4>2, <4>3
    <3>2. CASE Same(s, t, l, r) /\ f = FALSE
      <4>1. \A g \in BOOLEAN : ~Linked(topo, s, t, g)
        BY <2>8, <3>2 DEF Unlinked
      <4> QED
        BY <2>7, <2>8, <3>2, <4>1
    <3> QED
      BY <2>7, <2>9, <3>1, <3>2
  <2>10. RowsSound(new)
    BY <2>6, <2>9 DEF RowsSound
  <2>11. ~Unlinked(new, l, r)
    <3>1. FALSE \in BOOLEAN /\ Same(l, r, l, r)
      BY DEF Same
    <3>2. Linked(new, l, r, FALSE)
      BY <2>7, <3>1
    <3> QED
      BY <3>1, <3>2 DEF Unlinked
  <2> QED
    BY <2>7, <2>8, <2>10, <2>11 DEF Adds
<1> QED
  BY <1>2, <1>3

\* disconnect_gas takes the edge away on both sides.
LEMMA DisconnectLinks ==
  ASSUME NEW topo, RowsSound(topo), NEW l \in BatchSlots, NEW r \in BatchSlots, l # r, NEW new,
         new = Batch!Disconnect(topo, "gas", Batch!Turf(l), Batch!Turf(r))
  PROVE  /\ RowsSound(new)
         /\ \A s, t \in BatchSlots, f \in BOOLEAN :
              Linked(new, s, t, f) <=> Linked(topo, s, t, f) /\ ~Same(s, t, l, r)
<1>0. topo \in BatchTopologies
  BY DEF RowsSound
<1>1. Unlinked(topo, l, r) <=> Unlinked(topo, r, l)
  BY DEF RowsSound, Unlinked
<1>2. CASE Unlinked(topo, l, r)
  <2>1. new = topo
    BY <1>0, <1>2, ConnectedLinks DEF Batch!Disconnect
  <2> QED
    BY <1>1, <1>2, <2>1 DEF Same, Unlinked
<1>3. CASE ~Unlinked(topo, l, r)
  <2>1. Batch!Connected(topo, "gas", Batch!Turf(l), Batch!Turf(r))
    BY <1>0, <1>3, ConnectedLinks
  <2> DEFINE A == {n \in topo.near["gas"][l] : n.handle # Batch!Turf(r)}
             B == {n \in topo.near["gas"][r] : n.handle # Batch!Turf(l)}
             e == [topo.edges EXCEPT !["gas"] = @ - 1]
  <2>2. /\ topo.near \in [{"gas", "heat"} -> [BatchSlots -> SUBSET BatchNear]]
        /\ topo.edges \in [{"gas", "heat"} -> Int] /\ topo.revision \in Int
        /\ topo = [near |-> topo.near, edges |-> topo.edges, revision |-> topo.revision]
    BY <1>0 DEF BatchTopologies
  <2>3. new = WithRows(topo, l, r, A, B, e, topo.revision + 1)
    BY <2>1, <2>2, EntryFacts DEF Batch!Disconnect, WithRows
  <2>4. A \in SUBSET BatchNear /\ B \in SUBSET BatchNear
    BY <2>2, EntryFacts
  <2>5. e \in [{"gas", "heat"} -> Int] /\ topo.revision + 1 \in Int
    BY <2>2
  <2> HIDE DEF A, B, e
  <2>6. /\ new \in BatchTopologies
        /\ new.near["gas"][l] = A /\ new.near["gas"][r] = B
        /\ \A s \in BatchSlots : s # l /\ s # r => new.near["gas"][s] = topo.near["gas"][s]
    BY <1>0, <2>3, <2>4, <2>5, RowsReplaced
  <2>7. ASSUME NEW s \in BatchSlots, NEW t \in BatchSlots, NEW f \in BOOLEAN
        PROVE  Linked(new, s, t, f) <=> Linked(topo, s, t, f) /\ ~Same(s, t, l, r)
    <3>1. CASE s = l
      BY <2>6, <3>1, EntryFacts DEF A, Linked, Same
    <3>2. CASE s = r
      BY <2>6, <3>2, EntryFacts DEF B, Linked, Same
    <3>3. CASE s # l /\ s # r
      BY <2>6, <3>3 DEF Linked, Same
    <3> QED
      BY <3>1, <3>2, <3>3
  <2>8. RowsSound(new)
    BY <2>6, <2>7 DEF RowsSound, Same
  <2> QED
    BY <2>7, <2>8
<1> QED
  BY <1>2, <1>3

\* set_firelock gives an edge its flag on both sides.
LEMMA FirelockLinks ==
  ASSUME NEW topo, RowsSound(topo), NEW l \in BatchSlots, NEW r \in BatchSlots, l # r,
         NEW flag \in BOOLEAN, ~Unlinked(topo, l, r), NEW new,
         new = Batch!SetFirelock(topo, Batch!Turf(l), Batch!Turf(r), flag)
  PROVE  /\ RowsSound(new)
         /\ \A s, t \in BatchSlots, f \in BOOLEAN :
              Linked(new, s, t, f) <=> IF Same(s, t, l, r) THEN f = flag ELSE Linked(topo, s, t, f)
<1>0. topo \in BatchTopologies
  BY DEF RowsSound
<1>1. PICK old \in BOOLEAN : Linked(topo, l, r, old)
  BY DEF Unlinked
<1>2. /\ Linked(topo, r, l, old)
      /\ \A f \in BOOLEAN : (Linked(topo, l, r, f) => f = old) /\ (Linked(topo, r, l, f) => f = old)
  BY <1>1 DEF RowsSound
<1>3. /\ topo.near \in [{"gas", "heat"} -> [BatchSlots -> SUBSET BatchNear]]
      /\ topo.edges \in [{"gas", "heat"} -> Int] /\ topo.revision \in Int
      /\ topo = [near |-> topo.near, edges |-> topo.edges, revision |-> topo.revision]
  BY <1>0 DEF BatchTopologies
<1>4. \A n \in topo.near["gas"][l] : n.handle = Batch!Turf(r) => n = Entry(r, old)
  <2> TAKE n \in topo.near["gas"][l]
  <2> HAVE n.handle = Batch!Turf(r)
  <2>1. PICK t \in BatchSlots, f \in BOOLEAN : n = Entry(t, f)
    BY <1>3, EntryFacts
  <2> QED
    BY <1>2, <2>1, EntryFacts DEF Linked
<1>5. \A n \in topo.near["gas"][r] : n.handle = Batch!Turf(l) => n = Entry(l, old)
  <2> TAKE n \in topo.near["gas"][r]
  <2> HAVE n.handle = Batch!Turf(l)
  <2>1. PICK t \in BatchSlots, f \in BOOLEAN : n = Entry(t, f)
    BY <1>3, EntryFacts
  <2> QED
    BY <1>2, <2>1, EntryFacts DEF Linked
<1>6. CASE flag = old
  <2>1. \E n \in topo.near["gas"][l] : n.handle = Batch!Turf(r) /\ n.firelock = flag
    BY <1>1, <1>6, EntryFacts DEF Linked
  <2>2. new = topo
    BY <2>1, EntryFacts DEF Batch!SetFirelock
  <2> QED
    BY <1>1, <1>2, <1>6, <2>2 DEF Same
<1>7. CASE flag # old
  <2>1. ~\E n \in topo.near["gas"][l] : n.handle = Batch!Turf(r) /\ n.firelock = flag
    BY <1>4, <1>7, EntryFacts
  <2>2. Batch!Connected(topo, "gas", Batch!Turf(l), Batch!Turf(r))
    BY <1>0, ConnectedLinks
  <2> DEFINE set(ns, h) == {IF n.handle = h THEN [n EXCEPT !.firelock = flag] ELSE n : n \in ns}
             A == set(topo.near["gas"][l], Batch!Turf(r))
             B == set(topo.near["gas"][r], Batch!Turf(l))
  <2>3. new = [topo EXCEPT !.near["gas"][l] = A, !.near["gas"][r] = B, !.revision = @ + 1]
    <3> DEFINE N == [topo EXCEPT !.near["gas"][l] = set(@, Batch!Turf(r)),
                                 !.near["gas"][r] = set(@, Batch!Turf(l)), !.revision = @ + 1]
    <3>1. new = N
      BY <2>1, <2>2, EntryFacts DEF Batch!SetFirelock
    <3> HIDE DEF set
    <3> QED
      BY <1>3, <3>1
  <2>4. \A n, f : n = Entry(r, f) => [n EXCEPT !.firelock = flag] = Entry(r, flag)
    BY DEF Entry
  <2>5. \A n, f : n = Entry(l, f) => [n EXCEPT !.firelock = flag] = Entry(l, flag)
    BY DEF Entry
  <2>6. A = {n \in topo.near["gas"][l] : n.handle # Batch!Turf(r)} \union {Entry(r, flag)}
    <3>1. Entry(r, old) \in topo.near["gas"][l] /\ Entry(r, old).handle = Batch!Turf(r)
      BY <1>1, EntryFacts DEF Linked
    <3> QED
      BY <1>4, <2>4, <3>1
  <2>7. B = {n \in topo.near["gas"][r] : n.handle # Batch!Turf(l)} \union {Entry(l, flag)}
    <3>1. Entry(l, old) \in topo.near["gas"][r] /\ Entry(l, old).handle = Batch!Turf(l)
      BY <1>2, EntryFacts DEF Linked
    <3> QED
      BY <1>5, <2>5, <3>1
  <2>8. A \in SUBSET BatchNear /\ B \in SUBSET BatchNear
    <3> HIDE DEF A, B
    <3> QED
      BY <1>3, <2>6, <2>7, EntryFacts
  <2> HIDE DEF A, B
  <2>9. new = WithRows(topo, l, r, A, B, topo.edges, topo.revision + 1)
    <3>1. topo.near["gas"] \in [BatchSlots -> SUBSET BatchNear]
      BY <1>3
    <3>2. [topo EXCEPT !.near["gas"][l] = A, !.near["gas"][r] = B, !.revision = @ + 1]
            = [topo EXCEPT !.near = [topo.near EXCEPT !["gas"] =
                 [topo.near["gas"] EXCEPT ![l] = A, ![r] = B]], !.revision = @ + 1]
      BY <1>3, <3>1
    <3> QED
      BY <1>3, <2>3, <3>2 DEF WithRows
  <2>10. topo.revision + 1 \in Int
    BY <1>3
  <2>11. /\ new \in BatchTopologies
         /\ new.near["gas"][l] = A /\ new.near["gas"][r] = B
         /\ \A s \in BatchSlots : s # l /\ s # r => new.near["gas"][s] = topo.near["gas"][s]
    BY <1>0, <1>3, <2>8, <2>9, <2>10, RowsReplaced
  <2>12. ASSUME NEW s \in BatchSlots, NEW t \in BatchSlots, NEW f \in BOOLEAN
         PROVE  Linked(new, s, t, f) <=> IF Same(s, t, l, r) THEN f = flag ELSE Linked(topo, s, t, f)
    <3>1. CASE s = l
      BY <2>6, <2>11, <3>1, EntryFacts DEF Linked, Same
    <3>2. CASE s = r
      BY <2>7, <2>11, <3>2, EntryFacts DEF Linked, Same
    <3>3. CASE s # l /\ s # r
      BY <2>11, <3>3 DEF Linked, Same
    <3> QED
      BY <3>1, <3>2, <3>3
  <2>13. RowsSound(new)
    <3>1. \A s, t : Same(s, t, l, r) <=> Same(t, s, l, r)
      BY DEF Same
    <3>2. \A s, t : Same(s, t, l, r) => s # t
      BY DEF Same
    <3>3. ASSUME NEW s \in BatchSlots, NEW t \in BatchSlots, NEW f \in BOOLEAN, Linked(new, s, t, f)
          PROVE  /\ s # t /\ Linked(new, t, s, f)
                 /\ \A g \in BOOLEAN : Linked(new, s, t, g) => f = g
      <4>1. CASE Same(s, t, l, r)
        BY <2>12, <3>1, <3>2, <3>3, <4>1
      <4>2. CASE ~Same(s, t, l, r)
        BY <2>12, <3>1, <3>3, <4>2 DEF RowsSound
      <4> QED
        BY <4>1, <4>2
    <3> QED
      BY <2>11, <3>3 DEF RowsSound
  <2> QED
    BY <2>12, <2>13
<1> QED
  BY <1>6, <1>7

(***************************************************************************)
(* The passes, in terms of the edges.                                      *)
(***************************************************************************)
IsRun(run) == run = [ok |-> run.ok, topo |-> run.topo] /\ run.ok \in BOOLEAN /\ RowsSound(run.topo)

\* A mutation names two turfs and what becomes of the edge between them.
LEMMA MutationFields ==
  ASSUME NEW m \in Batch!Mutations
  PROVE  /\ m.left \in BatchSlots /\ m.right \in BatchSlots
         /\ m.connected \in BOOLEAN /\ m.firelock \in BOOLEAN
  BY DEF Batch!Mutations

\* One mutation of the adjacency pass: its pair is connected, with the firelock it had, or
\* disconnected.
LEMMA AdjacencyStep ==
  ASSUME NEW run, IsRun(run), NEW m \in Batch!Mutations, NEW next,
         next = PassStep("adjacency", run, m)
  PROVE  /\ IsRun(next)
         /\ next.ok =>
              /\ run.ok
              /\ \A s, t \in BatchSlots, f \in BOOLEAN :
                   Linked(next.topo, s, t, f) <=>
                     IF Same(s, t, m.left, m.right)
                       THEN /\ m.connected
                            /\ \/ Linked(run.topo, s, t, f)
                               \/ f = FALSE /\ Unlinked(run.topo, s, t)
                       ELSE Linked(run.topo, s, t, f)
<1> DEFINE topo == run.topo
<1>1. /\ m.left \in BatchSlots /\ m.right \in BatchSlots /\ m.connected \in BOOLEAN
      /\ RowsSound(topo)
  BY MutationFields DEF IsRun
<1>2. CASE ~(run.ok /\ PassAccepts("adjacency", topo, m))
  <2>1. next = [ok |-> FALSE, topo |-> topo]
    BY <1>2 DEF PassStep, IsRun
  <2>2. next.ok = FALSE /\ next.topo = topo /\ next = [ok |-> next.ok, topo |-> next.topo]
    BY <2>1
  <2>3. FALSE \in BOOLEAN
    OBVIOUS
  <2> QED
    BY <1>1, <2>2, <2>3 DEF IsRun
<1>3. CASE run.ok /\ PassAccepts("adjacency", topo, m)
  <2>1. next = [ok |-> TRUE, topo |-> PassResult("adjacency", topo, m)] /\ m.left # m.right
    BY <1>3 DEF PassStep, PassAccepts
  <2>2. next.topo = PassResult("adjacency", topo, m) /\ next.ok = TRUE
        /\ next = [ok |-> next.ok, topo |-> next.topo]
    BY <2>1
  <2>3. CASE m.connected
    <3>1. next.topo = Batch!Connect(topo, "gas", Batch!Turf(m.left), Batch!Turf(m.right))
      BY <2>2, <2>3 DEF PassResult
    <3>4. RowsSound(next.topo) /\ Adds(topo, next.topo, m.left, m.right)
      BY <1>1, <2>1, <3>1, ConnectLinks
    <3>2. /\ RowsSound(next.topo)
          /\ \A s, t \in BatchSlots, f \in BOOLEAN :
               Linked(next.topo, s, t, f) <=>
                 \/ Linked(topo, s, t, f)
                 \/ Same(s, t, m.left, m.right) /\ f = FALSE /\ Unlinked(topo, s, t)
      BY <3>4, Zenon DEF Adds
    <3>3. IsRun(next)
      BY <2>2, <3>2 DEF IsRun
    <3> QED
      BY <1>3, <2>3, <3>2, <3>3
  <2>4. CASE ~m.connected
    <3>1. next.topo = Batch!Disconnect(topo, "gas", Batch!Turf(m.left), Batch!Turf(m.right))
      BY <2>2, <2>4 DEF PassResult
    <3>2. /\ RowsSound(next.topo)
          /\ \A s, t \in BatchSlots, f \in BOOLEAN :
               Linked(next.topo, s, t, f) <=>
                 Linked(topo, s, t, f) /\ ~Same(s, t, m.left, m.right)
      BY <1>1, <2>1, <3>1, DisconnectLinks
    <3>3. IsRun(next)
      BY <2>2, <3>2 DEF IsRun
    <3> QED
      BY <1>3, <2>4, <3>2, <3>3
  <2> QED
    BY <2>3, <2>4
<1> QED
  BY <1>2, <1>3

\* One mutation of the firelock pass: a connected pair is given its firelock.
LEMMA FirelockStep ==
  ASSUME NEW run, IsRun(run), NEW m \in Batch!Mutations, NEW next,
         next = PassStep("firelock", run, m)
  PROVE  /\ IsRun(next)
         /\ run.ok /\ (m.connected => ~Unlinked(run.topo, m.left, m.right)) => next.ok
         /\ next.ok =>
              \A s, t \in BatchSlots, f \in BOOLEAN :
                Linked(next.topo, s, t, f) <=>
                  IF m.connected /\ Same(s, t, m.left, m.right)
                    THEN f = m.firelock ELSE Linked(run.topo, s, t, f)
<1> DEFINE topo == run.topo
<1>1. /\ m.left \in BatchSlots /\ m.right \in BatchSlots /\ m.connected \in BOOLEAN
      /\ m.firelock \in BOOLEAN /\ RowsSound(topo) /\ topo \in BatchTopologies
  BY MutationFields DEF IsRun, RowsSound
<1>2. PassAccepts("firelock", topo, m) <=> (m.connected => ~Unlinked(topo, m.left, m.right))
  BY <1>1, ConnectedLinks DEF PassAccepts
<1>3. CASE ~(run.ok /\ PassAccepts("firelock", topo, m))
  <2>1. next = [ok |-> FALSE, topo |-> topo]
    BY <1>3 DEF PassStep, IsRun
  <2>2. next.ok = FALSE /\ next.topo = topo /\ next = [ok |-> next.ok, topo |-> next.topo]
    BY <2>1
  <2>3. FALSE \in BOOLEAN
    OBVIOUS
  <2> QED
    BY <1>1, <1>2, <1>3, <2>2, <2>3 DEF IsRun
<1>4. CASE run.ok /\ PassAccepts("firelock", topo, m)
  <2>1. next = [ok |-> TRUE, topo |-> PassResult("firelock", topo, m)]
    BY <1>4 DEF PassStep
  <2>2. next.topo = PassResult("firelock", topo, m) /\ next.ok = TRUE
        /\ next = [ok |-> next.ok, topo |-> next.topo]
    BY <2>1
  <2>3. CASE m.connected
    <3>1. next.topo = Batch!SetFirelock(topo, Batch!Turf(m.left), Batch!Turf(m.right), m.firelock)
      BY <2>2, <2>3 DEF PassResult
    <3>2. ~Unlinked(topo, m.left, m.right) /\ m.left # m.right
      BY <1>1, <1>2, <1>4, <2>3 DEF RowsSound, Unlinked
    <3>3. /\ RowsSound(next.topo)
          /\ \A s, t \in BatchSlots, f \in BOOLEAN :
               Linked(next.topo, s, t, f) <=>
                 IF Same(s, t, m.left, m.right) THEN f = m.firelock ELSE Linked(topo, s, t, f)
      BY <1>1, <3>1, <3>2, FirelockLinks
    <3>4. IsRun(next)
      BY <2>2, <3>3 DEF IsRun
    <3> QED
      BY <2>2, <2>3, <3>3, <3>4
  <2>4. CASE ~m.connected
    <3>1. next.topo = topo
      BY <2>2, <2>4 DEF PassResult
    <3>2. IsRun(next)
      BY <1>1, <2>2, <3>1 DEF IsRun
    <3> QED
      BY <2>2, <2>4, <3>1, <3>2
  <2> QED
    BY <2>3, <2>4
<1> QED
  BY <1>3, <1>4

\* The pair of a mutation.
Names(b, i, s, t) == Same(s, t, b[i].left, b[i].right)
Apart(b, n) == \A i, j \in 1..n : i # j => \A s, t : ~(Names(b, i, s, t) /\ Names(b, j, s, t))

\* What the adjacency pass leaves after k mutations, given what there was.
AfterAdjacency(topo, b, k, s, t, f) ==
  IF \E i \in 1..k : Names(b, i, s, t)
    THEN /\ \E i \in 1..k : Names(b, i, s, t) /\ b[i].connected
         /\ Linked(topo, s, t, f) \/ (f = FALSE /\ Unlinked(topo, s, t))
    ELSE Linked(topo, s, t, f)
AdjacencyDone(topo, b, k, run) ==
  /\ IsRun(run)
  /\ run.ok => \A s, t \in BatchSlots, f \in BOOLEAN :
                 Linked(run.topo, s, t, f) <=> AfterAdjacency(topo, b, k, s, t, f)

\* And the firelock pass.
AfterFirelocks(topo, b, k, s, t, f) ==
  IF \E i \in 1..k : Names(b, i, s, t) /\ b[i].connected
    THEN \E i \in 1..k : Names(b, i, s, t) /\ b[i].connected /\ f = b[i].firelock
    ELSE Linked(topo, s, t, f)
FirelocksDone(topo, b, k, run) ==
  /\ IsRun(run) /\ run.ok
  /\ \A s, t \in BatchSlots, f \in BOOLEAN :
       Linked(run.topo, s, t, f) <=> AfterFirelocks(topo, b, k, s, t, f)

\* A batch with no pair twice names each once.
LEMMA DistinctApart ==
  ASSUME NEW b, NEW n, DOMAIN b = 1..n, Batch!Distinct(b)
  PROVE  Apart(b, n)
  BY SamePair DEF Apart, Names, Batch!Distinct, Batch!Pair

\* The adjacency pass, mutation after mutation.
LEMMA AdjacencyPasses ==
  ASSUME NEW topo, RowsSound(topo), NEW n \in Nat, NEW b \in [1..n -> Batch!Mutations],
         Apart(b, n), NEW r, Passes("adjacency", topo, b, n, r)
  PROVE  \A k \in 0..n : AdjacencyDone(topo, b, k, r[k])
<1> SUFFICES ASSUME NEW bad \in 0..n, ~AdjacencyDone(topo, b, bad, r[bad]) PROVE FALSE
  OBVIOUS
<1> DEFINE T == {k \in 0..n : ~AdjacencyDone(topo, b, k, r[k])}
<1>1. T \in SUBSET Nat /\ T # {}
  OBVIOUS
<1>2. PICK k \in T : \A j \in T : k <= j
  BY <1>1, LeastNatural
<1>3. k \in 0..n /\ ~AdjacencyDone(topo, b, k, r[k])
  BY <1>2
<1>4. k # 0
  <2>1. Begun(topo).topo = topo /\ Begun(topo).ok = TRUE
        /\ Begun(topo) = [ok |-> Begun(topo).ok, topo |-> Begun(topo).topo]
    BY DEF Begun
  <2>2. IsRun(Begun(topo))
    BY <2>1 DEF IsRun
  <2>3. ~\E i \in 1..0 : TRUE
    OBVIOUS
  <2>4. AdjacencyDone(topo, b, 0, Begun(topo))
    BY <2>1, <2>2, <2>3 DEF AdjacencyDone, AfterAdjacency
  <2> QED
    BY <1>3, <2>4 DEF Passes
<1>5. k \in 1..n /\ k - 1 \in 0..n /\ k - 1 \notin T
  BY <1>2, <1>3, <1>4
<1>6. AdjacencyDone(topo, b, k - 1, r[k - 1]) /\ b[k] \in Batch!Mutations
      /\ r[k] = PassStep("adjacency", r[k - 1], b[k])
  BY <1>5 DEF Passes
<1> DEFINE m == b[k]
<1>7. /\ IsRun(r[k])
      /\ r[k].ok =>
           /\ r[k - 1].ok
           /\ \A s, t \in BatchSlots, f \in BOOLEAN :
                Linked(r[k].topo, s, t, f) <=>
                  IF Same(s, t, m.left, m.right)
                    THEN /\ m.connected
                         /\ \/ Linked(r[k - 1].topo, s, t, f)
                            \/ f = FALSE /\ Unlinked(r[k - 1].topo, s, t)
                    ELSE Linked(r[k - 1].topo, s, t, f)
  BY <1>6, AdjacencyStep DEF AdjacencyDone
<1>8. \A i : i \in 1..k <=> i \in 1..(k - 1) \/ i = k
  BY <1>5
<1>9. ASSUME r[k].ok, NEW s \in BatchSlots, NEW t \in BatchSlots, NEW f \in BOOLEAN
      PROVE  Linked(r[k].topo, s, t, f) <=> AfterAdjacency(topo, b, k, s, t, f)
  <2>1. \A g \in BOOLEAN :
          Linked(r[k - 1].topo, s, t, g) <=> AfterAdjacency(topo, b, k - 1, s, t, g)
    BY <1>6, <1>7, <1>9 DEF AdjacencyDone
  <2>2. CASE Names(b, k, s, t)
    <3>1. \A i \in 1..(k - 1) : ~Names(b, i, s, t)
      <4> TAKE i \in 1..(k - 1)
      <4>1. i \in 1..n /\ i # k
        BY <1>5
      <4> QED
        BY <1>5, <2>2, <4>1 DEF Apart
    <3>2. \A g \in BOOLEAN : Linked(r[k - 1].topo, s, t, g) <=> Linked(topo, s, t, g)
      BY <2>1, <3>1 DEF AfterAdjacency
    <3>3. Unlinked(r[k - 1].topo, s, t) <=> Unlinked(topo, s, t)
      BY <3>2 DEF Unlinked
    <3>4. k \in 1..k /\ Same(s, t, m.left, m.right)
      BY <1>8, <2>2 DEF Names
    <3>5. Linked(r[k].topo, s, t, f) <=>
            m.connected /\ (Linked(topo, s, t, f) \/ (f = FALSE /\ Unlinked(topo, s, t)))
      BY <1>7, <1>9, <3>2, <3>3, <3>4
    <3>6. (\E i \in 1..k : Names(b, i, s, t) /\ b[i].connected) <=> m.connected
      BY <1>8, <2>2, <3>1
    <3> QED
      BY <2>2, <3>4, <3>5, <3>6 DEF AfterAdjacency
  <2>3. CASE ~Names(b, k, s, t)
    <3>1. Linked(r[k].topo, s, t, f) <=> AfterAdjacency(topo, b, k - 1, s, t, f)
      BY <1>7, <1>9, <2>1, <2>3 DEF Names
    <3>2. /\ (\E i \in 1..k : Names(b, i, s, t)) <=> \E i \in 1..(k - 1) : Names(b, i, s, t)
          /\ (\E i \in 1..k : Names(b, i, s, t) /\ b[i].connected)
               <=> \E i \in 1..(k - 1) : Names(b, i, s, t) /\ b[i].connected
      BY <1>8, <2>3
    <3> QED
      BY <3>1, <3>2 DEF AfterAdjacency
  <2> QED
    BY <2>2, <2>3
<1> QED
  BY <1>3, <1>7, <1>9 DEF AdjacencyDone

\* The firelock pass, which refuses nothing that is connected.
LEMMA FirelockPasses ==
  ASSUME NEW topo, RowsSound(topo), NEW n \in Nat, NEW b \in [1..n -> Batch!Mutations],
         Apart(b, n), NEW r, Passes("firelock", topo, b, n, r),
         \A i \in 1..n : b[i].connected => ~Unlinked(topo, b[i].left, b[i].right)
  PROVE  \A k \in 0..n : FirelocksDone(topo, b, k, r[k])
<1> SUFFICES ASSUME NEW bad \in 0..n, ~FirelocksDone(topo, b, bad, r[bad]) PROVE FALSE
  OBVIOUS
<1> DEFINE T == {k \in 0..n : ~FirelocksDone(topo, b, k, r[k])}
<1>1. T \in SUBSET Nat /\ T # {}
  OBVIOUS
<1>2. PICK k \in T : \A j \in T : k <= j
  BY <1>1, LeastNatural
<1>3. k \in 0..n /\ ~FirelocksDone(topo, b, k, r[k])
  BY <1>2
<1>4. k # 0
  <2>1. Begun(topo).topo = topo /\ Begun(topo).ok = TRUE
        /\ Begun(topo) = [ok |-> Begun(topo).ok, topo |-> Begun(topo).topo]
    BY DEF Begun
  <2>2. IsRun(Begun(topo))
    BY <2>1 DEF IsRun
  <2>3. ~\E i \in 1..0 : TRUE
    OBVIOUS
  <2>4. FirelocksDone(topo, b, 0, Begun(topo))
    BY <2>1, <2>2, <2>3 DEF FirelocksDone, AfterFirelocks
  <2> QED
    BY <1>3, <2>4 DEF Passes
<1>5. k \in 1..n /\ k - 1 \in 0..n /\ k - 1 \notin T
  BY <1>2, <1>3, <1>4
<1>6. FirelocksDone(topo, b, k - 1, r[k - 1]) /\ b[k] \in Batch!Mutations
      /\ r[k] = PassStep("firelock", r[k - 1], b[k])
  BY <1>5 DEF Passes
<1> DEFINE m == b[k]
<1>8. \A i : i \in 1..k <=> i \in 1..(k - 1) \/ i = k
  BY <1>5
<1>10. /\ m.left \in BatchSlots /\ m.right \in BatchSlots /\ m.firelock \in BOOLEAN
       /\ m.connected \in BOOLEAN
  BY <1>6, MutationFields
<1>11. \A s, t : Names(b, k, s, t) => \A i \in 1..(k - 1) : ~Names(b, i, s, t)
  <2> TAKE s, t
  <2> HAVE Names(b, k, s, t)
  <2> TAKE i \in 1..(k - 1)
  <2>1. i \in 1..n /\ i # k
    BY <1>5
  <2> QED
    BY <1>5, <2>1 DEF Apart
<1>12. m.connected => ~Unlinked(r[k - 1].topo, m.left, m.right)
  <2> HAVE m.connected
  <2>1. PICK f \in BOOLEAN : Linked(topo, m.left, m.right, f)
    BY <1>5 DEF Unlinked
  <2>2. Names(b, k, m.left, m.right)
    BY DEF Names, Same
  <2>3. AfterFirelocks(topo, b, k - 1, m.left, m.right, f)
    BY <1>11, <2>1, <2>2 DEF AfterFirelocks
  <2>4. Linked(r[k - 1].topo, m.left, m.right, f)
    BY <1>6, <1>10, <2>3 DEF FirelocksDone
  <2> QED
    BY <2>4 DEF Unlinked
<1>7. /\ IsRun(r[k]) /\ r[k].ok
      /\ \A s, t \in BatchSlots, f \in BOOLEAN :
           Linked(r[k].topo, s, t, f) <=>
             IF m.connected /\ Same(s, t, m.left, m.right)
               THEN f = m.firelock ELSE Linked(r[k - 1].topo, s, t, f)
  <2> DEFINE run == r[k - 1]
             next == r[k]
  <2>1. IsRun(run) /\ run.ok
    BY <1>6 DEF FirelocksDone
  <2>2. m \in Batch!Mutations /\ next = PassStep("firelock", run, m)
    BY <1>6
  <2>3. m.connected => ~Unlinked(run.topo, m.left, m.right)
    BY <1>12
  <2> HIDE DEF m, run, next
  <2>4. /\ IsRun(next)
        /\ run.ok /\ (m.connected => ~Unlinked(run.topo, m.left, m.right)) => next.ok
        /\ next.ok =>
             \A s, t \in BatchSlots, f \in BOOLEAN :
               Linked(next.topo, s, t, f) <=>
                 IF m.connected /\ Same(s, t, m.left, m.right)
                   THEN f = m.firelock ELSE Linked(run.topo, s, t, f)
    BY <2>1, <2>2, FirelockStep
  <2>5. /\ IsRun(next) /\ next.ok
        /\ \A s, t \in BatchSlots, f \in BOOLEAN :
             Linked(next.topo, s, t, f) <=>
               IF m.connected /\ Same(s, t, m.left, m.right)
                 THEN f = m.firelock ELSE Linked(run.topo, s, t, f)
    BY <2>1, <2>3, <2>4
  <2> QED
    BY <2>5 DEF run, next
<1>9. ASSUME NEW s \in BatchSlots, NEW t \in BatchSlots, NEW f \in BOOLEAN
      PROVE  Linked(r[k].topo, s, t, f) <=> AfterFirelocks(topo, b, k, s, t, f)
  <2>1. Linked(r[k - 1].topo, s, t, f) <=> AfterFirelocks(topo, b, k - 1, s, t, f)
    BY <1>6 DEF FirelocksDone
  <2>2. CASE Names(b, k, s, t) /\ m.connected
    <3>1. \A i \in 1..k : Names(b, i, s, t) => i = k
      BY <1>8, <1>11, <2>2
    <3>2. k \in 1..k
      BY <1>8
    <3>3. Linked(r[k].topo, s, t, f) <=> f = m.firelock
      BY <1>7, <2>2 DEF Names
    <3> QED
      BY <2>2, <3>1, <3>2, <3>3 DEF AfterFirelocks
  <2>3. CASE ~(Names(b, k, s, t) /\ m.connected)
    <3>1. Linked(r[k].topo, s, t, f) <=> AfterFirelocks(topo, b, k - 1, s, t, f)
      BY <1>7, <2>1, <2>3 DEF Names
    <3>2. /\ (\E i \in 1..k : Names(b, i, s, t) /\ b[i].connected)
               <=> \E i \in 1..(k - 1) : Names(b, i, s, t) /\ b[i].connected
          /\ (\E i \in 1..k : Names(b, i, s, t) /\ b[i].connected /\ f = b[i].firelock)
               <=> \E i \in 1..(k - 1) : Names(b, i, s, t) /\ b[i].connected /\ f = b[i].firelock
      BY <1>8, <2>3
    <3> QED
      BY <3>1, <3>2 DEF AfterFirelocks
  <2> QED
    BY <2>2, <2>3
<1> QED
  BY <1>3, <1>7, <1>9 DEF FirelocksDone

(***************************************************************************)
(* A batch.                                                                *)
(***************************************************************************)
EdgeOf(e, s, t, f) == e = Batch!Edge({s, t}, f)
IsLink(topo, e) ==
  \E s, t \in BatchSlots, f \in BOOLEAN : Linked(topo, s, t, f) /\ EdgeOf(e, s, t, f)

\* An edge after a batch: there before and not named, or connected by the batch.
Kept(topo, b, n, s, t, f) == Linked(topo, s, t, f) /\ \A i \in 1..n : ~Names(b, i, s, t)
Made(b, n, s, t, f) == \E i \in 1..n : Names(b, i, s, t) /\ b[i].connected /\ f = b[i].firelock
IsAsked(topo, b, n, e) ==
  \E s, t \in BatchSlots, f \in BOOLEAN :
    EdgeOf(e, s, t, f) /\ (Kept(topo, b, n, s, t, f) \/ Made(b, n, s, t, f))

\* The edges a client reads.
LEMMA EdgesAreLinks ==
  ASSUME NEW topo, RowsSound(topo), NEW e
  PROVE  e \in Batch!Edges(topo) <=> IsLink(topo, e)
<1>1. \A s \in BatchSlots : topo.near["gas"][s] \in SUBSET BatchNear
  BY DEF RowsSound, BatchTopologies
<1>2. ASSUME NEW s \in BatchSlots, NEW n \in topo.near["gas"][s],
             e = Batch!Edge({s, n.handle.slot}, n.firelock)
      PROVE  \E t \in BatchSlots, f \in BOOLEAN : Linked(topo, s, t, f) /\ e = Batch!Edge({s, t}, f)
  <2>1. PICK t \in BatchSlots, f \in BOOLEAN : n = Entry(t, f)
    BY <1>1, EntryFacts
  <2>2. n.handle.slot = t /\ n.firelock = f
    BY <2>1, EntryFacts
  <2> QED
    BY <1>2, <2>1, <2>2 DEF Linked
<1>3. ASSUME NEW s \in BatchSlots, NEW t \in BatchSlots, NEW f \in BOOLEAN,
             Linked(topo, s, t, f), e = Batch!Edge({s, t}, f)
      PROVE  \E n \in topo.near["gas"][s] : e = Batch!Edge({s, n.handle.slot}, n.firelock)
  <2>1. Entry(t, f) \in topo.near["gas"][s] /\ Entry(t, f).handle.slot = t /\ Entry(t, f).firelock = f
    BY <1>3, EntryFacts DEF Linked
  <2> QED
    BY <1>3, <2>1
<1> QED
  <2> DEFINE Row(s) == {Batch!Edge({s, n.handle.slot}, n.firelock) : n \in topo.near["gas"][s]}
             Of(s) == \E t \in BatchSlots, f \in BOOLEAN :
                        Linked(topo, s, t, f) /\ EdgeOf(e, s, t, f)
  <2>1. Batch!Edges(topo) = UNION {Row(s) : s \in BatchSlots}
    BY DEF Batch!Edges
  <2>2. ASSUME NEW s \in BatchSlots PROVE e \in Row(s) <=> Of(s)
    BY <1>2, <1>3 DEF EdgeOf
  <2> HIDE DEF Row, Of
  <2>3. e \in UNION {Row(s) : s \in BatchSlots} <=> \E s \in BatchSlots : Of(s)
    BY <2>2
  <2> QED
    BY <2>1, <2>3 DEF Of, IsLink

\* An edge tells its pair and its firelock.
LEMMA EdgeFacts ==
  ASSUME NEW p, NEW q, NEW f, NEW g
  PROVE  /\ Batch!Edge(p, f) = Batch!Edge(q, g) <=> p = q /\ f = g
         /\ Batch!Edge(p, f).pair = p
<1>1. Batch!Edge(p, f).pair = p /\ Batch!Edge(p, f).firelock = f
      /\ Batch!Edge(q, g).pair = q /\ Batch!Edge(q, g).firelock = g
  BY DEF Batch!Edge
<1> QED
  BY <1>1

\* The edges a batch asks for, in terms of the edges there were.
LEMMA AskedAreLinks ==
  ASSUME NEW topo, RowsSound(topo), NEW n \in Nat, NEW b \in [1..n -> Batch!Mutations], NEW e
  PROVE  e \in Batch!Asked(Batch!Edges(topo), b) <=> IsAsked(topo, b, n, e)
<1>1. e \in Batch!Asked(Batch!Edges(topo), b) <=>
        \/ e \in Batch!Edges(topo) /\ \A i \in 1..n : Batch!Pair(b[i]) # e.pair
        \/ \E i \in 1..n : b[i].connected /\ e = Batch!Edge(Batch!Pair(b[i]), b[i].firelock)
  <2>1. Batch!Range(b) = {b[i] : i \in 1..n}
    BY DEF Batch!Range
  <2> QED
    BY <2>1 DEF Batch!Asked
<1>2. \A s, t : \A i \in 1..n : Batch!Pair(b[i]) = {s, t} <=> Names(b, i, s, t)
  BY SamePair DEF Batch!Pair, Names
<1>3. \A i \in 1..n : /\ b[i].left \in BatchSlots /\ b[i].right \in BatchSlots
                      /\ b[i].firelock \in BOOLEAN
  BY MutationFields
<1>4. \A s, t, f : EdgeOf(e, s, t, f) => e.pair = {s, t}
  BY EdgeFacts DEF EdgeOf
<1>5. ASSUME NEW s, NEW t, NEW f, EdgeOf(e, s, t, f)
      PROVE  (\A i \in 1..n : Batch!Pair(b[i]) # e.pair) <=> \A i \in 1..n : ~Names(b, i, s, t)
  <2>1. e.pair = {s, t}
    BY <1>4, <1>5
  <2>2. \A i \in 1..n : Batch!Pair(b[i]) = e.pair <=> Names(b, i, s, t)
    BY <1>2, <2>1
  <2> QED
    BY <2>2
<1>6. e \in Batch!Edges(topo) /\ (\A i \in 1..n : Batch!Pair(b[i]) # e.pair)
        => IsAsked(topo, b, n, e)
  <2> HAVE e \in Batch!Edges(topo) /\ (\A i \in 1..n : Batch!Pair(b[i]) # e.pair)
  <2>1. PICK s \in BatchSlots, t \in BatchSlots, f \in BOOLEAN :
          Linked(topo, s, t, f) /\ EdgeOf(e, s, t, f)
    BY EdgesAreLinks DEF IsLink
  <2> QED
    BY <1>5, <2>1 DEF IsAsked, Kept
<1>7. ASSUME NEW i \in 1..n, b[i].connected, e = Batch!Edge(Batch!Pair(b[i]), b[i].firelock)
      PROVE  IsAsked(topo, b, n, e)
  <2>1. Names(b, i, b[i].left, b[i].right) /\ Batch!Pair(b[i]) = {b[i].left, b[i].right}
    BY DEF Names, Same, Batch!Pair
  <2>2. Made(b, n, b[i].left, b[i].right, b[i].firelock)
    BY <1>7, <2>1 DEF Made
  <2>3. EdgeOf(e, b[i].left, b[i].right, b[i].firelock)
    BY <1>7, <2>1 DEF EdgeOf
  <2> QED
    BY <1>3, <2>2, <2>3 DEF IsAsked
<1>8. ASSUME NEW s \in BatchSlots, NEW t \in BatchSlots, NEW f \in BOOLEAN,
             EdgeOf(e, s, t, f), Kept(topo, b, n, s, t, f)
      PROVE  e \in Batch!Edges(topo) /\ \A i \in 1..n : Batch!Pair(b[i]) # e.pair
  <2>1. IsLink(topo, e)
    BY <1>8 DEF IsLink, Kept
  <2>2. e \in Batch!Edges(topo)
    BY <2>1, EdgesAreLinks
  <2> QED
    BY <1>5, <1>8, <2>2 DEF Kept
<1>9. ASSUME NEW s \in BatchSlots, NEW t \in BatchSlots, NEW f \in BOOLEAN,
             EdgeOf(e, s, t, f), Made(b, n, s, t, f)
      PROVE  \E i \in 1..n : b[i].connected /\ e = Batch!Edge(Batch!Pair(b[i]), b[i].firelock)
  <2>1. PICK i \in 1..n : Names(b, i, s, t) /\ b[i].connected /\ f = b[i].firelock
    BY <1>9 DEF Made
  <2>2. Batch!Pair(b[i]) = {s, t}
    BY <1>2, <2>1
  <2> QED
    BY <1>9, <2>1, <2>2 DEF EdgeOf
<1> QED
  BY <1>1, <1>6, <1>7, <1>8, <1>9 DEF IsAsked

\* Both passes of a batch: the rows stay sound, the second pass refuses nothing, and what
\* is left is what was asked.
LEMMA BatchPasses ==
  ASSUME NEW topo, RowsSound(topo), NEW n \in Nat, NEW b \in [1..n -> Batch!Mutations],
         Batch!Distinct(b)
  PROVE  LET first  == Batch!AdjacencyPass(topo, b)
             second == Batch!FirelockPass(first.topo, b)
         IN  /\ RowsSound(first.topo)
             /\ first.ok => /\ RowsSound(second.topo) /\ second.ok
                            /\ Batch!Edges(second.topo) = Batch!Asked(Batch!Edges(topo), b)
<1> DEFINE first == Batch!AdjacencyPass(topo, b)
           second == Batch!FirelockPass(first.topo, b)
<1>1. DOMAIN b = 1..n /\ Apart(b, n) /\ n \in 0..n
  BY DistinctApart
<1>2. PICK r : Passes("adjacency", topo, b, n, r) /\ first = r[n]
  BY <1>1, AdjacencyRuns
<1>3. AdjacencyDone(topo, b, n, first)
  BY <1>1, <1>2, AdjacencyPasses
<1>4. RowsSound(first.topo)
  BY <1>3 DEF AdjacencyDone, IsRun
<1> HIDE DEF first
<1>5. ASSUME first.ok
      PROVE  /\ RowsSound(second.topo) /\ second.ok
             /\ Batch!Edges(second.topo) = Batch!Asked(Batch!Edges(topo), b)
  <2>1. \A s, t \in BatchSlots, f \in BOOLEAN :
          Linked(first.topo, s, t, f) <=> AfterAdjacency(topo, b, n, s, t, f)
    BY <1>3, <1>5 DEF AdjacencyDone
  <2>2. ASSUME NEW i \in 1..n, b[i].connected PROVE ~Unlinked(first.topo, b[i].left, b[i].right)
    <3> DEFINE l == b[i].left
               t == b[i].right
    <3>1. l \in BatchSlots /\ t \in BatchSlots
      BY MutationFields
    <3>2. Names(b, i, l, t)
      BY DEF Names, Same
    <3> HIDE DEF l, t
    <3>3. \A f \in BOOLEAN : Linked(topo, l, t, f) \/ (f = FALSE /\ Unlinked(topo, l, t)) =>
            Linked(first.topo, l, t, f)
      BY <2>1, <2>2, <3>1, <3>2 DEF AfterAdjacency
    <3>4. CASE Unlinked(topo, l, t)
      <4>1. FALSE \in BOOLEAN
        OBVIOUS
      <4>2. Linked(first.topo, l, t, FALSE)
        BY <3>3, <3>4, <4>1
      <4> QED
        BY <4>1, <4>2 DEF Unlinked, l, t
    <3>5. CASE ~Unlinked(topo, l, t)
      BY <3>3, <3>5 DEF Unlinked, l, t
    <3> QED
      BY <3>4, <3>5
  <2>3. PICK q : Passes("firelock", first.topo, b, n, q) /\ second = q[n]
    BY <1>1, FirelockRuns
  <2>4. FirelocksDone(first.topo, b, n, second)
    BY <1>1, <1>4, <2>2, <2>3, FirelockPasses
  <2> HIDE DEF second
  <2>5. RowsSound(second.topo) /\ second.ok
        /\ \A s, t \in BatchSlots, f \in BOOLEAN :
             Linked(second.topo, s, t, f) <=> AfterFirelocks(first.topo, b, n, s, t, f)
    BY <2>4 DEF FirelocksDone, IsRun
  <2>6. ASSUME NEW s \in BatchSlots, NEW t \in BatchSlots, NEW f \in BOOLEAN
        PROVE  Linked(second.topo, s, t, f) <=> Kept(topo, b, n, s, t, f) \/ Made(b, n, s, t, f)
    <3>1. CASE \E i \in 1..n : Names(b, i, s, t) /\ b[i].connected
      BY <2>5, <3>1 DEF AfterFirelocks, Kept, Made
    <3>2. CASE ~\E i \in 1..n : Names(b, i, s, t) /\ b[i].connected
      BY <2>1, <2>5, <3>2 DEF AfterFirelocks, AfterAdjacency, Kept, Made
    <3> QED
      BY <3>1, <3>2
  <2>7. ASSUME NEW e
        PROVE  e \in Batch!Edges(second.topo) <=> e \in Batch!Asked(Batch!Edges(topo), b)
    <3>1. e \in Batch!Edges(second.topo) <=> IsLink(second.topo, e)
      BY <2>5, EdgesAreLinks
    <3>2. e \in Batch!Asked(Batch!Edges(topo), b) <=> IsAsked(topo, b, n, e)
      BY AskedAreLinks
    <3>3. IsLink(second.topo, e) <=> IsAsked(topo, b, n, e)
      BY <2>6 DEF IsLink, IsAsked
    <3> QED
      BY <3>1, <3>2, <3>3
  <2> QED
    BY <2>5, <2>7
<1> QED
  BY <1>4, <1>5 DEF first

\* The rows of the turfs are sound between requests, and an answer tells the truth.
BatchInv == RowsSound(rows) /\ BatchApplied

\* The revision is not part of the rows.
LEMMA RevisionApart ==
  ASSUME NEW topo, RowsSound(topo), NEW new, new = [topo EXCEPT !.revision = 0]
  PROVE  RowsSound(new) /\ Batch!Edges(new) = Batch!Edges(topo)
<1>1. new \in BatchTopologies /\ new.near = topo.near
  BY DEF RowsSound, BatchTopologies
<1> QED
  BY <1>1 DEF RowsSound, Linked, Batch!Edges

\* Turfs without edges have sound rows, and no batch is answered yet.
LEMMA BatchInitial ==
  ASSUME Batch!Init
  PROVE  BatchInv
<1>1. rows = Batch!EmptyTopology(BatchSlots) /\ outcome = "none"
  BY DEF Batch!Init
<1>2. rows \in BatchTopologies /\ \A s \in BatchSlots : rows.near["gas"][s] = {}
  BY <1>1 DEF Batch!EmptyTopology, Batch!EdgeKinds, BatchTopologies
<1> QED
  BY <1>1, <1>2 DEF BatchInv, RowsSound, Linked, BatchApplied, Batch!FirelocksFollow, Batch!AppliedAsAsked

\* A batch keeps the rows the same from both ends whatever refuses it, is never refused by its
\* firelock pass, and leaves exactly the edges it asked for when it is answered with success.
LEMMA BatchStep ==
  ASSUME BatchInv, NEW n \in Nat, NEW b \in [1..n -> Batch!Mutations], Batch!ApplyTurfAdjacency(b)
  PROVE  BatchInv'
<1> DEFINE first  == Batch!AdjacencyPass(rows, b)
           second == Batch!FirelockPass(first.topo, b)
<1>1. RowsSound(rows)
  BY DEF BatchInv
<1>2. asked' = Batch!Asked(Batch!Edges(rows), b)
  BY DEF Batch!ApplyTurfAdjacency
<1>3. CASE ~Batch!Distinct(b)
  <2>1. outcome' = "repeated_pair" /\ rows' = [rows EXCEPT !.revision = 0]
    BY <1>3 DEF Batch!ApplyTurfAdjacency, Batch!Answer
  <2>2. RowsSound(rows')
    BY <1>1, <2>1, RevisionApart
  <2> QED
    BY <2>1, <2>2 DEF BatchInv, RowsSound, Linked, BatchApplied, Batch!FirelocksFollow, Batch!AppliedAsAsked
<1>4. CASE Batch!Distinct(b)
  <2>1. /\ RowsSound(first.topo)
        /\ first.ok => /\ RowsSound(second.topo) /\ second.ok
                       /\ Batch!Edges(second.topo) = Batch!Asked(Batch!Edges(rows), b)
    BY <1>1, <1>4, BatchPasses
  <2>2. CASE ~first.ok
    <3>1. outcome' = "adjacency_refused" /\ rows' = [first.topo EXCEPT !.revision = 0]
      BY <1>4, <2>2 DEF Batch!ApplyTurfAdjacency, Batch!Answer
    <3> HIDE DEF first
    <3>2. RowsSound(rows')
      BY <2>1, <3>1, RevisionApart
    <3> QED
      BY <3>1, <3>2 DEF BatchInv, RowsSound, Linked, BatchApplied, Batch!FirelocksFollow, Batch!AppliedAsAsked
  <2>3. CASE first.ok
    <3>1. outcome' = "applied" /\ rows' = [second.topo EXCEPT !.revision = 0]
      BY <1>4, <2>1, <2>3 DEF Batch!ApplyTurfAdjacency, Batch!Answer
    <3> HIDE DEF first, second
    <3>2. RowsSound(rows') /\ Batch!Edges(rows') = asked'
      BY <1>2, <2>1, <2>3, <3>1, RevisionApart
    <3> QED
      BY <3>1, <3>2 DEF BatchInv, RowsSound, Linked, BatchApplied, Batch!FirelocksFollow, Batch!AppliedAsAsked, Batch!Edges
  <2> QED
    BY <2>2, <2>3
<1> QED
  BY <1>3, <1>4

\* Both ends of every edge agree, and the last batch (apply_turf_adjacency) was answered with
\* success only if it did all it asked for: the inductive invariant of the batches.
THEOREM BatchInvariant == MCSpec => []BatchInv
<1>1. MCInit => BatchInv
  BY BatchInitial DEF MCInit
<1>2. BatchInv /\ [MCNext]_allVars => BatchInv'
  <2> SUFFICES ASSUME BatchInv, [MCNext]_allVars PROVE BatchInv'
    OBVIOUS
  <2>1. CASE Batch!Next
    <3>1. PICK n \in 1..MaxBatch : \E b \in [1..n -> Batch!Mutations] : Batch!ApplyTurfAdjacency(b)
      BY <2>1 DEF Batch!Next
    <3>2. n \in Nat
      BY PartsConstants DEF Batch!BatchConstants
    <3> QED
      BY <3>1, <3>2, BatchStep
  <2>2. CASE UNCHANGED batchVars
    <3>1. open' = open /\ rows' = rows /\ outcome' = outcome /\ asked' = asked
      BY <2>2 DEF batchVars
    <3>2. RowsSound(rows')
      BY <3>1 DEF BatchInv
    <3>3. Batch!Edges(rows') = Batch!Edges(rows)
      BY <3>1
    <3> QED
      BY <3>1, <3>2, <3>3
         DEF BatchInv, RowsSound, Linked, BatchApplied, Batch!FirelocksFollow, Batch!AppliedAsAsked,
             Batch!Edges
  <2> QED
    BY <2>1, <2>2 DEF MCNext, ReassignNext, OtherNext, BatchNext, allVars
<1> QED
  BY <1>1, <1>2, PTL DEF MCSpec

\* The firelock pass of apply_turf_adjacency takes whatever its adjacency pass took, and a batch
\* answered with success leaves every pair it names as it asks and no other pair changed.
THEOREM BatchTheorem == MCSpec => []BatchApplied
<1>1. BatchInv => BatchApplied
  BY DEF BatchInv
<1> QED
  BY <1>1, BatchInvariant, PTL
=============================================================================
