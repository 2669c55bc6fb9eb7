---------------------------- MODULE LegacyProofs ----------------------------
(***************************************************************************)
(* Proofs about the in-process backend: the slots of the mixture arena     *)
(* (GasArena), and, as parts of the composition MCLegacy, the locks of the *)
(* game and the heat thread (LegacyLocks), the heat thread and the worlds  *)
(* around it (HeatWorker) and the queue of callbacks (CallbackChannel).    *)
(***************************************************************************)
EXTENDS MCLegacy, FiniteSetTheorems, SequenceTheorems, WellFoundedInduction, TLAPS

(***************************************************************************)
(* Facts about numbers and sequences.                                      *)
(***************************************************************************)
\* A set of naturals that is not empty has a least element.
LEMMA LeastNatural ==
  ASSUME NEW T \in SUBSET Nat, T # {}
  PROVE  \E x \in T : \A y \in T : x <= y
<1> DEFINE R == {ss \in Nat \X Nat : ss[1] < ss[2]}
<1>1. IsWellFoundedOn(R, Nat)
  BY NatLessThanWellFounded DEF OpToRel
<1> HIDE DEF R
<1>2. PICK x \in T : \A y \in T : ~(<<y, x>> \in R)
  BY <1>1, WFMin
<1>3. \A y \in T : ~(y < x)
  BY <1>2 DEF R
<1> QED
  BY <1>3

\* A set of positions that is not empty has a last one, which Max finds.
LEMMA MaxIsLast ==
  ASSUME NEW n \in Nat, NEW T \in SUBSET (1..n), T # {}
  PROVE  Max(T) \in T /\ \A x \in T : x <= Max(T)
<1> DEFINE U == {k \in Nat : \A x \in T : x <= k}
<1>1. U \in SUBSET Nat /\ n \in U
  OBVIOUS
<1>2. PICK k \in U : \A m \in U : k <= m
  BY <1>1, LeastNatural
<1>3. k \in T
  <2> SUFFICES ASSUME k \notin T PROVE FALSE
    OBVIOUS
  <2>1. \A x \in T : x <= k - 1 /\ x \in Nat /\ x >= 1
    BY <1>2
  <2>2. k - 1 \in Nat
    <3>1. PICK x \in T : TRUE
      OBVIOUS
    <3>2. k \in Nat /\ x <= k - 1 /\ x \in Nat
      BY <1>2, <2>1
    <3> QED
      BY <3>2
  <2>3. k - 1 \in U
    BY <2>1, <2>2
  <2> QED
    BY <1>2, <2>2, <2>3
<1>4. \E x \in T : \A y \in T : x >= y
  BY <1>2, <1>3
<1>5. Max(T) \in T /\ \A y \in T : Max(T) >= y
  BY <1>4, Zenon DEF Max
<1> QED
  BY <1>5

\* swap_remove: the entries before the last stay, and the last one replaces the one
\* that goes.
LEMMA SwapRemoveEntries ==
  ASSUME NEW S, NEW s \in Seq(S), NEW i \in 1..Len(s)
  PROVE  /\ SwapRemove(s, i) \in Seq(S)
         /\ Len(SwapRemove(s, i)) = Len(s) - 1
         /\ \A j \in 1..Len(s) - 1 : SwapRemove(s, i)[j] = IF j = i THEN s[Len(s)] ELSE s[j]
<1>1. Len(s) \in Nat /\ Len(s) \in 1..Len(s) /\ s[Len(s)] \in S
  BY LenProperties, ElementOfSeq
<1> DEFINE e == [s EXCEPT ![i] = s[Len(s)]]
<1>2. /\ e \in Seq(S) /\ Len(e) = Len(s)
      /\ \A j \in 1..Len(s) : e[j] = IF j = i THEN s[Len(s)] ELSE s[j]
  BY <1>1, ExceptSeq
<1> HIDE DEF e
<1>3. SwapRemove(s, i) = SubSeq(e, 1, Len(s) - 1)
  BY DEF SwapRemove, Last, e
<1>4. /\ SubSeq(e, 1, Len(s) - 1) \in Seq(S)
      /\ Len(SubSeq(e, 1, Len(s) - 1)) = Len(s) - 1
      /\ \A j \in 1..Len(s) - 1 : SubSeq(e, 1, Len(s) - 1)[j] = e[j]
  BY <1>1, <1>2, SubSeqProperties
<1> QED
  BY <1>1, <1>2, <1>3, <1>4

Distinct(s) == \A i, j \in DOMAIN s : s[i] = s[j] => i = j

\* Of entries that differ, exactly the one removed goes.
LEMMA SwapRemoveSound ==
  ASSUME NEW S, NEW s \in Seq(S), NEW i \in 1..Len(s), Distinct(s)
  PROVE  Distinct(SwapRemove(s, i)) /\ Range(SwapRemove(s, i)) = Range(s) \ {s[i]}
<1> DEFINE t == SwapRemove(s, i)
           n == Len(s)
<1>1. /\ n \in Nat /\ DOMAIN s = 1..n /\ t \in Seq(S) /\ DOMAIN t = 1..n - 1
      /\ \A j \in 1..n - 1 : t[j] = IF j = i THEN s[n] ELSE s[j]
  BY SwapRemoveEntries, LenProperties
<1> HIDE DEF t, n
<1>2. i \in 1..n /\ \A j, k \in 1..n : s[j] = s[k] => j = k
  BY <1>1 DEF Distinct, n
<1>3. Distinct(t)
  BY <1>1, <1>2 DEF Distinct
<1>4. ASSUME NEW j \in 1..n - 1
      PROVE  t[j] \in Range(s) \ {s[i]}
  BY <1>1, <1>2 DEF Range
<1>5. ASSUME NEW j \in 1..n, s[j] # s[i]
      PROVE  \E k \in 1..n - 1 : t[k] = s[j]
  <2>1. CASE j = n
    BY <1>1, <1>2, <1>5, <2>1
  <2>2. CASE j # n
    BY <1>1, <1>2, <1>5, <2>2
  <2> QED
    BY <2>1, <2>2
<1>6. Range(t) = Range(s) \ {s[i]}
  <2>1. Range(s) = {s[j] : j \in 1..n} /\ Range(t) = {t[j] : j \in 1..n - 1}
    BY <1>1 DEF Range
  <2> QED
    BY <1>4, <1>5, <2>1
<1> QED
  BY <1>3, <1>6 DEF t

(***************************************************************************)
(* The inductive invariant.  That a slot has one owner rests on the free   *)
(* list: no slot is listed twice, and none lies beyond the arena's end,    *)
(* where the next growth would hand it out again.                          *)
(***************************************************************************)
ArenaTypes ==
  /\ length \in 0..MaxSlots /\ active \in Nat /\ free \in Seq(Slots)
  /\ slotOf \in [Objects -> Slots \cup {NoSlot}]
  /\ mixOf \in [Turfs -> Slots \cup {NoSlot}]
  /\ refcounts \in [Slots -> Nat]

FreeSound == Distinct(free) /\ \A s \in Range(free) : s < length

(* A turf names a slot of the arena. *)
NamedExist == \A t \in Turfs : mixOf[t] # NoSlot => mixOf[t] < length

ArenaInv ==
  ArenaTypes /\ FreeSound /\ NamedExist /\ OneOwner /\ CountsAreScans /\ CountsAgree

Living == {o \in Objects : slotOf[o] # NoSlot}
Named(s) == {t \in Turfs : mixOf[t] = s}

\* The slots are natural numbers, and no slot is the absent one.
LEMMA SlotsAreNaturals ==
  ASSUME GasArenaConstants
  PROVE  /\ Slots \subseteq Nat /\ NoSlot \notin Slots /\ MaxSlots \in Nat
         /\ \A s \in Slots : s < MaxSlots
         /\ \A s \in Nat : s < MaxSlots => s \in Slots
  BY DEF GasArenaConstants, Slots, NoSlot

\* The counts, in terms of the objects that live.
LEMMA CountedByLiving ==
  CountsAgree <=> active = Cardinality(Living) /\ length - Len(free) = Cardinality(Living)
  BY DEF CountsAgree, Living

\* The arena begins empty, with no object and no named slot.
LEMMA ArenaInitial ==
  ASSUME GasArenaConstants, Init
  PROVE  ArenaInv
<1>1. ArenaTypes
  BY SlotsAreNaturals, EmptySeq DEF Init, ArenaTypes
<1>2. FreeSound /\ NamedExist /\ OneOwner
  BY DEF Init, FreeSound, Distinct, Range, NamedExist, OneOwner
<1>3. CountsAreScans
  <2>1. \A s \in Slots : {t \in Turfs : mixOf[t] = s} = {}
    BY SlotsAreNaturals DEF Init
  <2>2. Cardinality({}) = 0
    BY FS_EmptySet
  <2> QED
    BY <2>1, <2>2 DEF Init, CountsAreScans
<1>4. CountsAgree
  <2>1. Living = {}
    BY DEF Init, Living
  <2>2. Cardinality(Living) = 0
    BY <2>1, FS_EmptySet
  <2>3. Len(free) = 0 /\ length = 0 /\ active = 0
    BY EmptySeq DEF Init
  <2>4. length - Len(free) = 0
    BY <2>3
  <2> QED
    BY <2>2, <2>3, <2>4, CountedByLiving
<1> QED
  BY <1>1, <1>2, <1>3, <1>4 DEF ArenaInv

-----------------------------------------------------------------------------
(* Objects are registered and deleted.                                     *)

\* One object more or less: so is their number.
LEMMA LivingGrows ==
  ASSUME GasArenaConstants, ArenaTypes, NEW o \in Objects, NEW slot \in Slots,
         slotOf[o] = NoSlot, slotOf' = [slotOf EXCEPT ![o] = slot]
  PROVE  Cardinality(Living') = Cardinality(Living) + 1 /\ Cardinality(Living) \in Nat
<1>1. Living' = Living \cup {o} /\ o \notin Living
  BY SlotsAreNaturals DEF Living, ArenaTypes
<1>2. IsFiniteSet(Living)
  BY FS_Subset DEF Living, GasArenaConstants
<1> QED
  BY <1>1, <1>2, FS_AddElement, FS_CardinalityType

\* An object that goes is one fewer of the living.
LEMMA LivingShrinks ==
  ASSUME GasArenaConstants, ArenaTypes, NEW o \in Objects,
         slotOf[o] # NoSlot, slotOf' = [slotOf EXCEPT ![o] = NoSlot]
  PROVE  Cardinality(Living') = Cardinality(Living) - 1 /\ Cardinality(Living) \in Nat \ {0}
<1>1. Living' = Living \ {o} /\ o \in Living
  BY DEF Living, ArenaTypes
<1>2. IsFiniteSet(Living) /\ Living # {}
  BY <1>1, FS_Subset DEF Living, GasArenaConstants
<1> QED
  BY <1>1, <1>2, FS_RemoveElement, FS_CardinalityType, FS_EmptySet

\* The slot register_mix reuses: listed, of the arena, and named by no turf.
LEMMA ReusedSlot ==
  ASSUME GasArenaConstants, ArenaInv, Reusable # {}
  PROVE  /\ Max(Reusable) \in 1..Len(free) /\ free[Max(Reusable)] \in Slots
         /\ free[Max(Reusable)] < length /\ free[Max(Reusable)] \in Range(free)
         /\ \A t \in Turfs : mixOf[t] # free[Max(Reusable)]
<1>1. Len(free) \in Nat /\ DOMAIN free = 1..Len(free)
  BY LenProperties DEF ArenaInv, ArenaTypes
<1>2. Reusable \in SUBSET (1..Len(free))
  BY <1>1 DEF Reusable
<1>3. Max(Reusable) \in Reusable
  BY <1>1, <1>2, MaxIsLast
<1> DEFINE i == Max(Reusable)
<1> HIDE DEF i
<1>4. i \in 1..Len(free) /\ free[i] < length /\ ~Referenced(free[i])
  BY <1>2, <1>3 DEF Reusable, i
<1>5. free[i] \in Slots /\ free[i] \in Range(free)
  BY <1>1, <1>4 DEF ArenaInv, ArenaTypes, Range
<1>6. refcounts[free[i]] = 0 /\ refcounts[free[i]] = Cardinality(Named(free[i]))
  BY <1>4, <1>5 DEF Referenced, ArenaInv, ArenaTypes, CountsAreScans, Named
<1>7. IsFiniteSet(Named(free[i]))
  BY FS_Subset DEF Named, GasArenaConstants
<1>8. Named(free[i]) = {}
  BY <1>6, <1>7, FS_EmptySet
<1>9. \A t \in Turfs : mixOf[t] # free[i]
  BY <1>8 DEF Named
<1> QED
  BY <1>4, <1>5, <1>9 DEF i

\* An object that takes a freed slot keeps the invariant.
LEMMA ReuseKept ==
  ASSUME GasArenaConstants, ArenaInv, NEW o \in Objects, RegisterReuse(o)
  PROVE  ArenaInv'
<1> DEFINE i == Max(Reusable)
           slot == free[i]
<1>1. /\ i \in 1..Len(free) /\ slot \in Slots /\ slot < length /\ slot \in Range(free)
      /\ free \in Seq(Slots) /\ Distinct(free)
  BY ReusedSlot DEF RegisterReuse, ArenaInv, ArenaTypes, FreeSound
<1>2. /\ slotOf[o] = NoSlot /\ slotOf' = [slotOf EXCEPT ![o] = slot]
      /\ free' = SwapRemove(free, i) /\ active' = active + 1
      /\ UNCHANGED <<length, mixOf, refcounts>>
  BY DEF RegisterReuse
<1> HIDE DEF i, slot
<1>3. free' \in Seq(Slots) /\ Len(free') = Len(free) - 1
  BY <1>1, <1>2, SwapRemoveEntries
<1>4. Distinct(free') /\ Range(free') = Range(free) \ {slot}
  BY <1>1, <1>2, SwapRemoveSound DEF slot
<1>5. ArenaTypes'
  BY <1>1, <1>2, <1>3 DEF ArenaInv, ArenaTypes
<1>6. FreeSound' /\ NamedExist'
  BY <1>2, <1>4 DEF ArenaInv, FreeSound, NamedExist
<1>7. OneOwner'
  BY <1>1, <1>2, <1>4, SlotsAreNaturals DEF ArenaInv, ArenaTypes, OneOwner, Listed
<1>8. CountsAreScans'
  BY <1>2 DEF ArenaInv, CountsAreScans
<1>9. CountsAgree'
  <2>1. Cardinality(Living') = Cardinality(Living) + 1 /\ Cardinality(Living) \in Nat
    BY <1>1, <1>2, LivingGrows DEF ArenaInv
  <2>2. Len(free) \in Nat /\ length \in Nat
    BY <1>1, LenProperties DEF ArenaInv, ArenaTypes, GasArenaConstants
  <2>3. active = Cardinality(Living) /\ length - Len(free) = Cardinality(Living)
    BY CountedByLiving DEF ArenaInv
  <2>4. active' = Cardinality(Living') /\ length' - Len(free') = Cardinality(Living')
    BY <1>2, <1>3, <2>1, <2>2, <2>3
  <2> QED
    BY <2>4 DEF CountsAgree, Living
<1> QED
  BY <1>5, <1>6, <1>7, <1>8, <1>9 DEF ArenaInv

\* Growth hands out the slot at the end and lists the spare ones beyond it.
LEMMA GrownList ==
  ASSUME GasArenaConstants, ArenaInv, NEW spare \in Nat, length + 1 + spare <= MaxSlots,
         free' = free \o [i \in 1..spare |-> length + i]
  PROVE  /\ free' \in Seq(Slots) /\ Len(free') = Len(free) + spare
         /\ Distinct(free')
         /\ Range(free') = Range(free) \cup {length + i : i \in 1..spare}
<1> DEFINE extra == [i \in 1..spare |-> length + i]
           n == Len(free)
<1>1. length \in Nat /\ MaxSlots \in Nat /\ free \in Seq(Slots)
  BY DEF ArenaInv, ArenaTypes, GasArenaConstants
<1>2. n \in Nat /\ DOMAIN free = 1..n /\ \A j \in 1..n : free[j] \in Slots /\ free[j] < length
  <2>1. n \in Nat /\ DOMAIN free = 1..n
    BY <1>1, LenProperties
  <2>2. \A j \in 1..n : free[j] \in Slots
    BY <1>1, <2>1, ElementOfSeq
  <2>3. \A j \in 1..n : free[j] \in Range(free)
    BY <2>1 DEF Range
  <2> QED
    BY <2>1, <2>2, <2>3 DEF ArenaInv, FreeSound
<1>3. \A j \in 1..spare : extra[j] = length + j /\ length + j \in Slots
  BY <1>1 DEF Slots
<1>4. extra \in Seq(Slots) /\ Len(extra) = spare
  <2>1. extra \in [1..spare -> Slots]
    BY <1>3
  <2> QED
    BY <2>1, SeqDef, LenProperties
<1> HIDE DEF extra, n
<1>5. /\ free' \in Seq(Slots) /\ Len(free') = n + spare
      /\ \A j \in 1..n + spare : free'[j] = IF j <= n THEN free[j] ELSE extra[j - n]
  <2>1. free' = free \o extra
    BY DEF extra
  <2>2. free \o extra \in Seq(Slots) /\ Len(free \o extra) = Len(free) + Len(extra)
    BY <1>1, <1>4, ConcatProperties
  <2>3. \A j \in 1..Len(free) + Len(extra) :
          (free \o extra)[j] = IF j <= Len(free) THEN free[j] ELSE extra[j - Len(free)]
    BY <1>1, <1>4, ConcatProperties
  <2> QED
    BY <1>4, <2>1, <2>2, <2>3 DEF n
<1>6. DOMAIN free' = 1..n + spare
  BY <1>5, LenProperties
<1>7. \A j \in 1..n + spare :
        /\ j <= n => j \in 1..n /\ free'[j] = free[j]
        /\ ~(j <= n) => j - n \in 1..spare /\ free'[j] = length + (j - n)
  BY <1>2, <1>3, <1>5
<1>8. Distinct(free')
  <2> SUFFICES ASSUME NEW j \in 1..n + spare, NEW k \in 1..n + spare, free'[j] = free'[k]
               PROVE  j = k
    BY <1>6 DEF Distinct
  <2>1. \A a, b \in 1..n : free[a] = free[b] => a = b
    BY <1>2 DEF ArenaInv, FreeSound, Distinct
  <2>2. \A a \in 1..n : free[a] \in Nat
    BY <1>2, SlotsAreNaturals
  <2>3. CASE j <= n /\ k <= n
    BY <1>7, <2>1, <2>3
  <2>4. CASE j <= n /\ ~(k <= n)
    BY <1>1, <1>2, <1>7, <2>2, <2>4
  <2>5. CASE ~(j <= n) /\ k <= n
    BY <1>1, <1>2, <1>7, <2>2, <2>5
  <2>6. CASE ~(j <= n) /\ ~(k <= n)
    BY <1>1, <1>2, <1>7, <2>6
  <2> QED
    BY <2>3, <2>4, <2>5, <2>6
<1>9. Range(free') = Range(free) \cup {length + i : i \in 1..spare}
  <2>1. ASSUME NEW j \in 1..n + spare
        PROVE  free'[j] \in Range(free) \cup {length + i : i \in 1..spare}
    <3>1. CASE j <= n
      BY <1>2, <1>7, <3>1 DEF Range
    <3>2. CASE ~(j <= n)
      BY <1>7, <3>2
    <3> QED
      BY <3>1, <3>2
  <2>2. ASSUME NEW j \in 1..n
        PROVE  free[j] \in Range(free')
    <3>1. j \in 1..n + spare /\ j <= n
      BY <1>2
    <3> QED
      BY <1>6, <1>7, <3>1 DEF Range
  <2>3. ASSUME NEW j \in 1..spare
        PROVE  length + j \in Range(free')
    <3>1. n + j \in 1..n + spare /\ ~(n + j <= n) /\ (n + j) - n = j
      BY <1>2
    <3> QED
      BY <1>6, <1>7, <3>1 DEF Range
  <2>4. Range(free) = {free[j] : j \in 1..n} /\ Range(free') = {free'[j] : j \in 1..n + spare}
    BY <1>2, <1>6 DEF Range
  <2> QED
    BY <2>1, <2>2, <2>3, <2>4
<1> QED
  BY <1>5, <1>8, <1>9 DEF n

\* An object for which the arena grows keeps the invariant.
LEMMA GrowKept ==
  ASSUME GasArenaConstants, ArenaInv, NEW o \in Objects, NEW spare \in 0..MaxSpare,
         RegisterGrow(o, spare)
  PROVE  ArenaInv'
<1>1. /\ slotOf[o] = NoSlot /\ length + 1 + spare <= MaxSlots
      /\ slotOf' = [slotOf EXCEPT ![o] = length]
      /\ length' = length + 1 + spare /\ active' = active + 1
      /\ UNCHANGED <<mixOf, refcounts>>
      /\ free' = free \o [i \in 1..spare |-> length + i]
  BY DEF RegisterGrow
<1>2. length \in Nat /\ MaxSlots \in Nat /\ spare \in Nat /\ length \in Slots /\ active \in Nat
  BY <1>1 DEF ArenaInv, ArenaTypes, GasArenaConstants, Slots
<1>3. /\ free' \in Seq(Slots) /\ Len(free') = Len(free) + spare /\ Distinct(free')
      /\ Range(free') = Range(free) \cup {length + i : i \in 1..spare}
  BY <1>1, <1>2, GrownList
<1>4. \A s \in Range(free) : s < length /\ s \in Nat
  <2>1. \A s \in Range(free) : s \in Slots
    BY ElementOfSeq, LenProperties DEF ArenaInv, ArenaTypes, Range
  <2> QED
    BY <2>1, SlotsAreNaturals DEF ArenaInv, FreeSound
<1>5. ArenaTypes'
  BY <1>1, <1>2, <1>3 DEF ArenaInv, ArenaTypes
<1>6. FreeSound'
  BY <1>1, <1>2, <1>3, <1>4 DEF FreeSound
<1>7. NamedExist'
  <2>1. \A t \in Turfs : mixOf[t] # NoSlot => mixOf[t] \in Nat
    BY SlotsAreNaturals DEF ArenaInv, ArenaTypes
  <2> QED
    BY <1>1, <1>2, <2>1 DEF ArenaInv, NamedExist
<1>8. OneOwner'
  <2>1. \A p \in Objects : slotOf[p] # NoSlot =>
          slotOf[p] \in Nat /\ slotOf[p] < length /\ slotOf[p] \notin Range(free)
    BY SlotsAreNaturals DEF ArenaInv, ArenaTypes, OneOwner, Listed
  <2>2. length # NoSlot
    BY <1>2, SlotsAreNaturals
  <2>3. \A p \in Objects : slotOf'[p] = IF p = o THEN length ELSE slotOf[p]
    BY <1>1 DEF ArenaInv, ArenaTypes
  <2>4. length \notin Range(free')
    BY <1>2, <1>3, <1>4
  <2>5. \A p \in Objects : slotOf[p] # NoSlot => slotOf[p] \notin Range(free')
    BY <1>2, <1>3, <2>1
  <2>6. length < length' /\ \A p \in Objects : slotOf[p] # NoSlot => slotOf[p] < length'
    BY <1>1, <1>2, <2>1
  <2>7. \A p \in Objects : slotOf[p] # length
    BY <1>2, <2>1, <2>2
  <2>8. \A p, q \in Objects : slotOf[p] # NoSlot /\ q # p => slotOf[q] # slotOf[p]
    BY DEF ArenaInv, OneOwner
  <2> QED
    BY <2>3, <2>4, <2>5, <2>6, <2>7, <2>8, Zenon DEF OneOwner, Listed
<1>9. CountsAreScans'
  BY <1>1 DEF ArenaInv, CountsAreScans
<1>10. CountsAgree'
  <2>1. Cardinality(Living') = Cardinality(Living) + 1 /\ Cardinality(Living) \in Nat
    BY <1>1, <1>2, LivingGrows DEF ArenaInv
  <2>2. Len(free) \in Nat
    BY LenProperties DEF ArenaInv, ArenaTypes
  <2>3. active = Cardinality(Living) /\ length - Len(free) = Cardinality(Living)
    BY CountedByLiving DEF ArenaInv
  <2>4. active' = Cardinality(Living') /\ length' - Len(free') = Cardinality(Living')
    BY <1>1, <1>2, <1>3, <2>1, <2>2, <2>3
  <2> QED
    BY <2>4 DEF CountsAgree, Living
<1> QED
  BY <1>5, <1>6, <1>7, <1>8, <1>9, <1>10 DEF ArenaInv

\* The slot of a deleted object was not listed, so it is listed once.
LEMMA UnregisterKept ==
  ASSUME GasArenaConstants, ArenaInv, NEW o \in Objects, Unregister(o)
  PROVE  ArenaInv'
<1> DEFINE slot == slotOf[o]
           n == Len(free)
<1>1. /\ slot # NoSlot /\ slot \in Slots /\ slot < length /\ slot \notin Range(free)
      /\ \A p \in Objects \ {o} : slotOf[p] # slot
  BY DEF Unregister, ArenaInv, ArenaTypes, OneOwner, Listed
<1>2. /\ slotOf' = [slotOf EXCEPT ![o] = NoSlot]
      /\ free' = Append(free, slot) /\ active' = active - 1
      /\ UNCHANGED <<length, mixOf, refcounts>>
  BY <1>1 DEF Unregister, Listed
<1> HIDE DEF slot, n
<1>3. /\ n \in Nat /\ DOMAIN free = 1..n /\ free \in Seq(Slots)
      /\ free' \in Seq(Slots) /\ Len(free') = n + 1 /\ DOMAIN free' = 1..n + 1
      /\ \A j \in 1..n + 1 : free'[j] = IF j = n + 1 THEN slot ELSE free[j]
  <2>1. free \in Seq(Slots)
    BY DEF ArenaInv, ArenaTypes
  <2>2. n \in Nat /\ DOMAIN free = 1..n
    BY <2>1, LenProperties DEF n
  <2>3. /\ free' \in Seq(Slots) /\ Len(free') = n + 1
        /\ \A j \in 1..n : free'[j] = free[j]
        /\ free'[n + 1] = slot
    BY <1>1, <1>2, <2>1, AppendProperties DEF n
  <2>4. DOMAIN free' = 1..n + 1
    BY <2>3, LenProperties
  <2> QED
    BY <2>1, <2>2, <2>3, <2>4
<1>4. Range(free') = Range(free) \cup {slot}
  <2>1. Range(free) = {free[j] : j \in 1..n} /\ Range(free') = {free'[j] : j \in 1..n + 1}
    BY <1>3 DEF Range
  <2> QED
    BY <1>3, <2>1
<1>5. Distinct(free')
  <2>1. \A j, k \in 1..n : free[j] = free[k] => j = k
    BY <1>3 DEF ArenaInv, FreeSound, Distinct
  <2>2. \A j \in 1..n : free[j] # slot
    BY <1>1, <1>3 DEF Range
  <2> QED
    BY <1>3, <2>1, <2>2 DEF Distinct
<1>6. Cardinality(Living') = Cardinality(Living) - 1 /\ Cardinality(Living) \in Nat \ {0}
  BY <1>1, <1>2, LivingShrinks DEF ArenaInv, slot
<1>7. active = Cardinality(Living) /\ length - n = Cardinality(Living)
  BY CountedByLiving DEF ArenaInv, n
<1>8. ArenaTypes'
  BY <1>1, <1>2, <1>3, <1>6, <1>7 DEF ArenaInv, ArenaTypes
<1>9. FreeSound' /\ NamedExist'
  BY <1>1, <1>2, <1>4, <1>5 DEF ArenaInv, FreeSound, NamedExist
<1>10. OneOwner'
  <2>1. \A p \in Objects : slotOf'[p] = IF p = o THEN NoSlot ELSE slotOf[p]
    BY <1>2 DEF ArenaInv, ArenaTypes
  <2> QED
    BY <1>1, <1>2, <1>4, <2>1 DEF ArenaInv, OneOwner, Listed
<1>11. CountsAreScans'
  BY <1>2 DEF ArenaInv, CountsAreScans
<1>12. CountsAgree'
  <2>1. length \in Nat
    BY DEF ArenaInv, ArenaTypes, GasArenaConstants
  <2>2. active' = Cardinality(Living') /\ length' - Len(free') = Cardinality(Living')
    BY <1>2, <1>3, <1>6, <1>7, <2>1
  <2> QED
    BY <2>2 DEF CountsAgree, Living
<1> QED
  BY <1>8, <1>9, <1>10, <1>11, <1>12 DEF ArenaInv

-----------------------------------------------------------------------------
(* Turfs name mixtures and let them go.                                    *)

\* A turf leaves a slot or comes to it: the turfs that name a slot, counted.
LEMMA NamedMoves ==
  ASSUME GasArenaConstants, ArenaTypes, NEW t \in Turfs, NEW slot \in Slots \cup {NoSlot},
         mixOf' = [mixOf EXCEPT ![t] = slot]
  PROVE  /\ \A s \in Slots : IsFiniteSet(Named(s)) /\ Cardinality(Named(s)) \in Nat
         /\ \A s \in Slots : s # mixOf[t] /\ s # slot => Named(s)' = Named(s)
         /\ \A s \in Slots : s = mixOf[t] /\ s = slot => Named(s)' = Named(s)
         /\ \A s \in Slots : s = mixOf[t] /\ s # slot =>
              Cardinality(Named(s)') = Cardinality(Named(s)) - 1 /\ Cardinality(Named(s)) # 0
         /\ \A s \in Slots : s # mixOf[t] /\ s = slot =>
              Cardinality(Named(s)') = Cardinality(Named(s)) + 1
<1>1. \A s \in Slots : IsFiniteSet(Named(s)) /\ Cardinality(Named(s)) \in Nat
  BY FS_Subset, FS_CardinalityType DEF Named, GasArenaConstants
<1>2. \A u \in Turfs : mixOf'[u] = IF u = t THEN slot ELSE mixOf[u]
  BY DEF ArenaTypes
<1>3. ASSUME NEW s \in Slots, (s # mixOf[t] /\ s # slot) \/ (s = mixOf[t] /\ s = slot)
      PROVE  Named(s)' = Named(s)
  BY <1>2, <1>3 DEF Named
<1>4. ASSUME NEW s \in Slots, s = mixOf[t], s # slot
      PROVE  Cardinality(Named(s)') = Cardinality(Named(s)) - 1 /\ Cardinality(Named(s)) # 0
  <2>1. Named(s)' = Named(s) \ {t} /\ t \in Named(s)
    BY <1>2, <1>4 DEF Named
  <2>2. Named(s) # {}
    BY <2>1
  <2> QED
    BY <1>1, <2>1, <2>2, FS_RemoveElement, FS_EmptySet
<1>5. ASSUME NEW s \in Slots, s # mixOf[t], s = slot
      PROVE  Cardinality(Named(s)') = Cardinality(Named(s)) + 1
  <2>1. Named(s)' = Named(s) \cup {t} /\ t \notin Named(s)
    BY <1>2, <1>5 DEF Named
  <2> QED
    BY <1>1, <2>1, FS_AddElement
<1> QED
  BY <1>1, <1>3, <1>4, <1>5

\* What the scan of the turfs finds are the turfs that name the slot.
LEMMA ScansAreNamed ==
  CountsAreScans <=> \A s \in Slots : refcounts[s] = Cardinality(Named(s))
  BY DEF CountsAreScans, Named

\* A turf that names a slot keeps the invariant.
LEMMA InsertKept ==
  ASSUME GasArenaConstants, ArenaInv, NEW t \in Turfs, NEW o \in Objects, InsertTurf(t, o)
  PROVE  ArenaInv'
<1> DEFINE slot == slotOf[o]
           old == mixOf[t]
<1>1. /\ slot \in Slots /\ slot < length /\ slot # NoSlot
      /\ old \in Slots \cup {NoSlot} /\ NoSlot \notin Slots
      /\ mixOf' = [mixOf EXCEPT ![t] = slot]
      /\ refcounts' = InsertedCounts(t, slot)
      /\ UNCHANGED <<length, free, active, slotOf>>
      /\ refcounts \in [Slots -> Nat] /\ ArenaTypes
  BY SlotsAreNaturals DEF InsertTurf, ArenaInv, ArenaTypes, OneOwner
<1>2. \A s \in Slots : refcounts[s] = Cardinality(Named(s)) /\ refcounts[s] \in Nat
  BY <1>1, ScansAreNamed DEF ArenaInv
<1> HIDE DEF slot
<1>3. /\ \A s \in Slots : s # old /\ s # slot => Named(s)' = Named(s)
      /\ \A s \in Slots : s = old /\ s = slot => Named(s)' = Named(s)
      /\ \A s \in Slots : s = old /\ s # slot =>
           Cardinality(Named(s)') = Cardinality(Named(s)) - 1 /\ Cardinality(Named(s)) # 0
      /\ \A s \in Slots : s # old /\ s = slot =>
           Cardinality(Named(s)') = Cardinality(Named(s)) + 1
  BY <1>1, NamedMoves
<1> HIDE DEF old
<1>4. \A s \in Slots :
        refcounts'[s] = IF s = old /\ s # slot THEN IF refcounts[s] = 0 THEN 0 ELSE refcounts[s] - 1
                        ELSE IF s # old /\ s = slot THEN refcounts[s] + 1
                        ELSE refcounts[s]
  <2>1. CASE old = slot
    BY <1>1, <2>1 DEF InsertedCounts, old
  <2>2. CASE old # slot /\ old = NoSlot
    BY <1>1, <2>2 DEF InsertedCounts, AcquireMix, old
  <2>3. CASE old # slot /\ old # NoSlot
    <3>1. refcounts' = AcquireMix(ReleaseMix(refcounts, old), slot)
      BY <1>1, <2>3 DEF InsertedCounts, old
    <3> QED
      BY <1>1, <2>3, <3>1 DEF AcquireMix, ReleaseMix
  <2> QED
    BY <2>1, <2>2, <2>3
<1>5. DOMAIN refcounts' = Slots /\ refcounts' = [s \in Slots |-> refcounts'[s]]
  BY <1>1 DEF InsertedCounts, AcquireMix, ReleaseMix
<1>6. \A s \in Slots : refcounts'[s] = Cardinality(Named(s)') /\ refcounts'[s] \in Nat
  <2> TAKE s \in Slots
  <2>1. CASE s = old /\ s # slot
    BY <1>2, <1>3, <1>4, <2>1
  <2>2. CASE s # old /\ s = slot
    BY <1>2, <1>3, <1>4, <2>2
  <2>3. CASE (s # old /\ s # slot) \/ (s = old /\ s = slot)
    BY <1>2, <1>3, <1>4, <2>3
  <2> QED
    BY <2>1, <2>2, <2>3
<1>7. CountsAreScans'
  BY <1>6 DEF CountsAreScans, Named
<1>8. ArenaTypes'
  BY <1>1, <1>5, <1>6 DEF ArenaTypes
<1>9. NamedExist'
  BY <1>1 DEF ArenaInv, ArenaTypes, NamedExist
<1>10. FreeSound' /\ OneOwner' /\ CountsAgree'
  BY <1>1 DEF ArenaInv, FreeSound, OneOwner, Listed, CountsAgree
<1> QED
  BY <1>7, <1>8, <1>9, <1>10 DEF ArenaInv

\* A turf that goes keeps the invariant.
LEMMA RemoveKept ==
  ASSUME GasArenaConstants, ArenaInv, NEW t \in Turfs, RemoveTurf(t)
  PROVE  ArenaInv'
<1> DEFINE old == mixOf[t]
<1>1. /\ old \in Slots /\ NoSlot \notin Slots
      /\ mixOf' = [mixOf EXCEPT ![t] = NoSlot]
      /\ refcounts' = ReleaseMix(refcounts, old)
      /\ UNCHANGED <<length, free, active, slotOf>>
      /\ refcounts \in [Slots -> Nat] /\ ArenaTypes
  BY SlotsAreNaturals DEF RemoveTurf, ArenaInv, ArenaTypes
<1>2. \A s \in Slots : refcounts[s] = Cardinality(Named(s)) /\ refcounts[s] \in Nat
  BY <1>1, ScansAreNamed DEF ArenaInv
<1>3. /\ \A s \in Slots : s # old => Named(s)' = Named(s)
      /\ \A s \in Slots : s = old =>
           Cardinality(Named(s)') = Cardinality(Named(s)) - 1 /\ Cardinality(Named(s)) # 0
  <2>1. NoSlot \in Slots \cup {NoSlot}
    OBVIOUS
  <2>2. /\ \A s \in Slots : s # mixOf[t] /\ s # NoSlot => Named(s)' = Named(s)
        /\ \A s \in Slots : s = mixOf[t] /\ s # NoSlot =>
             Cardinality(Named(s)') = Cardinality(Named(s)) - 1 /\ Cardinality(Named(s)) # 0
    BY <1>1, <2>1, NamedMoves, Zenon
  <2>3. \A s \in Slots : s # NoSlot
    BY <1>1
  <2> QED
    BY <2>2, <2>3
<1> HIDE DEF old
<1>4. \A s \in Slots :
        refcounts'[s] = IF s = old THEN IF refcounts[s] = 0 THEN 0 ELSE refcounts[s] - 1
                        ELSE refcounts[s]
  BY <1>1 DEF ReleaseMix
<1>5. refcounts' = [s \in Slots |-> refcounts'[s]]
  BY <1>1 DEF ReleaseMix
<1>6. \A s \in Slots : refcounts'[s] = Cardinality(Named(s)') /\ refcounts'[s] \in Nat
  BY <1>2, <1>3, <1>4
<1>7. CountsAreScans'
  BY <1>6 DEF CountsAreScans, Named
<1>8. ArenaTypes'
  BY <1>1, <1>5, <1>6 DEF ArenaTypes
<1>9. NamedExist'
  BY <1>1 DEF ArenaInv, ArenaTypes, NamedExist
<1>10. FreeSound' /\ OneOwner' /\ CountsAgree'
  BY <1>1 DEF ArenaInv, FreeSound, OneOwner, Listed, CountsAgree
<1> QED
  BY <1>7, <1>8, <1>9, <1>10 DEF ArenaInv

-----------------------------------------------------------------------------
\* Every step of the arena keeps the invariant.
LEMMA ArenaKept ==
  ASSUME GasArenaConstants, ArenaInv, [Next]_vars
  PROVE  ArenaInv'
<1>1. CASE UNCHANGED vars
  BY <1>1 DEF vars, ArenaInv, ArenaTypes, FreeSound, NamedExist, OneOwner, Listed,
              CountsAreScans, CountsAgree
<1>2. ASSUME NEW o \in Objects, RegisterReuse(o) \/ Unregister(o)
      PROVE  ArenaInv'
  BY <1>2, ReuseKept, UnregisterKept
<1>3. ASSUME NEW o \in Objects, NEW spare \in 0..MaxSpare, RegisterGrow(o, spare)
      PROVE  ArenaInv'
  BY <1>3, GrowKept
<1>4. ASSUME NEW t \in Turfs, NEW o \in Objects, InsertTurf(t, o)
      PROVE  ArenaInv'
  BY <1>4, InsertKept
<1>5. ASSUME NEW t \in Turfs, RemoveTurf(t)
      PROVE  ArenaInv'
  BY <1>5, RemoveKept
<1> QED
  BY <1>1, <1>2, <1>3, <1>4, <1>5, Zenon DEF Next

\* The slots of the arena: the free list lists no slot twice and none beyond the end,
\* every turf names a slot of the arena, a slot has one owner, and the counts of turfs
\* and of mixtures are exact, whatever is registered, deleted, grown or reused.
THEOREM ArenaInvariant ==
  ASSUME GasArenaConstants
  PROVE  Spec => []ArenaInv
<1>1. Init => ArenaInv
  BY ArenaInitial
<1>2. ArenaInv /\ [Next]_vars => ArenaInv'
  BY ArenaKept
<1> QED
  BY <1>1, <1>2, PTL DEF Spec

\* A slot that an object is given now is named by no turf: a reused one was counted, and
\* a new one lies beyond what any turf can name.
LEMMA GivenAlone ==
  ASSUME GasArenaConstants, ArenaInv, [Next]_vars, NEW o \in Objects,
         slotOf[o] = NoSlot, slotOf'[o] # NoSlot
  PROVE  \A t \in Turfs : mixOf[t] # slotOf'[o]
<1>0. slotOf \in [Objects -> Slots \cup {NoSlot}]
  BY DEF ArenaInv, ArenaTypes
<1>1. PICK p \in Objects : RegisterReuse(p) \/ \E spare \in 0..MaxSpare : RegisterGrow(p, spare)
  <2>1. CASE UNCHANGED slotOf
    BY <2>1
  <2>2. ASSUME NEW p \in Objects, Unregister(p)
        PROVE  FALSE
    BY <1>0, <2>2 DEF Unregister
  <2> QED
    BY <2>1, <2>2, Zenon DEF Next, vars, InsertTurf, RemoveTurf
<1>2. CASE RegisterReuse(p)
  <2>1. p = o /\ slotOf'[o] = free[Max(Reusable)] /\ Reusable # {}
    BY <1>0, <1>2 DEF RegisterReuse
  <2> QED
    BY <2>1, ReusedSlot
<1>3. ASSUME NEW spare \in 0..MaxSpare, RegisterGrow(p, spare)
      PROVE  \A t \in Turfs : mixOf[t] # slotOf'[o]
  <2>1. p = o /\ slotOf'[o] = length
    BY <1>0, <1>3 DEF RegisterGrow
  <2>2. length \in Nat /\ length # NoSlot
    BY DEF ArenaInv, ArenaTypes, GasArenaConstants, NoSlot
  <2>3. \A t \in Turfs : mixOf[t] # NoSlot => mixOf[t] < length
    BY DEF ArenaInv, NamedExist
  <2> QED
    BY <2>1, <2>2, <2>3
<1> QED
  BY <1>1, <1>2, <1>3

\* A mixture slot has one owner, who meets no turf of a former one when it is given the
\* slot, and the counts of turfs and of mixtures are exact: SlotsSound, which a run checks
\* for three objects and two turfs, for any of them and any size of the arena.
THEOREM SlotsTheorem ==
  ASSUME GasArenaConstants
  PROVE  Spec => SlotsSound
<1>1. ArenaInv => OneOwner /\ CountsAreScans /\ CountsAgree
  BY DEF ArenaInv
<1>2. ArenaInv /\ [Next]_vars =>
        [\A o \in Objects : slotOf[o] = NoSlot /\ slotOf'[o] # NoSlot =>
           \A t \in Turfs : mixOf[t] # slotOf'[o]]_vars
  BY GivenAlone
<1> QED
  BY <1>1, <1>2, ArenaInvariant, PTL DEF Spec, SlotsSound, NewOwnerAlone

(***************************************************************************)
(* What a thread holds, and what a call does to it.                        *)
(***************************************************************************)
LockOps == [kind : {"read", "write", "drain", "free", "call"},
            lock : Locks!Locks \cup {Locks!Nobody}]

\* What a thread holds: the locks it reads and those whose writer's bit it has.
Held == {h \in [reads : SUBSET Locks!Locks, writes : SUBSET Locks!Locks] :
           h.reads \cap h.writes = {}}
Nothing == [reads |-> {}, writes |-> {}]

\* The locks a heat pass reads.
PassLocks == {"tasks", "heat", "turfs", "gases", "specific"}
PassOps == [kind : {"read", "free"}, lock : PassLocks]

\* What a thread may do with what it holds: ask for what it does not hold, wait for
\* the readers of a lock of the heat pass with no other writer's bit, give back what
\* it holds, and call the game with no lock at all.
Asks(op, h) ==
  /\ op.kind \in {"read", "write"} /\ op.lock \in Locks!Locks
  /\ op.lock \notin h.reads \cup h.writes
  /\ op.kind = "write" /\ op.lock \in PassLocks => h.writes = {}
Drains(op, h) ==
  /\ op.kind = "drain" /\ op.lock \in h.writes
  /\ op.lock \in PassLocks => h.writes = {op.lock}
Frees(op, h) == op.kind = "free" /\ op.lock \in h.reads \cup h.writes
Calls(op, h) == op.kind = "call" /\ h = Nothing
Allowed(op, h) == Asks(op, h) \/ Drains(op, h) \/ Frees(op, h) \/ Calls(op, h)

After(op, h) ==
  [reads |-> IF op.kind = "read" THEN h.reads \cup {op.lock}
             ELSE IF op.kind = "free" THEN h.reads \ {op.lock} ELSE h.reads,
   writes |-> IF op.kind = "write" THEN h.writes \cup {op.lock}
              ELSE IF op.kind = "free" THEN h.writes \ {op.lock} ELSE h.writes]

\* A thread that holds "from" may do the whole of the code, and then holds "to".
Trace(h, c, from, to) ==
  /\ h \in [1..(Len(c) + 1) -> Held] /\ h[1] = from /\ h[Len(c) + 1] = to
  /\ \A i \in 1..Len(c) : Allowed(c[i], h[i]) /\ h[i + 1] = After(c[i], h[i])
Runs(c, from, to) == c \in Seq(LockOps) /\ \E h : Trace(h, c, from, to)

\* What the thread holds stays a pair of disjoint sets of locks.
LEMMA AfterHeld ==
  ASSUME NEW op \in LockOps, NEW h \in Held, Allowed(op, h)
  PROVE  After(op, h) \in Held
  BY DEF LockOps, Held, Allowed, Asks, Drains, Frees, Calls, After

\* Nothing to do leaves what is held.
LEMMA RunsNothing ==
  ASSUME NEW h \in Held
  PROVE  Runs(<<>>, h, h)
<1>1. Trace([i \in 1..1 |-> h], <<>>, h, h)
  BY DEF Trace
<1> QED
  BY <1>1 DEF Runs

\* One operation in front.
LEMMA RunsFirst ==
  ASSUME NEW op \in LockOps, NEW c, NEW from \in Held, NEW to,
         Allowed(op, from), Runs(c, After(op, from), to)
  PROVE  Runs(<<op>> \o c, from, to)
<1>1. PICK h : Trace(h, c, After(op, from), to)
  BY DEF Runs
<1>2. c \in Seq(LockOps) /\ Len(c) \in Nat
  BY DEF Runs
<1> DEFINE d == <<op>> \o c
           g == [i \in 1..(Len(d) + 1) |-> IF i = 1 THEN from ELSE h[i - 1]]
<1>3. d \in Seq(LockOps) /\ Len(d) = Len(c) + 1 /\ d[1] = op
      /\ \A i \in 2..Len(d) : d[i] = c[i - 1]
  BY <1>2
<1> HIDE DEF d
<1>4. g \in [1..(Len(d) + 1) -> Held]
  BY <1>1, <1>2, <1>3 DEF Trace
<1>5. g[1] = from /\ g[Len(d) + 1] = to
  BY <1>1, <1>2, <1>3 DEF Trace
<1>6. ASSUME NEW i \in 1..Len(d) PROVE Allowed(d[i], g[i]) /\ g[i + 1] = After(d[i], g[i])
  <2>1. CASE i = 1
    BY <2>1, <1>1, <1>2, <1>3 DEF Trace
  <2>2. CASE i # 1
    <3>1. i - 1 \in 1..Len(c) /\ d[i] = c[i - 1] /\ i \in 1..(Len(d) + 1) /\ i + 1 \in 1..(Len(d) + 1)
      BY <2>2, <1>2, <1>3
    <3>2. g[i] = h[i - 1] /\ g[i + 1] = h[i]
      BY <2>2, <3>1
    <3>3. Allowed(c[i - 1], h[i - 1]) /\ h[(i - 1) + 1] = After(c[i - 1], h[i - 1])
      BY <1>1, <3>1 DEF Trace
    <3> QED
      BY <3>1, <3>2, <3>3
  <2> QED
    BY <2>1, <2>2
<1>7. Trace(g, d, from, to)
  BY <1>4, <1>5, <1>6 DEF Trace
<1> QED
  BY <1>3, <1>7 DEF Runs, d

\* One piece of code after the other.
LEMMA RunsJoin ==
  ASSUME NEW c, NEW d, NEW from, NEW mid, NEW to,
         Runs(c, from, mid), Runs(d, mid, to)
  PROVE  Runs(c \o d, from, to)
<1>1. PICK h : Trace(h, c, from, mid)
  BY DEF Runs
<1>2. PICK k : Trace(k, d, mid, to)
  BY DEF Runs
<1>3. c \in Seq(LockOps) /\ d \in Seq(LockOps) /\ Len(c) \in Nat /\ Len(d) \in Nat
  BY DEF Runs
<1> DEFINE e == c \o d
           g == [i \in 1..(Len(e) + 1) |-> IF i <= Len(c) THEN h[i] ELSE k[i - Len(c)]]
<1>4. e \in Seq(LockOps) /\ Len(e) = Len(c) + Len(d)
      /\ \A i \in 1..Len(e) : e[i] = IF i <= Len(c) THEN c[i] ELSE d[i - Len(c)]
  BY <1>3
<1> HIDE DEF e
<1>5. g \in [1..(Len(e) + 1) -> Held]
  <2> SUFFICES ASSUME NEW i \in 1..(Len(e) + 1)
               PROVE (IF i <= Len(c) THEN h[i] ELSE k[i - Len(c)]) \in Held
    OBVIOUS
  <2>1. CASE i <= Len(c)
    BY <2>1, <1>1, <1>3 DEF Trace
  <2>2. CASE ~(i <= Len(c))
    <3>1. i - Len(c) \in 1..(Len(d) + 1)
      BY <2>2, <1>3, <1>4
    <3> QED
      BY <2>2, <3>1, <1>2 DEF Trace
  <2> QED
    BY <2>1, <2>2
<1>6. g[1] = from /\ g[Len(e) + 1] = to
  <2>1. g[Len(e) + 1] = k[Len(d) + 1]
    BY <1>3, <1>4
  <2>2. CASE Len(c) = 0
    BY <2>1, <2>2, <1>1, <1>2, <1>3, <1>4 DEF Trace
  <2>3. CASE Len(c) # 0
    BY <2>1, <2>3, <1>1, <1>2, <1>3, <1>4 DEF Trace
  <2> QED
    BY <2>2, <2>3
<1>7. ASSUME NEW i \in 1..Len(e) PROVE Allowed(e[i], g[i]) /\ g[i + 1] = After(e[i], g[i])
  <2>0. i \in 1..(Len(e) + 1) /\ i + 1 \in 1..(Len(e) + 1)
    BY <1>3, <1>4
  <2>1. CASE i < Len(c)
    <3>1. g[i] = h[i] /\ g[i + 1] = h[i + 1] /\ e[i] = c[i] /\ i \in 1..Len(c)
      BY <2>0, <2>1, <1>3, <1>4
    <3> HIDE DEF g
    <3> QED
      BY <3>1, <1>1 DEF Trace
  <2>2. CASE i = Len(c)
    <3>1. g[i] = h[i] /\ g[i + 1] = k[1] /\ e[i] = c[i] /\ i \in 1..Len(c)
      BY <2>0, <2>2, <1>3, <1>4
    <3>2. k[1] = h[i + 1]
      BY <2>2, <1>1, <1>2 DEF Trace
    <3> HIDE DEF g
    <3> QED
      BY <3>1, <3>2, <1>1 DEF Trace
  <2>3. CASE i > Len(c)
    <3>1. i - Len(c) \in 1..Len(d) /\ e[i] = d[i - Len(c)] /\ g[i] = k[i - Len(c)]
      BY <2>0, <2>3, <1>3, <1>4
    <3>2. g[i + 1] = k[(i - Len(c)) + 1]
      BY <2>0, <2>3, <1>3, <1>4
    <3> HIDE DEF g
    <3> QED
      BY <3>1, <3>2, <1>2 DEF Trace
  <2> QED
    BY <2>1, <2>2, <2>3, <1>3
<1>8. Trace(g, e, from, to)
  BY <1>5, <1>6, <1>7 DEF Trace
<1> QED
  BY <1>4, <1>8 DEF Runs, e

\* The first operation of a run is allowed, and the rest runs from what it leaves.
LEMMA RunsRest ==
  ASSUME NEW c, NEW from, NEW to, Runs(c, from, to), c # <<>>
  PROVE  /\ Head(c) \in LockOps /\ from \in Held
         /\ Allowed(Head(c), from) /\ Runs(Tail(c), After(Head(c), from), to)
<1>1. PICK h : Trace(h, c, from, to)
  BY DEF Runs
<1>2. c \in Seq(LockOps) /\ Len(c) \in Nat /\ Len(c) > 0
  BY DEF Runs
<1> DEFINE d == Tail(c)
           g == [i \in 1..(Len(d) + 1) |-> h[i + 1]]
<1>3. d \in Seq(LockOps) /\ Len(d) = Len(c) - 1 /\ \A i \in 1..Len(d) : d[i] = c[i + 1]
  BY <1>2
<1>4. Head(c) = c[1] /\ Head(c) \in LockOps /\ 1 \in 1..Len(c)
  BY <1>2
<1>5. from \in Held /\ Allowed(c[1], from) /\ h[1 + 1] = After(c[1], from)
  BY <1>1, <1>2, <1>4 DEF Trace
<1> HIDE DEF d
<1>6. g \in [1..(Len(d) + 1) -> Held]
  BY <1>1, <1>2, <1>3 DEF Trace
<1>7. g[1] = h[2] /\ g[Len(d) + 1] = to
  BY <1>1, <1>2, <1>3 DEF Trace
<1>8. ASSUME NEW i \in 1..Len(d) PROVE Allowed(d[i], g[i]) /\ g[i + 1] = After(d[i], g[i])
  <2>1. i + 1 \in 1..Len(c) /\ d[i] = c[i + 1] /\ i \in 1..(Len(d) + 1) /\ i + 1 \in 1..(Len(d) + 1)
    BY <1>2, <1>3
  <2>2. g[i] = h[i + 1] /\ g[i + 1] = h[(i + 1) + 1]
    BY <2>1
  <2> QED
    BY <1>1, <2>1, <2>2 DEF Trace
<1>9. Trace(g, d, h[2], to)
  BY <1>6, <1>7, <1>8 DEF Trace
<1> QED
  BY <1>3, <1>4, <1>5, <1>9 DEF Runs, d

\* A thread with nothing left to do holds what it ends with.
LEMMA RunsEnd ==
  ASSUME NEW from, NEW to, Runs(<<>>, from, to)
  PROVE  from = to
  BY DEF Runs, Trace

(***************************************************************************)
(* The calls and the heat pass.                                            *)
(***************************************************************************)
\* Code that a thread may run with these locks, and that gives back what it takes.
Holding(R, W) == [reads |-> R, writes |-> W]
Balanced(c, R, W) == Runs(c, Holding(R, W), Holding(R, W))
Sets(R, W) == R \subseteq Locks!Locks /\ W \subseteq Locks!Locks /\ R \cap W = {}

\* Disjoint sets of locks are something a thread can hold.
LEMMA HoldingHeld ==
  ASSUME NEW R, NEW W, Sets(R, W)
  PROVE  Holding(R, W) \in Held
  BY DEF Sets, Holding, Held

\* No code takes nothing and gives nothing back.
LEMMA BalancedNothing ==
  ASSUME NEW R, NEW W, Sets(R, W)
  PROVE  Balanced(<<>>, R, W)
  BY HoldingHeld, RunsNothing DEF Balanced

\* Two balanced pieces of code in a row are balanced.
LEMMA BalancedJoin ==
  ASSUME NEW c, NEW d, NEW R, NEW W, Balanced(c, R, W), Balanced(d, R, W)
  PROVE  Balanced(c \o d, R, W)
  BY RunsJoin DEF Balanced

\* A guard: it is taken, the body runs, and it is given back.
LEMMA Guarded ==
  ASSUME NEW R, NEW W, Sets(R, W), NEW P, NEW Q, NEW l \in Locks!Locks, NEW body,
         NEW kind \in {"read", "write"},
         Allowed(Locks!Op(kind, l), Holding(R, W)),
         After(Locks!Op(kind, l), Holding(R, W)) = Holding(P, Q),
         After(Locks!Op("free", l), Holding(P, Q)) = Holding(R, W),
         l \in P \cup Q, Sets(P, Q), Balanced(body, P, Q)
  PROVE  Balanced(<<Locks!Op(kind, l)>> \o body \o <<Locks!Op("free", l)>>, R, W)
<1> DEFINE o == Locks!Op(kind, l)
           f == Locks!Op("free", l)
<1>1. o \in LockOps /\ f \in LockOps
  BY DEF LockOps, Locks!Op
<1>2. Allowed(f, Holding(P, Q))
  BY DEF Allowed, Frees, Locks!Op, Holding
<1>3. Holding(R, W) \in Held /\ Holding(P, Q) \in Held
  BY HoldingHeld
<1> HIDE DEF o, f
<1>4. Runs(<<>>, Holding(R, W), Holding(R, W))
  BY <1>3, RunsNothing
<1>5. Runs(<<f>> \o <<>>, Holding(P, Q), Holding(R, W))
  BY <1>1, <1>2, <1>3, <1>4, RunsFirst DEF f
<1>6. <<f>> \o <<>> = <<f>>
  OBVIOUS
<1>7. Runs(body \o <<f>>, Holding(P, Q), Holding(R, W))
  BY <1>5, <1>6, RunsJoin DEF Balanced
<1>8. Runs(<<o>> \o (body \o <<f>>), Holding(R, W), Holding(R, W))
  BY <1>1, <1>3, <1>7, RunsFirst DEF o
<1>9. <<o>> \o (body \o <<f>>) = <<o>> \o body \o <<f>>
  <2>1. body \in Seq(LockOps)
    BY DEF Balanced, Runs
  <2> QED
    BY <2>1, <1>1
<1> QED
  BY <1>8, <1>9 DEF Balanced, o, f

\* A read guard around balanced code is balanced, for a lock the thread does not hold.
LEMMA BalancedReading ==
  ASSUME NEW R, NEW W, Sets(R, W), NEW l \in Locks!Locks \ (R \cup W), NEW body,
         Balanced(body, R \cup {l}, W)
  PROVE  Balanced(Locks!Reading(l, body), R, W)
<1>1. Allowed(Locks!Op("read", l), Holding(R, W))
  BY DEF Allowed, Asks, Locks!Op, Holding
<1>2. After(Locks!Op("read", l), Holding(R, W)) = Holding(R \cup {l}, W)
  BY DEF After, Locks!Op, Holding
<1>3. After(Locks!Op("free", l), Holding(R \cup {l}, W)) = Holding(R, W)
  <2>1. (R \cup {l}) \ {l} = R /\ W \ {l} = W
    OBVIOUS
  <2> QED
    BY <2>1 DEF After, Locks!Op, Holding
<1>4. Sets(R \cup {l}, W) /\ l \in (R \cup {l}) \cup W
  BY DEF Sets
<1> QED
  BY <1>1, <1>2, <1>3, <1>4, Guarded DEF Locks!Reading

\* A write guard around balanced code is balanced, for a lock the thread does not hold
\* where no other lock of the heat pass is written.
LEMMA BalancedWriting ==
  ASSUME NEW R, NEW W, Sets(R, W), NEW l \in Locks!Locks \ (R \cup W), NEW body,
         l \in PassLocks => W = {},
         Balanced(body, R, W \cup {l})
  PROVE  Balanced(Locks!Writing(l, body), R, W)
<1>1. Allowed(Locks!Op("write", l), Holding(R, W))
  BY DEF Allowed, Asks, Locks!Op, Holding
<1>2. After(Locks!Op("write", l), Holding(R, W)) = Holding(R, W \cup {l})
  BY DEF After, Locks!Op, Holding
<1>3. After(Locks!Op("free", l), Holding(R, W \cup {l})) = Holding(R, W)
  <2>1. (W \cup {l}) \ {l} = W /\ R \ {l} = R
    OBVIOUS
  <2> QED
    BY <2>1 DEF After, Locks!Op, Holding
<1>4. Sets(R, W \cup {l}) /\ l \in R \cup (W \cup {l})
  BY DEF Sets
<1> QED
  BY <1>1, <1>2, <1>3, <1>4, Guarded DEF Locks!Writing

\* A guard around nothing: the code looks and lets go.
LEMMA BalancedOnce ==
  ASSUME NEW R, NEW W, Sets(R, W), NEW l \in Locks!Locks \ (R \cup W)
  PROVE  Balanced(Locks!Once(l), R, W)
<1>1. Sets(R \cup {l}, W)
  BY DEF Sets
<1>2. Balanced(<<>>, R \cup {l}, W)
  BY <1>1, BalancedNothing
<1> QED
  BY <1>2, BalancedReading DEF Locks!Once

\* A call of the game, with no lock held.
LEMMA BalancedGame == Balanced(Locks!Game, {}, {})
<1> DEFINE o == Locks!Op("call", Locks!Nobody)
<1>1. o \in LockOps /\ Allowed(o, Nothing) /\ After(o, Nothing) = Nothing
  BY DEF LockOps, Locks!Op, Allowed, Calls, After, Nothing
<1>2. Nothing \in Held
  BY DEF Nothing, Held
<1> HIDE DEF o
<1>3. Runs(<<o>> \o <<>>, Nothing, Nothing)
  BY <1>1, <1>2, RunsNothing, RunsFirst
<1>4. <<o>> \o <<>> = Locks!Game /\ Nothing = Holding({}, {})
  BY DEF Locks!Game, o, Nothing, Holding
<1> QED
  BY <1>3, <1>4 DEF Balanced

\* Locks that are read one inside the other.
LEMMA ReadsTwo ==
  ASSUME NEW R, NEW W, Sets(R, W), NEW l \in Locks!Locks \ (R \cup W),
         NEW m \in Locks!Locks \ (R \cup W), l # m
  PROVE  Balanced(Locks!Reading(l, Locks!Once(m)), R, W)
<1>1. Sets(R \cup {l}, W) /\ m \in Locks!Locks \ ((R \cup {l}) \cup W)
  BY DEF Sets
<1> QED
  BY <1>1, BalancedOnce, BalancedReading

\* Three locks read one inside the other.
LEMMA ReadsThree ==
  ASSUME NEW R, NEW W, Sets(R, W), NEW l \in Locks!Locks \ (R \cup W),
         NEW m \in Locks!Locks \ (R \cup W), NEW n \in Locks!Locks \ (R \cup W),
         l # m, l # n, m # n
  PROVE  Balanced(Locks!Reading(l, Locks!Reading(m, Locks!Once(n))), R, W)
<1>1. Sets(R \cup {l}, W) /\ m \in Locks!Locks \ ((R \cup {l}) \cup W)
      /\ n \in Locks!Locks \ ((R \cup {l}) \cup W)
  BY DEF Sets
<1> QED
  BY <1>1, ReadsTwo, BalancedReading

\* A lock that is written while nothing is held.
LEMMA WritesAlone ==
  ASSUME NEW l \in Locks!Locks
  PROVE  Balanced(Locks!Writing(l, <<>>), {}, {})
<1>1. Sets({}, {}) /\ Sets({}, {} \cup {l})
  BY DEF Sets
<1> QED
  BY <1>1, BalancedNothing, BalancedWriting

\* No call takes a lock that it holds, waits for the readers of a lock of the heat
\* pass while it writes another, or runs a proc of the game with a lock in its hand.
LEMMA CallsBalanced ==
  ASSUME NEW call \in Locks!GameCalls
  PROVE  Balanced(call, {}, {})
<1>0. Sets({}, {}) /\ Sets({}, {"ids"}) /\ Sets({}, {"planets"}) /\ Sets({}, {"gases"})
      /\ {} \cup {"ids"} = {"ids"} /\ {} \cup {"planets"} = {"planets"} /\ {} \cup {"gases"} = {"gases"}
  BY DEF Sets, Locks!Locks
<1>1. Balanced(Locks!GasSlotForMix, {}, {})
  BY <1>0, BalancedOnce DEF Locks!GasSlotForMix, Locks!Locks
<1>2. Balanced(Locks!WithMix, {}, {})
  BY <1>0, <1>1, ReadsTwo, BalancedJoin DEF Locks!WithMix, Locks!Locks
<1>3. Balanced(Locks!ReusableSlot, {}, {})
  <2>1. Balanced(Locks!Once("turfs"), {}, {"ids"})
    BY <1>0, BalancedOnce DEF Locks!Locks
  <2>2. Balanced(Locks!Writing("ids", Locks!Once("turfs")), {}, {})
    BY <1>0, <2>1, BalancedWriting DEF Locks!Locks, PassLocks
  <2>3. Balanced(Locks!Once("gases"), {}, {})
    BY <1>0, BalancedOnce DEF Locks!Locks
  <2> QED
    BY <2>2, <2>3, BalancedJoin DEF Locks!ReusableSlot
<1>4. Balanced(Locks!RegisterMixReuse, {}, {})
  BY <1>0, <1>3, BalancedOnce, BalancedJoin DEF Locks!RegisterMixReuse, Locks!Locks
<1>5. Balanced(Locks!RegisterMixGrow, {}, {})
  <2>1. Sets({}, {"gases", "ids"}) /\ {"gases"} \cup {"ids"} = {"gases", "ids"}
    BY DEF Sets, Locks!Locks
  <2>2. Balanced(Locks!Writing("ids", <<>>), {}, {"gases"})
    BY <1>0, <2>1, BalancedNothing, BalancedWriting DEF Locks!Locks, PassLocks
  <2>3. Balanced(Locks!Writing("gases", Locks!Writing("ids", <<>>)), {}, {})
    BY <1>0, <2>2, BalancedWriting DEF Locks!Locks
  <2> QED
    BY <1>3, <2>3, BalancedJoin DEF Locks!RegisterMixGrow
<1>6. Balanced(Locks!UnregisterMix, {}, {})
  BY <1>1, WritesAlone, BalancedJoin DEF Locks!UnregisterMix, Locks!Locks
<1>7. Balanced(Locks!SupercondUpdateRef, {}, {})
  BY BalancedGame, WritesAlone, BalancedJoin DEF Locks!SupercondUpdateRef, Locks!Locks
<1>8. Balanced(Locks!PlanetaryAtmos, {}, {})
  <2>1. Balanced(Locks!Once("gases"), {}, {"planets"})
    BY <1>0, BalancedOnce DEF Locks!Locks
  <2> QED
    BY <1>0, <2>1, BalancedWriting DEF Locks!PlanetaryAtmos, Locks!Locks, PassLocks
<1>9. Balanced(Locks!Writing("turfs", <<>>), {}, {}) /\ Balanced(Locks!Writing("heat", <<>>), {}, {})
      /\ Balanced(Locks!Once("gases"), {}, {}) /\ Balanced(Locks!Once("turfs"), {}, {})
      /\ Balanced(Locks!Reading("turfs", Locks!Once("gases")), {}, {})
  BY <1>0, WritesAlone, BalancedOnce, ReadsTwo DEF Locks!Locks
<1>10. Balanced(Locks!RegisterTurf, {}, {})
  BY <1>1, <1>7, <1>8, <1>9, BalancedJoin DEF Locks!RegisterTurf
<1>11. Balanced(Locks!RegisterSpace, {}, {})
  BY <1>1, <1>9, BalancedJoin DEF Locks!RegisterSpace
<1>12. Balanced(Locks!RegisterClosed, {}, {})
  BY <1>7, <1>9, BalancedJoin DEF Locks!RegisterClosed
<1>13. Balanced(Locks!RemoveTurf, {}, {}) /\ Balanced(Locks!UpdateAdjacency, {}, {})
  BY <1>9, BalancedJoin DEF Locks!RemoveTurf, Locks!UpdateAdjacency
<1>14. Balanced(Locks!TurfTemperature, {}, {})
  BY <1>0, BalancedOnce DEF Locks!TurfTemperature, Locks!Locks
<1>15. /\ Balanced(Locks!Fdm, {}, {}) /\ Balanced(Locks!PostProcess, {}, {})
       /\ Balanced(Locks!ExcitedGroups, {}, {}) /\ Balanced(Locks!Equalize, {}, {})
  BY <1>0, ReadsThree DEF Locks!Fdm, Locks!PostProcess, Locks!ExcitedGroups, Locks!Equalize, Locks!Locks
<1>16. Balanced(Locks!PlanetProcess, {}, {})
  <2>1. Sets({"turfs"}, {}) /\ {} \cup {"turfs"} = {"turfs"}
    BY DEF Sets, Locks!Locks
  <2>2. Balanced(Locks!Reading("gases", Locks!Reading("planets", Locks!Once("specific"))), {"turfs"}, {})
    BY <2>1, ReadsThree DEF Locks!Locks
  <2> QED
    BY <1>0, <2>1, <2>2, BalancedReading DEF Locks!PlanetProcess, Locks!Locks
<1>17. Balanced(Locks!ProcessTurf, {}, {})
  BY <1>15, <1>16, BalancedJoin DEF Locks!ProcessTurf
<1>18. Balanced(Locks!ExplosivelyDepressurize, {}, {}) /\ Balanced(Locks!PlanetEqualize, {}, {})
  BY <1>9, BalancedGame, BalancedJoin DEF Locks!ExplosivelyDepressurize, Locks!PlanetEqualize
<1>19. Balanced(Locks!React, {}, {}) /\ Balanced(Locks!UpdateVisuals, {}, {})
  <2>1. Balanced(Locks!Reading("gases", Locks!Once("reactions")), {}, {})
    BY <1>0, ReadsTwo DEF Locks!Locks
  <2> QED
    BY <2>1, <1>1, <1>9, BalancedGame, BalancedJoin DEF Locks!React, Locks!UpdateVisuals
<1>20. Balanced(Locks!UpdateReactions, {}, {}) /\ Balanced(Locks!RegisterGas, {}, {})
  BY WritesAlone DEF Locks!UpdateReactions, Locks!RegisterGas, Locks!Locks
<1> QED
  BY <1>2, <1>4, <1>5, <1>6, <1>10, <1>11, <1>12, <1>13, <1>14, <1>15, <1>17, <1>18,
     <1>19, <1>20 DEF Locks!GameCalls

\* Nor does the heat pass, which only reads.
LEMMA PassBalanced == Balanced(Locks!HeatPass, {}, {}) /\ Locks!HeatPass \in Seq(PassOps)
<1>1. Balanced(Locks!HeatPass, {}, {})
  <2>1. /\ Sets({}, {}) /\ Sets({"tasks"}, {}) /\ Sets({"tasks", "heat"}, {})
        /\ {} \cup {"tasks"} = {"tasks"} /\ {"tasks"} \cup {"heat"} = {"tasks", "heat"}
    BY DEF Sets, Locks!Locks
  <2>2. Balanced(Locks!Reading("turfs", Locks!Reading("gases", Locks!Once("specific"))),
                 {"tasks", "heat"}, {})
    BY <2>1, ReadsThree DEF Locks!Locks
  <2>3. Balanced(Locks!Reading("heat", Locks!Reading("turfs", Locks!Reading("gases", Locks!Once("specific")))),
                 {"tasks"}, {})
    BY <2>1, <2>2, BalancedReading DEF Locks!Locks
  <2> QED
    BY <2>1, <2>3, BalancedReading DEF Locks!HeatPass, Locks!Locks
<1>2. ASSUME NEW l \in PassLocks, NEW body \in Seq(PassOps)
      PROVE  Locks!Reading(l, body) \in Seq(PassOps)
  <2>1. Locks!Op("read", l) \in PassOps /\ Locks!Op("free", l) \in PassOps
    BY DEF PassOps, Locks!Op
  <2> QED
    BY <2>1 DEF Locks!Reading
<1>3. <<>> \in Seq(PassOps) /\ {"tasks", "heat", "turfs", "gases", "specific"} \subseteq PassLocks
  BY DEF PassLocks
<1>4. Locks!HeatPass \in Seq(PassOps)
  BY <1>2, <1>3 DEF Locks!HeatPass, Locks!Once
<1> QED
  BY <1>1, <1>4

(***************************************************************************)
(* Locks and threads.                                                      *)
(***************************************************************************)
HeldBy(t, r, w) ==
  [reads |-> {l \in Locks!Locks : r[l][t] = 1},
   writes |-> {l \in Locks!Locks : w[l] = t}]

\* What each thread has left to do it may do with what it holds; the heat pass only
\* reads, and only its own locks.
LocksTypes ==
  /\ code \in [Locks!Threads -> Seq(LockOps)]
  /\ readers \in [Locks!Locks -> [Locks!Threads -> {0, 1}]]
  /\ writer \in [Locks!Locks -> {Locks!Nobody, "game"}]
PassReads ==
  /\ code["heat_thread"] \in Seq(PassOps)
  /\ \A l \in Locks!Locks : readers[l]["heat_thread"] = 1 => l \in PassLocks
LocksInv ==
  /\ LocksTypes /\ PassReads
  /\ \A t \in Locks!Threads : Runs(code[t], HeldBy(t, readers, writer), Nothing)

\* At the start nothing is held and nobody has anything to do.
LEMMA LocksInitial == Locks!Init => LocksInv
<1> SUFFICES ASSUME Locks!Init PROVE LocksInv
  OBVIOUS
<1>1. LocksTypes /\ PassReads
  <2>1. <<>> \in Seq(LockOps) /\ <<>> \in Seq(PassOps) /\ "heat_thread" \in Locks!Threads
    BY DEF Locks!Threads
  <2>2. code \in [Locks!Threads -> Seq(LockOps)] /\ code["heat_thread"] \in Seq(PassOps)
    BY <2>1 DEF Locks!Init
  <2>3. \A l \in Locks!Locks : readers[l]["heat_thread"] # 1
    <3>1. ASSUME NEW t \in Locks!Threads, NEW l \in Locks!Locks PROVE readers[l][t] # 1
      <4>1. readers[l][t] = 0
        BY DEF Locks!Init
      <4> QED
        BY <4>1
    <3> QED
      BY <2>1, <3>1
  <2>4. readers \in [Locks!Locks -> [Locks!Threads -> {0, 1}]]
        /\ writer \in [Locks!Locks -> {Locks!Nobody, "game"}]
    BY DEF Locks!Init
  <2> QED
    BY <2>2, <2>3, <2>4 DEF LocksTypes, PassReads
<1>2. ASSUME NEW t \in Locks!Threads PROVE Runs(code[t], HeldBy(t, readers, writer), Nothing)
  <2>1. code[t] = <<>>
    BY DEF Locks!Init
  <2>3. \A l \in Locks!Locks : readers[l][t] # 1 /\ writer[l] # t
    <3>1. \A l \in Locks!Locks : readers[l][t] = 0
      BY DEF Locks!Init
    <3>2. \A l \in Locks!Locks : writer[l] # t
      BY DEF Locks!Init, Locks!Threads, Locks!Nobody
    <3> QED
      BY <3>1, <3>2
  <2>4. HeldBy(t, readers, writer) = Nothing
    <3>1. {l \in Locks!Locks : readers[l][t] = 1} = {} /\ {l \in Locks!Locks : writer[l] = t} = {}
      BY <2>3
    <3> QED
      BY <3>1 DEF HeldBy, Nothing
  <2>2. Nothing \in Held
    BY DEF Nothing, Held
  <2> QED
    BY <2>1, <2>2, <2>4, RunsNothing
<1> QED
  BY <1>1, <1>2 DEF LocksInv

\* What is left of a piece of code after its first operation is code.
LEMMA RestOfSeq ==
  ASSUME NEW S, NEW q \in Seq(S), q # <<>>
  PROVE  Head(q) \in S /\ Tail(q) \in Seq(S)
  OBVIOUS

\* An operation of one thread is the first that its code allows, and no other thread's
\* locks change.
LEMMA HeadRuns ==
  ASSUME LocksInv, NEW t \in Locks!Threads, code[t] # <<>>
  PROVE  /\ Head(code[t]) \in LockOps /\ HeldBy(t, readers, writer) \in Held
         /\ Allowed(Head(code[t]), HeldBy(t, readers, writer))
         /\ Runs(Tail(code[t]), After(Head(code[t]), HeldBy(t, readers, writer)), Nothing)
         /\ Tail(code[t]) \in Seq(LockOps)
         /\ t = "heat_thread" => Head(code[t]) \in PassOps /\ Tail(code[t]) \in Seq(PassOps)
<1>1. Runs(code[t], HeldBy(t, readers, writer), Nothing)
  BY DEF LocksInv
<1>2. code[t] \in Seq(LockOps)
  BY DEF LocksInv, LocksTypes
<1>3. Tail(code[t]) \in Seq(LockOps)
  BY <1>2
<1>4. t = "heat_thread" => Head(code[t]) \in PassOps /\ Tail(code[t]) \in Seq(PassOps)
  <2> SUFFICES ASSUME t = "heat_thread" PROVE Head(code[t]) \in PassOps /\ Tail(code[t]) \in Seq(PassOps)
    OBVIOUS
  <2>1. code[t] \in Seq(PassOps)
    BY DEF LocksInv, PassReads
  <2> HIDE DEF PassOps
  <2> QED
    BY <2>1, RestOfSeq
<1> QED
  BY <1>1, <1>3, <1>4, RunsRest

\* A step that leaves what the threads hold in keeping with their code keeps the
\* invariant.
LEMMA StepKeeps ==
  ASSUME LocksInv, NEW t \in Locks!Threads, LocksTypes', PassReads',
         Runs(code'[t], HeldBy(t, readers', writer'), Nothing),
         \A u \in Locks!Threads \ {t} : code'[u] = code[u] /\ HeldBy(u, readers', writer') = HeldBy(u, readers, writer)
  PROVE  LocksInv'
<1>1. ASSUME NEW u \in Locks!Threads PROVE Runs(code'[u], HeldBy(u, readers', writer'), Nothing)
  BY DEF LocksInv
<1>2. LocksTypes' /\ PassReads' /\ \A u \in Locks!Threads : Runs(code'[u], HeldBy(u, readers', writer'), Nothing)
  BY <1>1
<1> QED
  BY <1>2 DEF LocksInv

\* Taking a read lock keeps the invariant.
LEMMA ReadKeeps ==
  ASSUME LocksInv, NEW t \in Locks!Threads, Locks!Read(t)
  PROVE  LocksInv'
<1> DEFINE o == Head(code[t])
           l == o.lock
<1>1. code[t] # <<>> /\ o.kind = "read" /\ writer[l] = Locks!Nobody
      /\ readers' = [readers EXCEPT ![l][t] = @ + 1]
      /\ code' = [code EXCEPT ![t] = Tail(@)] /\ writer' = writer
  BY DEF Locks!Read, Locks!At, Locks!Lock, Locks!Done
<1>2. /\ o \in LockOps /\ HeldBy(t, readers, writer) \in Held /\ Allowed(o, HeldBy(t, readers, writer))
      /\ Runs(Tail(code[t]), After(o, HeldBy(t, readers, writer)), Nothing)
      /\ Tail(code[t]) \in Seq(LockOps)
      /\ t = "heat_thread" => o \in PassOps /\ Tail(code[t]) \in Seq(PassOps)
  BY <1>1, HeadRuns
<1>3. l \in Locks!Locks /\ readers[l][t] = 0 /\ writer[l] # t
  <2>1. Asks(o, HeldBy(t, readers, writer))
    BY <1>1, <1>2 DEF Allowed, Drains, Frees, Calls
  <2>2. l \in Locks!Locks /\ readers[l][t] # 1 /\ writer[l] # t
    BY <2>1 DEF Asks, HeldBy
  <2> QED
    BY <2>2 DEF LocksInv, LocksTypes
<1>4. LocksTypes /\ PassReads
  BY DEF LocksInv
<1>11. o.lock = l /\ o.kind = "read"
  BY <1>1
<1> HIDE DEF l, o
<1>5. /\ readers' \in [Locks!Locks -> [Locks!Threads -> {0, 1}]]
      /\ readers'[l][t] = 1
      /\ \A k \in Locks!Locks : \A u \in Locks!Threads :
           k # l \/ u # t => readers'[k][u] = readers[k][u]
  BY <1>1, <1>3, <1>4 DEF LocksTypes
<1>6. /\ code' \in [Locks!Threads -> Seq(LockOps)] /\ code'[t] = Tail(code[t])
      /\ \A u \in Locks!Threads \ {t} : code'[u] = code[u]
  BY <1>1, <1>2, <1>4 DEF LocksTypes
<1>7. HeldBy(t, readers', writer') = After(o, HeldBy(t, readers, writer))
  <2>1. {k \in Locks!Locks : readers'[k][t] = 1} = {k \in Locks!Locks : readers[k][t] = 1} \cup {l}
    BY <1>3, <1>5
  <2> QED
    BY <1>1, <1>11, <2>1 DEF HeldBy, After
<1>8. \A u \in Locks!Threads \ {t} : HeldBy(u, readers', writer') = HeldBy(u, readers, writer)
  BY <1>1, <1>5 DEF HeldBy
<1>9. LocksTypes'
  BY <1>1, <1>4, <1>5, <1>6 DEF LocksTypes
<1>10. PassReads'
  BY <1>1, <1>2, <1>4, <1>5, <1>6 DEF PassReads, PassOps, l, Locks!Threads
<1> QED
  BY <1>2, <1>6, <1>7, <1>8, <1>9, <1>10, StepKeeps

\* Setting the writer's bit keeps the invariant.
LEMMA WriteKeeps ==
  ASSUME LocksInv, NEW t \in Locks!Threads, Locks!Write(t)
  PROVE  LocksInv'
<1> DEFINE o == Head(code[t])
           l == o.lock
           d == Locks!Op("drain", l)
<1>1. code[t] # <<>> /\ o.kind = "write" /\ writer[l] = Locks!Nobody
      /\ writer' = [writer EXCEPT ![l] = t]
      /\ code' = [code EXCEPT ![t] = <<d>> \o Tail(@)] /\ readers' = readers
  BY DEF Locks!Write, Locks!At, Locks!Lock
<1>2. /\ o \in LockOps /\ HeldBy(t, readers, writer) \in Held
      /\ Allowed(o, HeldBy(t, readers, writer))
      /\ Runs(Tail(code[t]), After(o, HeldBy(t, readers, writer)), Nothing)
      /\ Tail(code[t]) \in Seq(LockOps)
  BY <1>1, HeadRuns
<1>12. t = "game"
  <2> SUFFICES ASSUME t = "heat_thread" PROVE FALSE
    BY DEF Locks!Threads
  <2>1. o \in PassOps
    BY <1>1, HeadRuns
  <2> QED
    BY <1>1, <2>1 DEF PassOps
<1>13. Asks(o, HeldBy(t, readers, writer))
  BY <1>1, <1>2 DEF Allowed, Drains, Frees, Calls
<1>3. l \in Locks!Locks
  BY <1>13 DEF Asks
<1>14. Allowed(d, After(o, HeldBy(t, readers, writer)))
       /\ After(d, After(o, HeldBy(t, readers, writer))) = After(o, HeldBy(t, readers, writer))
       /\ d \in LockOps
  <2>1. l \in PassLocks => HeldBy(t, readers, writer).writes = {}
    BY <1>1, <1>13 DEF Asks
  <2> QED
    BY <1>1, <1>3, <2>1 DEF Allowed, Drains, After, Locks!Op, LockOps
<1>11. o.lock = l /\ o.kind = "write"
  BY <1>1
<1> HIDE DEF l, o, d
<1>4. LocksTypes /\ PassReads
  BY DEF LocksInv
<1>5. writer' \in [Locks!Locks -> {Locks!Nobody, "game"}] /\ writer'[l] = t
      /\ \A k \in Locks!Locks \ {l} : writer'[k] = writer[k]
  BY <1>1, <1>3, <1>4, <1>12 DEF LocksTypes
<1>6. /\ code' \in [Locks!Threads -> Seq(LockOps)] /\ code'[t] = <<d>> \o Tail(code[t])
      /\ \A u \in Locks!Threads \ {t} : code'[u] = code[u]
  BY <1>1, <1>2, <1>4, <1>14 DEF LocksTypes
<1>7. HeldBy(t, readers', writer') = After(o, HeldBy(t, readers, writer))
  <2>1. {k \in Locks!Locks : writer'[k] = t} = {k \in Locks!Locks : writer[k] = t} \cup {l}
    BY <1>3, <1>5
  <2> QED
    BY <1>1, <1>11, <2>1 DEF HeldBy, After
<1>15. After(o, HeldBy(t, readers, writer)) \in Held
  BY <1>2, AfterHeld
<1>16. Runs(code'[t], HeldBy(t, readers', writer'), Nothing)
  BY <1>2, <1>6, <1>7, <1>14, <1>15, RunsFirst
<1>8. \A u \in Locks!Threads \ {t} : HeldBy(u, readers', writer') = HeldBy(u, readers, writer)
  <2> SUFFICES ASSUME NEW u \in Locks!Threads \ {t}
               PROVE  {k \in Locks!Locks : writer'[k] = u} = {k \in Locks!Locks : writer[k] = u}
    BY <1>1 DEF HeldBy
  <2>1. writer[l] # u
    BY <1>1, <1>12 DEF Locks!Threads, Locks!Nobody, l
  <2> QED
    BY <1>5, <2>1
<1>9. LocksTypes'
  BY <1>1, <1>4, <1>5, <1>6 DEF LocksTypes
<1>10. PassReads'
  BY <1>1, <1>4, <1>6, <1>12 DEF PassReads, Locks!Threads
<1> QED
  BY <1>6, <1>8, <1>9, <1>10, <1>16, StepKeeps

\* Waiting for the last reader, with the writer's bit set, keeps the invariant.
LEMMA DrainKeeps ==
  ASSUME LocksInv, NEW t \in Locks!Threads, Locks!Drain(t)
  PROVE  LocksInv'
<1> DEFINE o == Head(code[t])
<1>1. code[t] # <<>> /\ o.kind = "drain"
      /\ code' = [code EXCEPT ![t] = Tail(@)] /\ readers' = readers /\ writer' = writer
  BY DEF Locks!Drain, Locks!At, Locks!Lock, Locks!Done
<1>2. /\ HeldBy(t, readers, writer) \in Held
      /\ Runs(Tail(code[t]), After(o, HeldBy(t, readers, writer)), Nothing)
      /\ Tail(code[t]) \in Seq(LockOps)
      /\ t = "heat_thread" => Tail(code[t]) \in Seq(PassOps)
  BY <1>1, HeadRuns
<1>3. After(o, HeldBy(t, readers, writer)) = HeldBy(t, readers, writer)
  BY <1>1 DEF After, HeldBy
<1> HIDE DEF o
<1>4. LocksTypes /\ PassReads
  BY DEF LocksInv
<1>6. /\ code' \in [Locks!Threads -> Seq(LockOps)] /\ code'[t] = Tail(code[t])
      /\ \A u \in Locks!Threads \ {t} : code'[u] = code[u]
  BY <1>1, <1>2, <1>4 DEF LocksTypes
<1>9. LocksTypes'
  BY <1>1, <1>4, <1>6 DEF LocksTypes
<1>10. PassReads'
  BY <1>1, <1>2, <1>4, <1>6 DEF PassReads, Locks!Threads
<1>11. Runs(code'[t], HeldBy(t, readers', writer'), Nothing)
       /\ \A u \in Locks!Threads \ {t} : HeldBy(u, readers', writer') = HeldBy(u, readers, writer)
  BY <1>1, <1>2, <1>3, <1>6
<1> QED
  BY <1>6, <1>9, <1>10, <1>11, StepKeeps

\* Dropping a guard keeps the invariant.
LEMMA FreeKeeps ==
  ASSUME LocksInv, NEW t \in Locks!Threads, Locks!Free(t)
  PROVE  LocksInv'
<1> DEFINE o == Head(code[t])
           l == o.lock
           h == HeldBy(t, readers, writer)
<1>1. code[t] # <<>> /\ o.kind = "free"
      /\ IF writer[l] = t
           THEN writer' = [writer EXCEPT ![l] = Locks!Nobody] /\ readers' = readers
           ELSE readers' = [readers EXCEPT ![l][t] = @ - 1] /\ writer' = writer
      /\ code' = [code EXCEPT ![t] = Tail(@)]
  BY DEF Locks!Free, Locks!At, Locks!Lock, Locks!Done
<1>14. code' = [code EXCEPT ![t] = Tail(code[t])]
  BY DEF Locks!Free, Locks!Done
<1>2. /\ h \in Held /\ Allowed(o, h)
      /\ Runs(Tail(code[t]), After(o, h), Nothing)
      /\ Tail(code[t]) \in Seq(LockOps)
      /\ t = "heat_thread" => Tail(code[t]) \in Seq(PassOps)
  BY <1>1, HeadRuns
<1>3. l \in h.reads \cup h.writes
  BY <1>1, <1>2 DEF Allowed, Asks, Drains, Frees, Calls
<1>4. LocksTypes /\ PassReads
  BY DEF LocksInv
<1>5. l \in Locks!Locks /\ (readers[l][t] = 1 <=> writer[l] # t)
  <2>1. h.reads = {k \in Locks!Locks : readers[k][t] = 1}
        /\ h.writes = {k \in Locks!Locks : writer[k] = t}
    BY DEF HeldBy
  <2>2. h.reads \cap h.writes = {}
    BY <1>2 DEF Held
  <2> HIDE DEF h, l
  <2> QED
    BY <1>3, <2>1, <2>2
<1>11. o.lock = l /\ o.kind = "free"
  BY <1>1
<1> HIDE DEF l, o
<1>6. /\ code' \in [Locks!Threads -> Seq(LockOps)] /\ code'[t] = Tail(code[t])
      /\ \A u \in Locks!Threads \ {t} : code'[u] = code[u]
  BY <1>2, <1>4, <1>14 DEF LocksTypes
<1>7. /\ readers' \in [Locks!Locks -> [Locks!Threads -> {0, 1}]]
      /\ writer' \in [Locks!Locks -> {Locks!Nobody, "game"}]
      /\ readers'[l][t] = 0 /\ writer'[l] # t
      /\ \A k \in Locks!Locks : \A u \in Locks!Threads :
           /\ k # l \/ u # t => readers'[k][u] = readers[k][u]
           /\ k # l \/ u # t => (writer'[k] = u <=> writer[k] = u)
  <2>1. CASE writer[l] = t
    <3>1. readers[l][t] = 0
      BY <1>4, <1>5, <2>1 DEF LocksTypes
    <3>2. t # Locks!Nobody
      BY DEF Locks!Threads, Locks!Nobody
    <3>3. \A u \in Locks!Threads : u # Locks!Nobody
      BY DEF Locks!Threads, Locks!Nobody
    <3>4. readers' = readers /\ writer' = [writer EXCEPT ![l] = Locks!Nobody]
      BY <1>1, <2>1
    <3>5. readers' \in [Locks!Locks -> [Locks!Threads -> {0, 1}]]
          /\ writer' \in [Locks!Locks -> {Locks!Nobody, "game"}]
          /\ writer'[l] = Locks!Nobody /\ \A k \in Locks!Locks \ {l} : writer'[k] = writer[k]
      BY <1>4, <1>5, <3>4 DEF LocksTypes
    <3> QED
      BY <1>5, <2>1, <3>1, <3>2, <3>3, <3>4, <3>5
  <2>2. CASE writer[l] # t
    <3>1. readers' = [readers EXCEPT ![l][t] = @ - 1] /\ writer' = writer /\ readers[l][t] = 1
      BY <1>1, <1>5, <2>2
    <3>2. /\ readers' \in [Locks!Locks -> [Locks!Threads -> {0, 1}]] /\ readers'[l][t] = 0
          /\ \A k \in Locks!Locks : \A u \in Locks!Threads :
               k # l \/ u # t => readers'[k][u] = readers[k][u]
      BY <1>4, <1>5, <3>1 DEF LocksTypes
    <3> QED
      BY <1>4, <2>2, <3>1, <3>2 DEF LocksTypes
  <2> QED
    BY <2>1, <2>2
<1>8. HeldBy(t, readers', writer') = After(o, h)
  <2>1. {k \in Locks!Locks : readers'[k][t] = 1} = {k \in Locks!Locks : readers[k][t] = 1} \ {l}
    <3>1. readers'[l][t] # 1
      BY <1>7
    <3> QED
      BY <1>5, <1>7, <3>1
  <2>2. {k \in Locks!Locks : writer'[k] = t} = {k \in Locks!Locks : writer[k] = t} \ {l}
    BY <1>5, <1>7
  <2> QED
    BY <1>11, <2>1, <2>2 DEF HeldBy, After
<1>9. \A u \in Locks!Threads \ {t} : HeldBy(u, readers', writer') = HeldBy(u, readers, writer)
  <2> SUFFICES ASSUME NEW u \in Locks!Threads \ {t}
               PROVE  /\ {k \in Locks!Locks : readers'[k][u] = 1} = {k \in Locks!Locks : readers[k][u] = 1}
                      /\ {k \in Locks!Locks : writer'[k] = u} = {k \in Locks!Locks : writer[k] = u}
    BY DEF HeldBy
  <2> QED
    BY <1>7
<1>10. LocksTypes'
  BY <1>6, <1>7 DEF LocksTypes
<1>12. PassReads'
  <2>1. code'["heat_thread"] \in Seq(PassOps)
    BY <1>2, <1>4, <1>6 DEF PassReads, Locks!Threads
  <2>2. ASSUME NEW k \in Locks!Locks, readers'[k]["heat_thread"] = 1 PROVE k \in PassLocks
    <3>0. "heat_thread" \in Locks!Threads
      BY DEF Locks!Threads
    <3>1. readers[k]["heat_thread"] = 1
      <4>1. CASE k = l /\ t = "heat_thread"
        <5>1. readers'[k]["heat_thread"] = 0
          BY <1>7, <4>1
        <5> QED
          BY <2>2, <5>1
      <4>2. CASE k # l \/ t # "heat_thread"
        BY <1>7, <2>2, <3>0, <4>2
      <4> QED
        BY <4>1, <4>2
    <3> QED
      BY <1>4, <3>1 DEF PassReads
  <2> QED
    BY <2>1, <2>2 DEF PassReads
<1> HIDE DEF h
<1>13. Runs(code'[t], HeldBy(t, readers', writer'), Nothing)
  BY <1>2, <1>6, <1>8
<1> QED
  BY <1>6, <1>9, <1>10, <1>12, <1>13, StepKeeps

\* A call of the game, a call nested in it and a heat pass keep the invariant when they
\* begin.
LEMMA BeginKeeps ==
  ASSUME LocksInv, NEW t \in Locks!Threads, NEW c, NEW rest, Balanced(c, {}, {}),
         Runs(rest, Nothing, Nothing), HeldBy(t, readers, writer) = Nothing,
         t = "heat_thread" => c \o rest \in Seq(PassOps),
         code' = [code EXCEPT ![t] = c \o rest], readers' = readers, writer' = writer
  PROVE  LocksInv'
<1>1. LocksTypes /\ PassReads
  BY DEF LocksInv
<1>2. c \o rest \in Seq(LockOps) /\ Runs(c \o rest, Nothing, Nothing)
  <2>1. Runs(c, Nothing, Nothing)
    BY DEF Balanced, Holding, Nothing
  <2> QED
    BY <2>1, RunsJoin DEF Runs
<1> DEFINE d == c \o rest
<1>3. /\ d \in Seq(LockOps) /\ Runs(d, Nothing, Nothing)
      /\ t = "heat_thread" => d \in Seq(PassOps)
  BY <1>2
<1>4. code' = [code EXCEPT ![t] = d]
  OBVIOUS
<1>9. d \in Seq(LockOps) /\ code \in [Locks!Threads -> Seq(LockOps)]
  BY <1>1, <1>3 DEF LocksTypes
<1> HIDE DEF d
<1>5. /\ code' \in [Locks!Threads -> Seq(LockOps)] /\ code'[t] = d
      /\ \A u \in Locks!Threads \ {t} : code'[u] = code[u]
  <2> HIDE DEF LockOps
  <2> QED
    BY <1>4, <1>9
<1>6. LocksTypes'
  BY <1>1, <1>5 DEF LocksTypes
<1>7. PassReads'
  BY <1>1, <1>2, <1>3, <1>5 DEF PassReads, Locks!Threads
<1>8. Runs(code'[t], HeldBy(t, readers', writer'), Nothing)
      /\ \A u \in Locks!Threads \ {t} : HeldBy(u, readers', writer') = HeldBy(u, readers, writer)
  BY <1>3, <1>5, <1>9
<1> QED
  BY <1>5, <1>6, <1>7, <1>8, StepKeeps

\* Every step of the locks keeps the invariant.
LEMMA LocksKept == LocksInv /\ [Locks!Next]_(Locks!vars) => LocksInv'
<1> SUFFICES ASSUME LocksInv, [Locks!Next]_(Locks!vars) PROVE LocksInv'
  OBVIOUS
<1>0. "game" \in Locks!Threads /\ "heat_thread" \in Locks!Threads
  BY DEF Locks!Threads
<1>1. ASSUME NEW t \in Locks!Threads, Locks!LockStep(t) PROVE LocksInv'
  BY <1>1, ReadKeeps, WriteKeeps, DrainKeeps, FreeKeeps DEF Locks!LockStep
<1>2. ASSUME code["game"] # <<>>, Head(code["game"]).kind = "call"
      PROVE  /\ HeldBy("game", readers, writer) = Nothing
             /\ Runs(Tail(code["game"]), Nothing, Nothing)
  <2>1. /\ Allowed(Head(code["game"]), HeldBy("game", readers, writer))
        /\ Runs(Tail(code["game"]), After(Head(code["game"]), HeldBy("game", readers, writer)), Nothing)
    BY <1>0, <1>2, HeadRuns
  <2>2. HeldBy("game", readers, writer) = Nothing
    BY <1>2, <2>1 DEF Allowed, Asks, Drains, Frees, Calls
  <2>3. After(Head(code["game"]), Nothing) = Nothing
    BY <1>2 DEF After, Nothing
  <2> QED
    BY <2>1, <2>2, <2>3
<1>3. ASSUME Locks!GameReturns("game") PROVE LocksInv'
  <2>1. /\ HeldBy("game", readers, writer) = Nothing
        /\ Runs(Tail(code["game"]), Nothing, Nothing)
    BY <1>2, <1>3 DEF Locks!GameReturns, Locks!At
  <2>2. <<>> \o Tail(code["game"]) = Tail(code["game"])
    BY <2>1 DEF Runs
  <2>3. Balanced(<<>>, {}, {})
    BY BalancedNothing DEF Sets
  <2>4. code' = [code EXCEPT !["game"] = <<>> \o Tail(code["game"])] /\ readers' = readers /\ writer' = writer
    BY <1>3, <2>2 DEF Locks!GameReturns, Locks!Done
  <2> QED
    BY <1>0, <2>1, <2>3, <2>4, BeginKeeps
<1>4. ASSUME NEW call \in Locks!GameCalls, Locks!GameCallsAgain("game", call) PROVE LocksInv'
  <2>1. /\ HeldBy("game", readers, writer) = Nothing
        /\ Runs(Tail(code["game"]), Nothing, Nothing)
    BY <1>2, <1>4 DEF Locks!GameCallsAgain, Locks!At
  <2>2. code' = [code EXCEPT !["game"] = call \o Tail(code["game"])] /\ readers' = readers /\ writer' = writer
    BY <1>4 DEF Locks!GameCallsAgain
  <2> QED
    BY <1>0, <2>1, <2>2, CallsBalanced, BeginKeeps
<1>5. ASSUME NEW t \in Locks!Threads, code[t] = <<>>
      PROVE  HeldBy(t, readers, writer) = Nothing /\ Runs(<<>>, Nothing, Nothing)
  <2>1. Runs(<<>>, HeldBy(t, readers, writer), Nothing)
    BY <1>5 DEF LocksInv
  <2> QED
    BY <2>1, RunsEnd
<1>6. ASSUME NEW call \in Locks!GameCalls, Locks!BeginCall(call) PROVE LocksInv'
  <2>1. code["game"] = <<>> /\ code' = [code EXCEPT !["game"] = call] /\ readers' = readers /\ writer' = writer
    BY <1>6 DEF Locks!BeginCall
  <2>2. Balanced(call, {}, {})
    BY CallsBalanced
  <2>3. call \o <<>> = call
    BY <2>2 DEF Balanced, Runs
  <2>4. HeldBy("game", readers, writer) = Nothing /\ Runs(<<>>, Nothing, Nothing)
    BY <1>0, <1>5, <2>1
  <2> QED
    BY <1>0, <2>1, <2>2, <2>3, <2>4, BeginKeeps
<1>7. ASSUME Locks!BeginPass PROVE LocksInv'
  <2>1. code["heat_thread"] = <<>> /\ code' = [code EXCEPT !["heat_thread"] = Locks!HeatPass]
        /\ readers' = readers /\ writer' = writer
    BY <1>7 DEF Locks!BeginPass
  <2>2. Balanced(Locks!HeatPass, {}, {}) /\ Locks!HeatPass \in Seq(PassOps)
    BY PassBalanced
  <2>3. Locks!HeatPass \o <<>> = Locks!HeatPass
    BY <2>2 DEF Balanced, Runs
  <2>4. HeldBy("heat_thread", readers, writer) = Nothing /\ Runs(<<>>, Nothing, Nothing)
    BY <1>0, <1>5, <2>1
  <2> QED
    BY <1>0, <2>1, <2>2, <2>3, <2>4, BeginKeeps
<1>8. CASE UNCHANGED Locks!vars
  BY <1>8 DEF Locks!vars, LocksInv, LocksTypes, PassReads
<1> QED
  BY <1>1, <1>3, <1>4, <1>6, <1>7, <1>8 DEF Locks!Next

(***************************************************************************)
(* Nobody waits for himself, and never both for each other.                *)
(***************************************************************************)
\* A thread asks only for locks it does not hold.
LEMMA InvAsksOnce == LocksInv => Locks!AsksOnce
<1> SUFFICES ASSUME LocksInv, NEW t \in Locks!Threads,
                    Locks!At(t, "read") \/ Locks!At(t, "write")
             PROVE  ~Locks!Holds(t, Locks!Lock(t))
  BY DEF Locks!AsksOnce
<1> DEFINE o == Head(code[t])
<1>1. code[t] # <<>> /\ o.kind \in {"read", "write"}
  BY DEF Locks!At
<1>2. Asks(o, HeldBy(t, readers, writer))
  BY <1>1, HeadRuns DEF Allowed, Drains, Frees, Calls
<1>3. o.lock \in Locks!Locks /\ readers[o.lock][t] # 1 /\ writer[o.lock] # t
  BY <1>2 DEF Asks, HeldBy
<1>4. readers[o.lock][t] = 0
  BY <1>3 DEF LocksInv, LocksTypes
<1>5. ~(readers[o.lock][t] > 0)
  BY <1>4
<1> QED
  BY <1>3, <1>5 DEF Locks!Holds, Locks!Lock

\* Only the game writes, so a thread that waits to take a lock is the heat thread,
\* and one that waits for readers is the game, whose only lock of the heat pass is
\* the one it drains: whatever the heat thread waits for then, it is not that.
LEMMA InvNoCircle == LocksInv => Locks!NoCircle
<1> SUFFICES ASSUME LocksInv, NEW t \in Locks!Threads, Locks!Waits(t),
                    \A u \in Locks!Threads : code[u] # <<>> => Locks!Waits(u)
             PROVE  FALSE
  BY DEF Locks!NoCircle
<1>0. Locks!Threads = {"game", "heat_thread"} /\ LocksTypes /\ Locks!AsksOnce
  BY InvAsksOnce DEF Locks!Threads, LocksInv
<1>1. ASSUME NEW u \in Locks!Threads, Locks!Waits(u), u = "game"
      PROVE  /\ code["game"] # <<>>
             /\ Drains(Head(code["game"]), HeldBy("game", readers, writer))
             /\ readers[Head(code["game"]).lock]["heat_thread"] = 1
  <2>1. ~(Locks!At("game", "read") \/ Locks!At("game", "write"))
    <3> SUFFICES ASSUME Locks!At("game", "read") \/ Locks!At("game", "write") PROVE FALSE
      OBVIOUS
    <3> DEFINE l == Locks!Lock("game")
    <3>1. writer[l] # Locks!Nobody
      BY <1>1 DEF Locks!Waits, Locks!At
    <3>2. code["game"] # <<>> /\ Head(code["game"]).kind \in {"read", "write"}
      BY DEF Locks!At
    <3>3. Asks(Head(code["game"]), HeldBy("game", readers, writer))
      BY <1>0, <3>2, HeadRuns DEF Allowed, Drains, Frees, Calls
    <3>4. l \in Locks!Locks /\ writer[l] # "game"
      BY <3>3 DEF Asks, HeldBy, Locks!Lock
    <3> QED
      BY <1>0, <3>1, <3>4 DEF LocksTypes
  <2>2. Locks!At("game", "drain") /\ \E v \in Locks!Threads : readers[Locks!Lock("game")][v] > 0
    BY <1>1, <2>1 DEF Locks!Waits
  <2> DEFINE o == Head(code["game"])
  <2>3. code["game"] # <<>> /\ o.kind = "drain"
    BY <2>2 DEF Locks!At
  <2>4. Drains(o, HeldBy("game", readers, writer)) /\ HeldBy("game", readers, writer) \in Held
    BY <1>0, <2>3, HeadRuns DEF Allowed, Asks, Frees, Calls
  <2>5. o.lock \in Locks!Locks /\ readers[o.lock]["game"] # 1
    <3>1. o.lock \notin HeldBy("game", readers, writer).reads /\ o.lock \in HeldBy("game", readers, writer).writes
      BY <2>4 DEF Drains, Held
    <3> QED
      BY <3>1 DEF HeldBy
  <2>6. readers[o.lock]["game"] = 0
    BY <1>0, <2>5 DEF LocksTypes
  <2>7. readers[o.lock]["heat_thread"] > 0
    <3>1. PICK v \in Locks!Threads : readers[o.lock][v] > 0
      BY <2>2 DEF Locks!Lock
    <3>2. v # "game"
      BY <2>6, <3>1
    <3> QED
      BY <1>0, <3>1, <3>2
  <2>8. readers[o.lock]["heat_thread"] \in {0, 1}
    BY <1>0, <2>5 DEF LocksTypes
  <2>9. readers[o.lock]["heat_thread"] = 1
    BY <2>7, <2>8
  <2> QED
    BY <2>3, <2>4, <2>9
<1>2. ASSUME NEW u \in Locks!Threads, Locks!Waits(u), u = "heat_thread"
      PROVE  /\ code["heat_thread"] # <<>> /\ Head(code["heat_thread"]).lock \in PassLocks
             /\ Asks(Head(code["heat_thread"]), HeldBy("heat_thread", readers, writer))
             /\ writer[Head(code["heat_thread"]).lock] = "game"
  <2> DEFINE o == Head(code["heat_thread"])
  <2>1. code["heat_thread"] # <<>> /\ o.kind \in {"read", "write", "drain"}
        /\ (o.kind # "drain" => writer[o.lock] # Locks!Nobody)
    BY <1>2 DEF Locks!Waits, Locks!At, Locks!Lock
  <2>2. o \in PassOps /\ Allowed(o, HeldBy("heat_thread", readers, writer))
    BY <1>0, <2>1, HeadRuns
  <2>3. o.kind = "read" /\ o.lock \in PassLocks
    BY <2>1, <2>2 DEF PassOps
  <2>4. Asks(o, HeldBy("heat_thread", readers, writer))
    BY <2>2, <2>3 DEF Allowed, Drains, Frees, Calls
  <2>5. writer[o.lock] = "game"
    BY <1>0, <2>1, <2>3, <2>4 DEF Asks, LocksTypes
  <2> QED
    BY <2>1, <2>3, <2>4, <2>5
<1> DEFINE g == Head(code["game"])
           p == Head(code["heat_thread"])
<1>3. code["heat_thread"] # <<>>
  <2>1. CASE t = "heat_thread"
    BY <1>2, <2>1
  <2>2. CASE t = "game"
    <3>1. /\ Drains(g, HeldBy("game", readers, writer))
          /\ readers[g.lock]["heat_thread"] = 1
      BY <1>1, <2>2
    <3>2. g.lock \in HeldBy("heat_thread", readers, writer).reads
      BY <3>1 DEF Drains, HeldBy
    <3> QED
      BY <1>0, <3>2, RunsEnd DEF LocksInv, Nothing
  <2> QED
    BY <1>0, <2>1, <2>2
<1>4. /\ p.lock \in PassLocks /\ Asks(p, HeldBy("heat_thread", readers, writer))
      /\ writer[p.lock] = "game"
  BY <1>0, <1>2, <1>3
<1>5. p.lock \in HeldBy("game", readers, writer).writes
      /\ readers[p.lock]["heat_thread"] # 1
  BY <1>4 DEF Asks, HeldBy
<1>6. code["game"] # <<>>
  BY <1>0, <1>5, RunsEnd DEF LocksInv, Nothing
<1>7. /\ Drains(g, HeldBy("game", readers, writer))
      /\ readers[g.lock]["heat_thread"] = 1
  BY <1>0, <1>1, <1>6
<1>8. g.lock \in Locks!Locks /\ g.lock \in PassLocks
  BY <1>7 DEF Drains, HeldBy, LocksInv, PassReads
<1>9. p.lock = g.lock
  BY <1>5, <1>7, <1>8 DEF Drains
<1> QED
  BY <1>5, <1>7, <1>9

\* Whatever the game calls, and however often its procs call again from inside a call,
\* no thread asks for a lock it holds.
THEOREM LocksInvariant == Locks!Spec => []LocksInv
  BY LocksInitial, LocksKept, PTL DEF Locks!Spec

\* The run composes the locks with parts that share none of their variables.
LEMMA LocksPart == MCSpec => Locks!Spec
<1>1. MCInit => Locks!Init
  BY DEF MCInit
<1>2. [MCNext]_allVars => [Locks!Next]_(Locks!vars)
  BY DEF MCNext, HeatNext, LocksNext, SlotsNext, ChannelNext, allVars, lockVars, Locks!vars
<1> QED
  BY <1>1, <1>2, PTL DEF MCSpec, Locks!Spec

\* With any nesting of calls, a thread never asks for a lock it holds, and the game and the
\* heat thread never wait for each other: the lock order of the legacy backend is safe.
THEOREM LocksTheorem == MCSpec => []LocksSound
<1>1. LocksInv => LocksSound
  BY InvAsksOnce, InvNoCircle DEF LocksSound
<1> QED
  BY <1>1, LocksInvariant, LocksPart, PTL

(***************************************************************************)
(* The heat thread and the worlds around it.                               *)
(***************************************************************************)
HeatStages == {"none", "receive", "check", "enter", "pass", "leave", "end", "finished"}
GameStages == {"idle", "rearm", "start", "send", "take", "wait", "release", "release_gases"}

\* The thread whose handle is in its place, or in the hands of the shutdown that waits.
Current == IF game = "wait" THEN joining ELSE owner

HeatTypes ==
  /\ owner \in {0, 1, 2} /\ joining \in {0, 1, 2}
  /\ worker \in [1..2 -> HeatStages] /\ game \in GameStages
  /\ running \in BOOLEAN /\ arenas \in SUBSET {"heat", "turfs", "gases"}

\* There is no thread but the current one, which has the flag of a running thread until
\* it drops its guard; as long as it exists, and from the start of a world until its
\* thread is started, no arena is missing.
HeatInv ==
  /\ HeatTypes
  /\ game = "wait" <=> joining # 0
  /\ game = "wait" => owner = 0
  /\ \A w \in 1..2 : worker[w] = "none" <=> w # Current
  /\ running <=> Current # 0 /\ worker[Current] \in {"receive", "check", "enter", "pass", "leave"}
  /\ Current # 0 \/ game \in {"rearm", "start"} => arenas = {"heat", "turfs", "gases"}
  /\ game \in {"release", "release_gases"} => Current = 0

\* No thread runs before the first world, and no arena is missing.
LEMMA HeatInitial == Slow!Init => HeatInv
<1> SUFFICES ASSUME Slow!Init PROVE HeatInv
  OBVIOUS
<1> USE DEF Slow!Init, Slow!None, Slow!Ids, Slow!All
<1>1. HeatTypes
  BY DEF HeatTypes, HeatStages, GameStages
<1>2. joining = 0 /\ game = "idle" /\ Current = owner
  BY DEF Current
<1>3. \A w \in 1..2 : worker[w] = IF w = owner THEN "receive" ELSE "none"
  OBVIOUS
<1>4. running <=> owner # 0
  OBVIOUS
<1> QED
  BY <1>1, <1>2, <1>3, <1>4 DEF HeatInv, HeatTypes

\* A thread that moves is the current one.
LEMMA MovesCurrent ==
  ASSUME HeatInv, NEW w \in 1..2, worker[w] # "none"
  PROVE  w = Current /\ Current # 0 /\ arenas = {"heat", "turfs", "gases"}
  BY DEF HeatInv

\* What a step of the heat thread must show: the thread goes from one stage to another,
\* and drops the flag when it leaves its loop.
LEMMA ThreadKeeps ==
  ASSUME HeatInv, NEW w \in 1..2, worker[w] # "none",
         NEW pc \in HeatStages \ {"none"}, Slow!Goes(w, pc), Slow!OnlyThread,
         running' = (running /\ pc # "end"),
         worker[w] \in {"receive", "check", "enter", "pass", "leave"}
           <=> pc \in {"receive", "check", "enter", "pass", "leave", "end"}
  PROVE  HeatInv'
<1>1. w = Current /\ Current # 0 /\ arenas = {"heat", "turfs", "gases"}
  BY MovesCurrent
<1>2. Current' = Current /\ owner' = owner /\ joining' = joining /\ game' = game /\ arenas' = arenas
  BY DEF Slow!OnlyThread, Current
<1>3. worker' \in [1..2 -> HeatStages] /\ worker'[w] = pc
      /\ \A v \in 1..2 \ {w} : worker'[v] = worker[v]
  BY DEF Slow!Goes, HeatInv, HeatTypes
<1>4. HeatTypes'
  BY <1>2, <1>3 DEF HeatInv, HeatTypes
<1>5. \A v \in 1..2 : worker'[v] = "none" <=> v # Current
  BY <1>1, <1>3 DEF HeatInv
<1>6. running <=> worker[w] \in {"receive", "check", "enter", "pass", "leave"}
  BY <1>1 DEF HeatInv
<1>7. running' <=> Current # 0 /\ worker'[Current] \in {"receive", "check", "enter", "pass", "leave"}
  BY <1>1, <1>3, <1>6
<1> QED
  BY <1>1, <1>2, <1>4, <1>5, <1>7 DEF HeatInv

\* A step of a heat thread keeps the invariant.
LEMMA HeatThreadKeeps ==
  ASSUME HeatInv, NEW w \in Slow!Ids, Slow!HeatThread(w)
  PROVE  HeatInv'
<1>0. w \in 1..2 /\ running \in BOOLEAN
  BY DEF Slow!Ids, HeatInv, HeatTypes
<1> USE <1>0 DEF HeatStages
<1>1. CASE Slow!Receive(w)
  BY <1>1, ThreadKeeps DEF Slow!Receive
<1>2. CASE Slow!Check(w)
  BY <1>2, ThreadKeeps DEF Slow!Check
<1>3. CASE Slow!Enter(w)
  <2>1. arenas = {"heat", "turfs", "gases"}
    BY <1>3, MovesCurrent DEF Slow!Enter
  <2> QED
    BY <1>3, <2>1, ThreadKeeps DEF Slow!Enter, Slow!All
<1>4. CASE Slow!EndPass(w)
  BY <1>4, ThreadKeeps DEF Slow!EndPass
<1>5. CASE Slow!DropGuard(w)
  BY <1>5, ThreadKeeps DEF Slow!DropGuard
<1>6. CASE Slow!EndThread(w)
  <2>1. ~running
    BY <1>6, MovesCurrent DEF Slow!EndThread, HeatInv
  <2> QED
    BY <1>6, <2>1, ThreadKeeps DEF Slow!EndThread
<1> QED
  BY <1>1, <1>2, <1>3, <1>4, <1>5, <1>6 DEF Slow!HeatThread

\* A step of dogmos_init or dogmos_shutdown keeps the invariant.
LEMMA CallKeeps ==
  ASSUME HeatInv,
         \/ Slow!Notify \/ Slow!BeginWorld \/ Slow!BeginShutdown \/ Slow!ShutdownAgain
         \/ Slow!CallProceeds \/ Slow!GiveUp
  PROVE  HeatInv'
<1> USE DEF HeatInv, HeatTypes, GameStages, Current, Slow!Continues, Slow!None, Slow!All
<1>1. CASE Slow!Notify
  BY <1>1 DEF Slow!Notify
<1>2. CASE Slow!BeginWorld
  BY <1>2 DEF Slow!BeginWorld
<1>3. CASE Slow!BeginShutdown
  BY <1>3 DEF Slow!BeginShutdown
<1>4. CASE Slow!ShutdownAgain
  BY <1>4 DEF Slow!ShutdownAgain, Slow!Returns
<1>5. CASE Slow!Rearm
  BY <1>5 DEF Slow!Rearm
<1>6. CASE Slow!KeepWorker
  BY <1>6 DEF Slow!KeepWorker, Slow!Initialised, Slow!MainOnly
<1>7. ASSUME NEW spawned \in BOOLEAN, Slow!StartWorker(spawned) PROVE HeatInv'
  <2> DEFINE left == Slow!Joined(owner, worker)
             w == CHOOSE i \in Slow!Ids : left[i] = "none"
  <2>1. game = "start" /\ ~(owner # 0 /\ owner \in Slow!Unfinished)
        /\ arenas' = arenas /\ joining' = joining /\ Slow!Initialised(live')
    BY <1>7 DEF Slow!StartWorker, Slow!Keep, Slow!MainOnly, Slow!Initialised
  <2>2. Current = owner /\ joining = 0 /\ arenas = {"heat", "turfs", "gases"}
    BY <2>1
  <2>3. owner # 0 => worker[owner] = "finished"
    <3> SUFFICES ASSUME owner # 0 PROVE worker[owner] = "finished"
      OBVIOUS
    <3>1. owner \in 1..2 /\ worker[owner] # "none" /\ worker[owner] \in HeatStages
      BY <2>2
    <3>2. worker[owner] \in Slow!Finished
      BY <2>1, <3>1 DEF Slow!Unfinished, Slow!Ids
    <3> QED
      BY <3>1, <3>2 DEF Slow!Finished, HeatStages
  <2>4. ~running
    BY <2>2, <2>3
  <2>5. left \in [1..2 -> HeatStages] /\ \A i \in 1..2 : left[i] = "none"
    <3>1. \A i \in 1..2 : i # owner => worker[i] = "none"
      BY <2>2
    <3> QED
      BY <3>1 DEF Slow!Joined, HeatStages
  <2>6. w \in 1..2
    <3>1. 1 \in Slow!Ids /\ left[1] = "none" /\ Slow!Ids = 1..2
      BY <2>5 DEF Slow!Ids
    <3> HIDE DEF left
    <3> QED
      BY <3>1
  <2>7. /\ owner' = (IF spawned THEN w ELSE 0)
        /\ worker' = (IF spawned THEN [left EXCEPT ![w] = "receive"] ELSE left)
        /\ running' = spawned
    BY <1>7, <2>3, <2>4 DEF Slow!StartWorker
  <2> HIDE DEF left, w
  <2>8. worker' \in [1..2 -> HeatStages]
        /\ \A i \in 1..2 : worker'[i] = IF spawned /\ i = w THEN "receive" ELSE "none"
    BY <2>5, <2>6, <2>7 DEF HeatStages
  <2>9. game' = "idle" /\ Current' = owner'
    BY <2>1 DEF Slow!Initialised
  <2>10. HeatTypes'
    BY <2>1, <2>6, <2>7, <2>8, <2>9
  <2>11. /\ \A i \in 1..2 : worker'[i] = "none" <=> i # Current'
         /\ running' <=> Current' # 0 /\ worker'[Current'] \in {"receive", "check", "enter", "pass", "leave"}
    <3>1. CASE spawned
      BY <2>6, <2>7, <2>8, <2>9, <3>1
    <3>2. CASE ~spawned
      BY <2>6, <2>7, <2>8, <2>9, <3>2
    <3> QED
      BY <3>1, <3>2
  <2> QED
    BY <2>1, <2>2, <2>9, <2>10, <2>11
<1>8. CASE Slow!SendShutdown
  BY <1>8 DEF Slow!SendShutdown
<1>9. CASE Slow!TakeHandle
  <2>1. CASE owner # 0
    BY <1>9, <2>1 DEF Slow!TakeHandle
  <2>2. CASE owner = 0
    BY <1>9, <2>2 DEF Slow!TakeHandle, Slow!Returns
  <2> QED
    BY <2>1, <2>2
<1>10. CASE Slow!JoinWorker
  <2>1. /\ joining \in 1..2 /\ owner = 0 /\ Current = joining
        /\ joining' = 0 /\ owner' = owner /\ running' = running
        /\ worker' = [worker EXCEPT ![joining] = "none"]
    BY <1>10 DEF Slow!JoinWorker, Slow!Joined
  <2>2. worker[joining] = "finished"
    BY <1>10, <2>1 DEF Slow!JoinWorker, Slow!Unfinished, Slow!Finished, Slow!Ids, HeatStages
  <2>3. game' = "release" /\ arenas' = arenas \ {"heat"}
    BY <1>10, <2>2 DEF Slow!JoinWorker
  <2>4. ~running
    BY <2>1, <2>2
  <2>5. worker' \in [1..2 -> HeatStages] /\ \A w \in 1..2 : worker'[w] = "none"
    BY <2>1 DEF HeatStages
  <2> QED
    BY <2>1, <2>3, <2>4, <2>5
<1>11. CASE Slow!ReleaseTurfs
  BY <1>11 DEF Slow!ReleaseTurfs
<1>12. CASE Slow!ReleaseGases
  BY <1>12 DEF Slow!ReleaseGases, Slow!Returns
<1>13. CASE Slow!GiveUp
  BY <1>13 DEF Slow!GiveUp, Slow!Returns
<1> QED
  BY <1>1, <1>2, <1>3, <1>4, <1>5, <1>6, <1>7, <1>8, <1>9, <1>10, <1>11, <1>12, <1>13
     DEF Slow!CallProceeds

\* Every step of the worlds keeps the invariant.
LEMMA HeatKept == HeatInv /\ [Slow!Next]_(Slow!vars) => HeatInv'
<1> SUFFICES ASSUME HeatInv, [Slow!Next]_(Slow!vars) PROVE HeatInv'
  OBVIOUS
<1>1. CASE UNCHANGED Slow!vars
  BY <1>1 DEF Slow!vars, HeatInv, HeatTypes, Current
<1> QED
  BY <1>1, HeatThreadKeeps, CallKeeps DEF Slow!Next

\* Under the invariant there is one thread at most, a running one has its handle in its
\* place, and its pass finds every arena.
LEMMA HeatSafe == HeatInv => Slow!OneThread /\ Slow!RunningIsOwned /\ Slow!PassFindsArenas
<1> SUFFICES ASSUME HeatInv PROVE Slow!OneThread /\ Slow!RunningIsOwned /\ Slow!PassFindsArenas
  OBVIOUS
<1>1. Slow!OneThread
  <2> DEFINE C == {Current}
  <2>1. Slow!Unfinished \in SUBSET C
    BY DEF Slow!Unfinished, Slow!Finished, Slow!Ids, HeatInv
  <2>2. Cardinality(C) = 1 /\ IsFiniteSet(C)
    BY FS_Singleton
  <2> HIDE DEF C
  <2>4. Cardinality(Slow!Unfinished) <= Cardinality(C)
    BY <2>1, <2>2, FS_Subset
  <2>5. Cardinality(Slow!Unfinished) <= 1
    BY <2>2, <2>4
  <2>6. Slow!Cardinality(Slow!Unfinished) = Cardinality(Slow!Unfinished)
    BY DEF Slow!Cardinality, Cardinality
  <2> QED
    BY <2>5, <2>6 DEF Slow!OneThread
<1>2. Slow!RunningIsOwned
  BY DEF Slow!RunningIsOwned, Slow!None, HeatInv, Current
<1>3. Slow!PassFindsArenas
  BY DEF Slow!PassFindsArenas, HeatInv, HeatTypes, HeatStages, Slow!Ids
<1> QED
  BY <1>1, <1>2, <1>3

(***************************************************************************)
(* Passes that end in time.                                                *)
(***************************************************************************)
\* A call that is not kept from joining its thread: between calls a world's thread
\* serves it, nothing in the flags or in the channel tells it to leave, and a shutdown
\* that has returned has stopped it and taken every arena.
NoShutdownSent == heatChannel = <<>> \/ heatChannel = <<"Process">>
QuickInv ==
  /\ heatChannel \in {<<>>, <<"Process">>, <<"Shutdown">>}
  /\ heatShutdown \in BOOLEAN /\ dogmosShutdown \in BOOLEAN
  /\ game \in {"rearm", "start"} => NoShutdownSent /\ ~dogmosShutdown
  /\ game = "idle" /\ "heat" \in arenas => NoShutdownSent
  /\ game \in {"idle", "rearm", "start"} /\ owner # 0 =>
       ~heatShutdown /\ worker[owner] \in {"receive", "check", "enter", "pass"}
  /\ game = "start" => ~heatShutdown
  /\ game \in {"send", "take", "wait", "release", "release_gases"} => dogmosShutdown
  /\ game \in {"release", "release_gases"} => "heat" \notin arenas
  /\ game = "release_gases" => "turfs" \notin arenas
  /\ game = "idle" /\ dogmosShutdown => arenas = {} /\ owner = 0
  /\ live => game = "idle" /\ owner # 0
  /\ answered = "ok" => game = "idle" /\ dogmosShutdown

\* Before the first world nothing was sent and nothing is to be served.
LEMMA QuickInitial == Slow!Init => HeatInv /\ QuickInv
<1> SUFFICES ASSUME Slow!Init PROVE HeatInv /\ QuickInv
  OBVIOUS
<1>1. HeatInv
  BY HeatInitial
<1>2. QuickInv
  <2>1. /\ heatChannel = <<>> /\ heatShutdown = FALSE /\ dogmosShutdown = FALSE
        /\ game = "idle" /\ live = FALSE /\ answered = "none"
    BY DEF Slow!Init
  <2>2. owner # 0 => worker[owner] = "receive"
    BY DEF Slow!Init, Slow!None, Slow!Ids
  <2> QED
    BY <2>1, <2>2 DEF QuickInv, NoShutdownSent
<1> QED
  BY <1>1, <1>2

\* What a pass may not do when it ends in time is all that tells the two apart.
LEMMA QuickIsSlow ==
  /\ \A w \in Quick!Ids : w \in Slow!Ids /\ (Quick!HeatThread(w) => Slow!HeatThread(w))
  /\ Quick!Next => Slow!Next
<1> USE DEF Quick!None, Slow!None, Quick!Ids, Slow!Ids, Quick!All, Slow!All,
     Quick!Goes, Slow!Goes, Quick!OnlyThread, Slow!OnlyThread,
     Quick!Continues, Slow!Continues, Quick!Returns, Slow!Returns,
     Quick!Finished, Slow!Finished, Quick!Unfinished, Slow!Unfinished,
     Quick!Joined, Slow!Joined, Quick!MainOnly, Slow!MainOnly, Quick!Keep, Slow!Keep,
     Quick!Initialised, Slow!Initialised, Quick!NoTasks, Slow!NoTasks
<1>1. ASSUME NEW w \in Quick!Ids, Quick!HeatThread(w) PROVE Slow!HeatThread(w)
  BY <1>1 DEF Quick!HeatThread, Slow!HeatThread, Quick!Receive, Slow!Receive, Quick!Check,
     Slow!Check, Quick!Enter, Slow!Enter, Quick!EndPass, Slow!EndPass, Quick!DropGuard,
     Slow!DropGuard, Quick!EndThread, Slow!EndThread
<1>2. ASSUME Quick!Notify \/ Quick!BeginWorld \/ Quick!BeginShutdown \/ Quick!ShutdownAgain
      PROVE  Slow!Notify \/ Slow!BeginWorld \/ Slow!BeginShutdown \/ Slow!ShutdownAgain
  BY <1>2 DEF Quick!Notify, Slow!Notify, Quick!BeginWorld, Slow!BeginWorld,
     Quick!BeginShutdown, Slow!BeginShutdown, Quick!ShutdownAgain, Slow!ShutdownAgain
<1>3. ASSUME Quick!CallProceeds PROVE Slow!CallProceeds
  <2>1. Quick!Rearm => Slow!Rearm
    BY DEF Quick!Rearm, Slow!Rearm
  <2>2. Quick!KeepWorker => Slow!KeepWorker
    BY DEF Quick!KeepWorker, Slow!KeepWorker
  <2>3. ASSUME NEW s \in BOOLEAN PROVE Quick!StartWorker(s) => Slow!StartWorker(s)
    BY DEF Quick!StartWorker, Slow!StartWorker
  <2>4. Quick!SendShutdown => Slow!SendShutdown
    BY DEF Quick!SendShutdown, Slow!SendShutdown
  <2>5. Quick!TakeHandle => Slow!TakeHandle
    BY DEF Quick!TakeHandle, Slow!TakeHandle
  <2>6. Quick!JoinWorker => Slow!JoinWorker
    BY DEF Quick!JoinWorker, Slow!JoinWorker
  <2>7. (Quick!ReleaseTurfs => Slow!ReleaseTurfs) /\ (Quick!ReleaseGases => Slow!ReleaseGases)
    BY DEF Quick!ReleaseTurfs, Slow!ReleaseTurfs, Quick!ReleaseGases, Slow!ReleaseGases
  <2> QED
    BY <1>3, <2>1, <2>2, <2>3, <2>4, <2>5, <2>6, <2>7 DEF Quick!CallProceeds, Slow!CallProceeds
<1>4. ~Quick!GiveUp
  BY DEF Quick!GiveUp
<1>5. Quick!Next => Slow!Next
  BY <1>1, <1>2, <1>3, <1>4 DEF Quick!Next, Slow!Next
<1> QED
  BY <1>1, <1>5

\* A heat thread whose passes end in time keeps both invariants.
LEMMA QuickThreadKeeps ==
  ASSUME HeatInv, QuickInv, NEW w \in Quick!Ids, Quick!HeatThread(w)
  PROVE  QuickInv'
<1>0. w \in 1..2 /\ worker \in [1..2 -> HeatStages]
  BY DEF Quick!Ids, HeatInv, HeatTypes
<1>1. /\ dogmosShutdown' = dogmosShutdown /\ heatShutdown' = heatShutdown /\ arenas' = arenas
      /\ owner' = owner /\ game' = game /\ live' = live /\ answered' = answered
  BY DEF Quick!HeatThread, Quick!Receive, Quick!Check, Quick!Enter, Quick!EndPass,
     Quick!DropGuard, Quick!EndThread, Quick!OnlyThread
<1>2. worker[w] # "none" /\ w = Current /\ Current # 0
  <2>1. worker[w] # "none"
    BY DEF Quick!HeatThread, Quick!Receive, Quick!Check, Quick!Enter, Quick!EndPass,
       Quick!DropGuard, Quick!EndThread
  <2> QED
    BY <1>0, <2>1, MovesCurrent
<1>3. /\ heatChannel' \in {<<>>, <<"Process">>, <<"Shutdown">>}
      /\ NoShutdownSent => NoShutdownSent'
  <2>1. CASE Quick!Receive(w)
    BY <2>1 DEF Quick!Receive, QuickInv, NoShutdownSent
  <2>2. CASE heatChannel' = heatChannel
    BY <2>2 DEF QuickInv, NoShutdownSent
  <2> QED
    BY <2>1, <2>2 DEF Quick!HeatThread, Quick!Check, Quick!Enter, Quick!EndPass,
       Quick!DropGuard, Quick!EndThread
<1>4. ASSUME game \in {"idle", "rearm", "start"}, owner # 0
      PROVE  worker'[owner] \in {"receive", "check", "enter", "pass"}
  <2>1. w = owner /\ ~heatShutdown /\ worker[w] \in {"receive", "check", "enter", "pass"}
    BY <1>2, <1>4 DEF Current, QuickInv
  <2>2. arenas = {"heat", "turfs", "gases"} /\ NoShutdownSent
    <3>1. arenas = {"heat", "turfs", "gases"}
      BY <1>0, <1>2, MovesCurrent
    <3> QED
      BY <1>4, <3>1 DEF QuickInv
  <2>3. CASE Quick!Receive(w)
    <3>1. Head(heatChannel) = "Process"
      BY <2>2, <2>3 DEF Quick!Receive, NoShutdownSent
    <3> QED
      BY <1>0, <2>1, <2>3, <3>1 DEF Quick!Receive, Quick!Goes
  <2>4. CASE Quick!Check(w)
    BY <1>0, <2>1, <2>4 DEF Quick!Check, Quick!Goes
  <2>5. CASE Quick!Enter(w)
    BY <1>0, <2>1, <2>2, <2>5 DEF Quick!Enter, Quick!Goes, Quick!All
  <2>6. CASE Quick!EndPass(w)
    BY <1>0, <2>1, <2>6 DEF Quick!EndPass, Quick!Goes
  <2>7. CASE Quick!DropGuard(w) \/ Quick!EndThread(w)
    BY <2>1, <2>7 DEF Quick!DropGuard, Quick!EndThread
  <2> QED
    BY <2>3, <2>4, <2>5, <2>6, <2>7 DEF Quick!HeatThread
<1> HIDE DEF NoShutdownSent
<1> QED
  BY <1>1, <1>3, <1>4 DEF QuickInv

\* A step of the game around such a thread keeps both invariants.
LEMMA QuickCallKeeps ==
  ASSUME HeatInv, QuickInv,
         \/ Quick!Notify \/ Quick!BeginWorld \/ Quick!BeginShutdown \/ Quick!ShutdownAgain
         \/ Quick!CallProceeds
  PROVE  QuickInv'
<1>0. /\ HeatTypes /\ (game = "wait" <=> joining # 0) /\ (game = "wait" => owner = 0)
      /\ (game # "wait" => Current = owner)
      /\ (owner # 0 /\ game # "wait" => arenas = {"heat", "turfs", "gases"})
  BY DEF HeatInv, Current
<1> USE DEF QuickInv, NoShutdownSent, HeatTypes, GameStages, Quick!Continues, Quick!None, Quick!All
<1>1. CASE Quick!Notify
  BY <1>1 DEF Quick!Notify
<1>2. CASE Quick!BeginWorld
  BY <1>0, <1>2 DEF Quick!BeginWorld
<1>3. CASE Quick!BeginShutdown
  BY <1>3 DEF Quick!BeginShutdown
<1>4. CASE Quick!ShutdownAgain
  BY <1>4 DEF Quick!ShutdownAgain, Quick!Returns
<1>5. CASE Quick!Rearm
  BY <1>5 DEF Quick!Rearm
<1>6. CASE Quick!KeepWorker
  BY <1>6 DEF Quick!KeepWorker, Quick!Initialised, Quick!MainOnly, Quick!Keep
<1>7. ASSUME NEW spawned \in BOOLEAN, Quick!StartWorker(spawned) PROVE QuickInv'
  <2> DEFINE left == Quick!Joined(owner, worker)
             w == CHOOSE i \in Quick!Ids : left[i] = "none"
  <2>1. /\ game = "start" /\ ~(owner # 0 /\ owner \in Quick!Unfinished)
        /\ dogmosShutdown' = dogmosShutdown /\ heatShutdown' = heatShutdown
        /\ heatChannel' = heatChannel /\ arenas' = arenas /\ answered' = answered
        /\ game' = "idle"
    BY <1>7 DEF Quick!StartWorker, Quick!Keep, Quick!MainOnly, Quick!Initialised
  <2>2. owner = 0
    BY <1>0, <2>1 DEF Quick!Unfinished, Quick!Finished, Quick!Ids
  <2>3. ~running
    BY <1>0, <2>1, <2>2 DEF HeatInv
  <2>4. left = worker /\ \A i \in 1..2 : worker[i] = "none"
    BY <1>0, <2>1, <2>2 DEF HeatInv, Quick!Joined
  <2>5. w \in 1..2
    <3>1. 1 \in Quick!Ids /\ left[1] = "none" /\ Quick!Ids = 1..2
      BY <2>4 DEF Quick!Ids
    <3> HIDE DEF left
    <3> QED
      BY <3>1
  <2>6. /\ owner' = (IF spawned THEN w ELSE 0) /\ live' = spawned
        /\ worker' = (IF spawned THEN [left EXCEPT ![w] = "receive"] ELSE left)
    BY <1>7, <2>2, <2>3 DEF Quick!StartWorker, Quick!Initialised
  <2> HIDE DEF left, w
  <2>7. owner' # 0 => worker'[owner'] = "receive"
    BY <1>0, <2>4, <2>5, <2>6
  <2>8. live' => owner' # 0
    BY <2>5, <2>6
  <2>9. ~heatShutdown /\ ~dogmosShutdown /\ NoShutdownSent /\ answered # "ok"
    BY <2>1
  <2> QED
    BY <2>1, <2>7, <2>8, <2>9
<1>8. CASE Quick!SendShutdown
  BY <1>8 DEF Quick!SendShutdown
<1>9. CASE Quick!TakeHandle
  <2>1. CASE owner # 0
    BY <1>0, <1>9, <2>1 DEF Quick!TakeHandle
  <2>2. CASE owner = 0
    <3>1. ~running
      BY <1>0, <1>9, <2>2 DEF Quick!TakeHandle, HeatInv
    <3> QED
      BY <1>0, <1>9, <2>2, <3>1 DEF Quick!TakeHandle, Quick!Returns
  <2> QED
    BY <2>1, <2>2
<1>10. CASE Quick!JoinWorker
  <2>1. worker[joining] # "panicked"
    BY <1>0, <1>10 DEF Quick!JoinWorker, HeatStages
  <2>2. game' = "release" /\ arenas' = arenas \ {"heat"} /\ answered' = answered /\ game = "wait"
        /\ dogmosShutdown' = dogmosShutdown /\ heatShutdown' = heatShutdown
        /\ heatChannel' = heatChannel /\ owner' = owner /\ live' = live
    BY <1>10, <2>1 DEF Quick!JoinWorker
  <2> QED
    BY <1>0, <2>2
<1>11. CASE Quick!ReleaseTurfs
  BY <1>11 DEF Quick!ReleaseTurfs
<1>12. CASE Quick!ReleaseGases
  <2>1. owner = 0
    BY <1>0, <1>12 DEF Quick!ReleaseGases, HeatInv
  <2> QED
    BY <1>0, <1>12, <2>1 DEF Quick!ReleaseGases, Quick!Returns
<1> QED
  BY <1>1, <1>2, <1>3, <1>4, <1>5, <1>6, <1>7, <1>8, <1>9, <1>10, <1>11, <1>12
     DEF Quick!CallProceeds

\* Every step with passes that end in time keeps both invariants.
LEMMA QuickKept == HeatInv /\ QuickInv /\ [Quick!Next]_(Quick!vars) => HeatInv' /\ QuickInv'
<1> SUFFICES ASSUME HeatInv, QuickInv, [Quick!Next]_(Quick!vars) PROVE HeatInv' /\ QuickInv'
  OBVIOUS
<1>1. HeatInv'
  BY QuickIsSlow, HeatKept DEF Quick!vars, Slow!vars
<1>2. CASE UNCHANGED Quick!vars
  BY <1>1, <1>2 DEF Quick!vars, QuickInv, NoShutdownSent
<1>3. ~Quick!GiveUp
  BY DEF Quick!GiveUp
<1> QED
  BY <1>1, <1>2, <1>3, QuickThreadKeeps, QuickCallKeeps DEF Quick!Next

\* A world that lives is served, and a shutdown that succeeds has released everything.
LEMMA QuickSafe == HeatInv /\ QuickInv => Quick!LiveIsServed /\ Quick!ShutdownReleases
<1> SUFFICES ASSUME HeatInv, QuickInv PROVE Quick!LiveIsServed /\ Quick!ShutdownReleases
  OBVIOUS
<1>1. Quick!LiveIsServed
  BY DEF Quick!LiveIsServed, Quick!None, Quick!Serving, QuickInv
<1>2. ASSUME answered = "ok" PROVE arenas = {} /\ Quick!Unfinished = {}
  <2>1. arenas = {} /\ owner = 0 /\ game = "idle"
    BY <1>2 DEF QuickInv
  <2>2. \A w \in 1..2 : worker[w] = "none"
    BY <2>1 DEF HeatInv, Current
  <2> QED
    BY <2>1, <2>2 DEF Quick!Unfinished, Quick!Ids, Quick!Finished
<1> QED
  BY <1>1, <1>2 DEF Quick!ShutdownReleases

\* The parts of the run share no variable, and the heat thread's two settings differ in
\* what a shutdown does when a pass outlasts it.
HeatPartInv == HeatInv /\ (part = "quick" => QuickInv)

\* Of one heat thread at most there is a trace, and it is the one whose handle is known;
\* where its passes end in time, what the game waits for arrives.
THEOREM HeatThreadInvariant == MCSpec => []HeatPartInv
<1>1. MCInit => HeatPartInv
  BY HeatInitial, QuickInitial DEF MCInit, HeatPartInv
<1>2. HeatPartInv /\ [MCNext]_allVars => HeatPartInv'
  <2> SUFFICES ASSUME HeatPartInv, [MCNext]_allVars PROVE HeatPartInv'
    OBVIOUS
  <2>1. CASE part = "slow" /\ Slow!Next /\ UNCHANGED part
    BY <2>1, HeatKept DEF HeatPartInv
  <2>2. CASE part = "quick" /\ Quick!Next /\ UNCHANGED part
    BY <2>2, QuickKept DEF HeatPartInv
  <2>3. CASE UNCHANGED <<part, heatVars>>
    <3>1. UNCHANGED Slow!vars /\ UNCHANGED Quick!vars /\ part' = part
      BY <2>3 DEF heatVars, Slow!vars, Quick!vars
    <3> QED
      BY <3>1, HeatKept, QuickKept DEF HeatPartInv
  <2> QED
    BY <2>1, <2>2, <2>3 DEF MCNext, HeatNext, LocksNext, SlotsNext, ChannelNext, allVars
<1> QED
  BY <1>1, <1>2, PTL DEF MCSpec

\* Two heat threads never exist at once and a running one never meets an arena that was
\* taken, even when a pass outlasts the wait of the shutdown; with passes that end in time a
\* live world is served and a shutdown that succeeded has released everything.
THEOREM HeatThreadTheorem == MCSpec => []HeatThreadSound
<1>1. HeatPartInv => HeatThreadSound
  BY HeatSafe, QuickSafe DEF HeatPartInv, HeatThreadSound
<1> QED
  BY <1>1, HeatThreadInvariant, PTL

(***************************************************************************)
(* The sizes of a queue.                                                   *)
(***************************************************************************)
Callbacks == [id : Nat, size : Nat, world : Nat]

\* The sizes up to each callback.
Sums(q, n, g) ==
  /\ g \in [0..n -> Nat] /\ g[0] = 0
  /\ \A i \in 1..n : g[i] = g[i - 1] + q[i].size

SameSizes(q, p, n) == \A i \in 1..n : q[i].size = p[i].size
SameSums(g, h, n) == \A i \in 0..n : g[i] = h[i]

\* The sizes up to each callback are a function.
LEMMA SumsExist ==
  ASSUME NEW q \in Seq(Callbacks)
  PROVE  \E g : Sums(q, Len(q), g)
<1> SUFFICES ASSUME ~\E g : Sums(q, Len(q), g) PROVE FALSE
  OBVIOUS
<1> DEFINE T == {n \in 0..Len(q) : ~\E g : Sums(q, n, g)}
<1>1. Len(q) \in Nat /\ Len(q) \in T /\ T \in SUBSET Nat
  OBVIOUS
<1>2. PICK n \in T : \A m \in T : n <= m
  BY <1>1, LeastNatural
<1>3. n # 0
  <2>1. Sums(q, 0, [i \in 0..0 |-> 0])
    BY DEF Sums
  <2> QED
    BY <1>2, <2>1
<1>4. n - 1 \in 0..Len(q) /\ n \in 1..Len(q) /\ n - 1 \notin T
  BY <1>1, <1>2, <1>3
<1>5. PICK g : Sums(q, n - 1, g)
  BY <1>4
<1> DEFINE h == [i \in 0..n |-> IF i = n THEN g[n - 1] + q[n].size ELSE g[i]]
<1>6. q[n].size \in Nat
  <2>1. q[n] \in Callbacks
    BY <1>4
  <2> QED
    BY <2>1 DEF Callbacks
<1>7. h \in [0..n -> Nat] /\ h[0] = 0
  BY <1>4, <1>5, <1>6 DEF Sums
<1>8. ASSUME NEW i \in 1..n PROVE h[i] = h[i - 1] + q[i].size
  <2>1. CASE i = n
    BY <1>4, <2>1
  <2>2. CASE i # n
    <3>1. i \in 1..(n - 1) /\ i \in 0..n /\ i - 1 \in 0..n /\ i - 1 # n
      BY <1>4, <2>2
    <3>2. h[i] = g[i] /\ h[i - 1] = g[i - 1]
      BY <2>2, <3>1
    <3> QED
      BY <1>5, <3>1, <3>2 DEF Sums
  <2> QED
    BY <2>1, <2>2
<1>9. Sums(q, n, h)
  BY <1>7, <1>8 DEF Sums
<1> QED
  BY <1>2, <1>9

\* They depend on the sizes alone.
LEMMA SumsUnique ==
  ASSUME NEW q, NEW p, NEW n \in Nat, NEW g, NEW h, Sums(q, n, g), Sums(p, n, h),
         SameSizes(q, p, n)
  PROVE  SameSums(g, h, n)
<1> SUFFICES ASSUME NEW k \in 0..n, g[k] # h[k] PROVE FALSE
  BY DEF SameSums
<1> DEFINE T == {i \in 0..n : g[i] # h[i]}
<1>1. T \in SUBSET Nat /\ T # {}
  OBVIOUS
<1>2. PICK i \in T : \A j \in T : i <= j
  BY <1>1, LeastNatural
<1>3. i \in 0..n /\ g[i] # h[i]
  BY <1>2
<1>4. i # 0
  BY <1>3 DEF Sums
<1>5. i \in 1..n /\ i - 1 \in 0..n /\ i - 1 \notin T
  BY <1>2, <1>3, <1>4
<1>6. g[i - 1] = h[i - 1]
  BY <1>5
<1>7. g[i] = g[i - 1] + q[i].size /\ h[i] = h[i - 1] + p[i].size
  BY <1>5 DEF Sums
<1>8. q[i].size = p[i].size
  BY <1>5 DEF SameSizes
<1> QED
  BY <1>3, <1>5, <1>6, <1>7, <1>8

\* SizeOf is the last of them.
LEMMA SizeOfSums ==
  ASSUME NEW q \in Seq(Callbacks), NEW g, Sums(q, Len(q), g)
  PROVE  Channel!SizeOf(q) = g[Len(q)] /\ Channel!SizeOf(q) \in Nat
<1> DEFINE F(f) == [i \in 0..Len(q) |-> IF i = 0 THEN 0 ELSE f[i - 1] + q[i].size]
           s == CHOOSE f : f = F(f)
<1>1. Len(q) \in Nat
  OBVIOUS
<1>2. g = F(g)
  <2>1. \A i \in 0..Len(q) : g[i] = IF i = 0 THEN 0 ELSE g[i - 1] + q[i].size
    BY <1>1 DEF Sums
  <2> QED
    BY <2>1 DEF Sums
<1>3. s = F(s)
  BY <1>2
<1>4. Channel!SizeOf(q) = s[Len(q)]
  BY DEF Channel!SizeOf
<1> HIDE DEF s
<1>5. ASSUME NEW k \in 0..Len(q), s[k] # g[k] PROVE FALSE
  <2> DEFINE T == {i \in 0..Len(q) : s[i] # g[i]}
  <2>1. T \in SUBSET Nat /\ T # {}
    BY <1>5
  <2>2. PICK i \in T : \A j \in T : i <= j
    BY <2>1, LeastNatural
  <2>3. i \in 0..Len(q) /\ s[i] # g[i]
    BY <2>2
  <2>4. s[i] = IF i = 0 THEN 0 ELSE s[i - 1] + q[i].size
    BY <1>3, <2>3
  <2>5. i # 0
    BY <2>3, <2>4 DEF Sums
  <2>6. i \in 1..Len(q) /\ i - 1 \in 0..Len(q) /\ i - 1 \notin T
    BY <1>1, <2>2, <2>3, <2>5
  <2>7. s[i - 1] = g[i - 1]
    BY <2>6
  <2>8. g[i] = g[i - 1] + q[i].size
    BY <2>6 DEF Sums
  <2> QED
    BY <2>3, <2>4, <2>5, <2>7, <2>8
<1>6. Len(q) \in 0..Len(q)
  BY <1>1
<1>7. g[Len(q)] \in Nat
  BY <1>6 DEF Sums
<1> QED
  BY <1>4, <1>5, <1>6, <1>7

\* An empty queue weighs nothing.
LEMMA SizeOfEmpty == Channel!SizeOf(<<>>) = 0
<1>1. Sums(<<>>, 0, [i \in 0..0 |-> 0])
  BY DEF Sums
<1>2. <<>> \in Seq(Callbacks) /\ Len(<<>>) = 0
  OBVIOUS
<1>3. Channel!SizeOf(<<>>) = [i \in 0..0 |-> 0][Len(<<>>)]
  BY <1>1, <1>2, SizeOfSums
<1> QED
  BY <1>2, <1>3

\* A queue weighs a number.
LEMMA SizeOfNatural ==
  ASSUME NEW q \in Seq(Callbacks)
  PROVE  Channel!SizeOf(q) \in Nat
  BY SumsExist, SizeOfSums

\* A callback sent adds its size.
LEMMA SizeOfAppend ==
  ASSUME NEW q \in Seq(Callbacks), NEW x \in Callbacks
  PROVE  Channel!SizeOf(Append(q, x)) = Channel!SizeOf(q) + x.size
<1> DEFINE r == Append(q, x)
<1>1. r \in Seq(Callbacks) /\ Len(r) = Len(q) + 1 /\ Len(q) \in Nat /\ r[Len(q) + 1] = x
      /\ \A i \in 1..Len(q) : r[i] = q[i]
  OBVIOUS
<1> HIDE DEF r
<1>2. PICK g : Sums(q, Len(q), g)
  BY SumsExist
<1>3. PICK h : Sums(r, Len(r), h)
  BY <1>1, SumsExist
<1> DEFINE k == [i \in 0..Len(q) |-> h[i]]
<1>4. Sums(r, Len(q), k)
  <2>1. k \in [0..Len(q) -> Nat] /\ k[0] = 0
    BY <1>1, <1>3 DEF Sums
  <2>2. ASSUME NEW i \in 1..Len(q) PROVE k[i] = k[i - 1] + r[i].size
    <3>1. i \in 1..Len(r) /\ i - 1 \in 0..Len(q)
      BY <1>1
    <3> QED
      BY <1>3, <3>1 DEF Sums
  <2> QED
    BY <2>1, <2>2 DEF Sums
<1>5. k[Len(q)] = g[Len(q)]
  <2>1. SameSums(k, g, Len(q))
    <3>1. SameSizes(r, q, Len(q))
      BY <1>1 DEF SameSizes
    <3>2. Len(q) \in Nat
      BY <1>1
    <3>3. Sums(r, Len(q), k) /\ Sums(q, Len(q), g)
      BY <1>2, <1>4
    <3> HIDE DEF k
    <3> QED
      BY <3>1, <3>2, <3>3, SumsUnique
  <2> QED
    BY <1>1, <2>1 DEF SameSums
<1>6. h[Len(q) + 1] = h[Len(q)] + x.size
  <2>1. Len(q) + 1 \in 1..Len(r)
    BY <1>1
  <2>2. h[Len(q) + 1] = h[(Len(q) + 1) - 1] + r[Len(q) + 1].size
    BY <1>3, <2>1 DEF Sums
  <2> QED
    BY <1>1, <2>2
<1>7. Channel!SizeOf(r) = h[Len(q) + 1] /\ Channel!SizeOf(q) = g[Len(q)]
  BY <1>1, <1>2, <1>3, SizeOfSums
<1>8. k[Len(q)] = h[Len(q)]
  BY <1>1
<1> QED
  BY <1>5, <1>6, <1>7, <1>8 DEF r

\* A callback popped takes its size.
LEMMA SizeOfTail ==
  ASSUME NEW q \in Seq(Callbacks), q # <<>>
  PROVE  Channel!SizeOf(q) = Head(q).size + Channel!SizeOf(Tail(q))
<1> DEFINE r == Tail(q)
<1>1. r \in Seq(Callbacks) /\ Len(q) = Len(r) + 1 /\ Len(r) \in Nat /\ Head(q) = q[1]
      /\ q[1] \in Callbacks /\ \A i \in 1..Len(r) : r[i] = q[i + 1]
  OBVIOUS
<1> HIDE DEF r
<1>2. PICK h : Sums(r, Len(r), h)
  BY <1>1, SumsExist
<1> DEFINE g == [i \in 0..Len(q) |-> IF i = 0 THEN 0 ELSE q[1].size + h[i - 1]]
<1>3. q[1].size \in Nat
  BY <1>1 DEF Callbacks
<1>4. g \in [0..Len(q) -> Nat] /\ g[0] = 0
  <2>1. ASSUME NEW i \in 1..Len(q) PROVE h[i - 1] \in Nat
    <3>1. i - 1 \in 0..Len(r)
      BY <1>1
    <3> QED
      BY <1>2, <3>1 DEF Sums
  <2> QED
    BY <1>1, <1>3, <2>1
<1>5. ASSUME NEW i \in 1..Len(q) PROVE g[i] = g[i - 1] + q[i].size
  <2>1. CASE i = 1
    <3>1. g[1] = q[1].size + h[0] /\ g[0] = 0 /\ h[0] = 0
      BY <1>1, <1>2 DEF Sums
    <3> QED
      BY <1>3, <2>1, <3>1
  <2>2. CASE i # 1
    <3>1. i - 1 \in 1..Len(r) /\ i - 1 \in 1..Len(q) /\ (i - 1) - 1 \in 0..Len(r)
      BY <1>1, <2>2
    <3>2. g[i] = q[1].size + h[i - 1] /\ g[i - 1] = q[1].size + h[(i - 1) - 1]
      BY <3>1
    <3>6. r[i - 1] = q[(i - 1) + 1] /\ (i - 1) + 1 = i /\ r[i - 1] \in Callbacks
      BY <1>1, <3>1
    <3>3. h[i - 1] = h[(i - 1) - 1] + r[i - 1].size /\ r[i - 1] = q[i]
      BY <1>2, <3>1, <3>6 DEF Sums
    <3>4. h[(i - 1) - 1] \in Nat
      BY <1>2, <3>1 DEF Sums
    <3>5. r[i - 1].size \in Nat
      BY <3>6 DEF Callbacks
    <3> HIDE DEF g
    <3> QED
      BY <1>3, <3>2, <3>3, <3>4, <3>5
  <2> QED
    BY <2>1, <2>2
<1>6. Sums(q, Len(q), g)
  BY <1>4, <1>5 DEF Sums
<1>7. Channel!SizeOf(q) = g[Len(q)] /\ Channel!SizeOf(r) = h[Len(r)]
  <2> HIDE DEF g
  <2> QED
    BY <1>1, <1>2, <1>6, SizeOfSums
<1>8. g[Len(q)] = q[1].size + h[Len(r)]
  BY <1>1
<1> QED
  BY <1>1, <1>7, <1>8 DEF r

(***************************************************************************)
(* The channel.                                                            *)
(***************************************************************************)
DrainStages == {"out", "pop", "popped", "released", "passed", "cleared", "dropped", "running"}
InHand == main.pc \in {"popped", "released", "passed", "cleared"}
Passed == main.pc \in {"passed", "cleared"}

ChannelTypes ==
  /\ state \in BOOLEAN /\ failed \in BOOLEAN /\ refused \in BOOLEAN
  /\ lock \in Channel!Producers \cup {Channel!Nobody}
  /\ queue \in Seq(Callbacks) /\ ran \in Seq(Callbacks)
  /\ bytes \in Nat /\ offered \in Nat /\ world \in Nat
  /\ main \in [pc : DrainStages, item : Callbacks, timed : BOOLEAN]
  /\ item \in Callbacks

\* The callback in hand, the queue and the reserved callback are accounted; between
\* reservations and between drains nothing is.
ChannelBytes ==
  /\ lock = Channel!Nobody => item = Channel!NoItem
  /\ lock = "main" => main.pc = "running"
  /\ bytes <= MaxBytes /\ Channel!BytesExact
  /\ Len(queue) + (IF lock = Channel!Nobody THEN 0 ELSE 1) <= MaxItems

\* Numbers grow from what has run over what is in hand and what is queued to what is
\* reserved, and what is queued or reserved is of this world.
Ascending(q) == \A i, j \in DOMAIN q : i < j => q[i].id < q[j].id
ChannelOrder ==
  /\ Ascending(ran) /\ Ascending(queue)
  /\ \A j \in DOMAIN ran : ran[j].id <= offered
  /\ \A i \in DOMAIN queue :
       /\ queue[i].world = world /\ queue[i].id <= offered
       /\ \A j \in DOMAIN ran : ran[j].id < queue[i].id
  /\ InHand =>
       /\ main.item.id <= offered
       /\ \A j \in DOMAIN ran : ran[j].id < main.item.id
       /\ \A i \in DOMAIN queue : main.item.id < queue[i].id
  /\ lock # Channel!Nobody =>
       /\ item.world = world /\ item.id <= offered
       /\ \A j \in DOMAIN ran : ran[j].id < item.id
       /\ \A i \in DOMAIN queue : queue[i].id < item.id
       /\ InHand => main.item.id < item.id

ChannelCore == ChannelTypes /\ ChannelBytes /\ ChannelOrder

\* A drain that has started a callback since an overflow has none in hand that passed
\* the latch, and none passes it any more.
ChannelLate ==
  /\ refused => failed
  /\ late \in {0, 1}
  /\ late = 1 => refused /\ ~Passed

ChannelInv == ChannelCore /\ ChannelLate

\* No callback is a callback of no size.
LEMMA NoItemCallback == Channel!NoItem \in Callbacks /\ Channel!NoItem.size = 0
  BY DEF Channel!NoItem, Callbacks

\* The channel begins empty and closed.
LEMMA ChannelInitial ==
  ASSUME Channel!ChannelAssumption, Channel!Init
  PROVE  ChannelCore
<1>1. ChannelTypes
  <2>1. state \in BOOLEAN /\ failed \in BOOLEAN /\ refused \in BOOLEAN
        /\ lock \in Channel!Producers \cup {Channel!Nobody}
    BY DEF Channel!Init
  <2>2. queue \in Seq(Callbacks) /\ ran \in Seq(Callbacks)
        /\ bytes \in Nat /\ offered \in Nat /\ world \in Nat /\ item \in Callbacks
    BY NoItemCallback DEF Channel!Init
  <2>3. main \in [pc : DrainStages, item : Callbacks, timed : BOOLEAN]
    BY NoItemCallback DEF Channel!Init, DrainStages
  <2> QED
    BY <2>1, <2>2, <2>3 DEF ChannelTypes
<1>2. bytes = 0 /\ queue = <<>> /\ ran = <<>> /\ main.pc = "out" /\ item = Channel!NoItem
      /\ lock = Channel!Nobody /\ refused = FALSE
  BY DEF Channel!Init
<1>3. Channel!BytesExact
  BY <1>2, SizeOfEmpty, NoItemCallback DEF Channel!BytesExact, Channel!Unreleased
<1>4. MaxBytes \in Nat /\ MaxItems \in Nat
  BY DEF Channel!ChannelAssumption
<1>5. ChannelBytes
  <2>1. Len(<<>>) = 0 /\ Channel!Nobody # "main"
    BY DEF Channel!Nobody
  <2>2. bytes <= MaxBytes /\ Len(queue) + (IF lock = Channel!Nobody THEN 0 ELSE 1) <= MaxItems
    BY <1>2, <1>4, <2>1
  <2> QED
    BY <1>2, <1>3, <2>1, <2>2 DEF ChannelBytes
<1>6. ChannelOrder
  BY <1>2 DEF ChannelOrder, Ascending, InHand
<1> QED
  BY <1>1, <1>2, <1>5, <1>6 DEF ChannelCore

\* The main thread between drains, and the beginning of one.
LEMMA WorldKeeps ==
  ASSUME Channel!ChannelAssumption, ChannelCore,
         Channel!Begin \/ Channel!Clean \/ \E timed \in BOOLEAN : Channel!Hook(timed)
  PROVE  ChannelCore'
<1>0. ChannelTypes /\ ChannelBytes /\ ChannelOrder /\ MaxBytes \in Nat /\ MaxItems \in Nat
  BY DEF ChannelCore, Channel!ChannelAssumption
<1>1. CASE Channel!Begin
  <2>1. /\ main' = main /\ main.pc = "out" /\ lock = Channel!Nobody /\ lock' = lock
        /\ queue' = <<>> /\ bytes' = 0 /\ failed' = FALSE /\ state' = TRUE
        /\ world' = world + 1 /\ refused' = FALSE /\ item' = item /\ ran' = ran /\ offered' = offered
    BY <1>1 DEF Channel!Begin
  <2>2. item = Channel!NoItem
    BY <1>0, <2>1 DEF ChannelBytes
  <2>3. ChannelTypes'
    <3>1. state' \in BOOLEAN /\ failed' \in BOOLEAN /\ refused' \in BOOLEAN
      BY <2>1
    <3>2. queue' \in Seq(Callbacks) /\ bytes' \in Nat /\ world' \in Nat
      BY <1>0, <2>1 DEF ChannelTypes
    <3> QED
      BY <1>0, <2>1, <3>1, <3>2 DEF ChannelTypes
  <2>4. ChannelBytes'
    BY <1>0, <2>1, <2>2, SizeOfEmpty, NoItemCallback DEF ChannelBytes, Channel!BytesExact, Channel!Unreleased
  <2>5. ChannelOrder'
    BY <1>0, <2>1 DEF ChannelOrder, Ascending, InHand
  <2> QED
    BY <2>1, <2>3, <2>4, <2>5 DEF ChannelCore
<1>2. CASE Channel!Clean
  <2>1. /\ main' = main /\ main.pc = "out" /\ lock = Channel!Nobody /\ lock' = lock
        /\ queue' = <<>> /\ bytes' = Channel!Minus(bytes, Channel!SizeOf(queue))
        /\ failed' = failed /\ state' = FALSE
        /\ world' = world /\ refused' = refused /\ item' = item /\ ran' = ran /\ offered' = offered
    BY <1>2 DEF Channel!Clean
  <2>2. item = Channel!NoItem /\ bytes = Channel!SizeOf(queue) /\ bytes \in Nat
    <3>1. item = Channel!NoItem
      BY <1>0, <2>1 DEF ChannelBytes
    <3>2. Channel!SizeOf(queue) \in Nat /\ bytes \in Nat
      BY <1>0, SizeOfNatural DEF ChannelTypes
    <3>3. bytes = Channel!SizeOf(queue) + 0 + 0
      BY <1>0, <2>1, <3>1, NoItemCallback DEF ChannelBytes, Channel!BytesExact, Channel!Unreleased
    <3> QED
      BY <3>1, <3>2, <3>3
  <2>6. bytes' = 0
    BY <2>1, <2>2 DEF Channel!Minus
  <2>3. ChannelTypes'
    <3>1. state' \in BOOLEAN
      BY <2>1
    <3>2. queue' \in Seq(Callbacks) /\ bytes' \in Nat
      BY <2>1, <2>6
    <3> QED
      BY <1>0, <2>1, <3>1, <3>2 DEF ChannelTypes
  <2>4. ChannelBytes'
    BY <1>0, <2>1, <2>2, <2>6, SizeOfEmpty, NoItemCallback DEF ChannelBytes, Channel!BytesExact, Channel!Unreleased
  <2>5. ChannelOrder'
    BY <1>0, <2>1 DEF ChannelOrder, Ascending, InHand
  <2> QED
    BY <2>1, <2>3, <2>4, <2>5 DEF ChannelCore
<1>3. ASSUME NEW timed \in BOOLEAN, Channel!Hook(timed) PROVE ChannelCore'
  <2>1. /\ main' = [pc |-> "pop", item |-> Channel!NoItem, timed |-> timed] /\ main.pc = "out"
        /\ lock' = lock /\ queue' = queue /\ bytes' = bytes /\ failed' = failed /\ state' = state
        /\ world' = world /\ refused' = refused /\ item' = item /\ ran' = ran /\ offered' = offered
    BY <1>3 DEF Channel!Hook
  <2>3. ChannelTypes'
    BY <1>0, <2>1, NoItemCallback DEF ChannelTypes, DrainStages
  <2>4. ChannelBytes'
    BY <1>0, <2>1 DEF ChannelBytes, Channel!BytesExact, Channel!Unreleased
  <2>5. ChannelOrder'
    BY <1>0, <2>1 DEF ChannelOrder, Ascending, InHand
  <2> QED
    BY <2>1, <2>3, <2>4, <2>5 DEF ChannelCore
<1> QED
  BY <1>1, <1>2, <1>3

\* The drain.
LEMMA PopKeeps ==
  ASSUME Channel!ChannelAssumption, ChannelCore, Channel!Pop
  PROVE  ChannelCore'
<1>0. ChannelTypes /\ ChannelBytes /\ ChannelOrder /\ main.pc = "pop"
      /\ lock' = lock /\ bytes' = bytes /\ failed' = failed /\ state' = state
      /\ world' = world /\ refused' = refused /\ item' = item /\ ran' = ran /\ offered' = offered
  BY DEF ChannelCore, Channel!Pop
<1>1. CASE queue = <<>>
  <2>1. main' = [main EXCEPT !.pc = "out"] /\ queue' = queue
    BY <1>1 DEF Channel!Pop
  <2>2. main' \in [pc : DrainStages, item : Callbacks, timed : BOOLEAN] /\ main'.pc = "out"
    BY <1>0, <2>1 DEF ChannelTypes, DrainStages
  <2>3. lock # "main"
    BY <1>0 DEF ChannelBytes
  <2>4. ChannelTypes'
    BY <1>0, <2>1, <2>2 DEF ChannelTypes
  <2>5. ChannelBytes'
    BY <1>0, <2>1, <2>2, <2>3 DEF ChannelBytes, Channel!BytesExact, Channel!Unreleased
  <2>6. ChannelOrder'
    BY <1>0, <2>1, <2>2 DEF ChannelOrder, Ascending, InHand
  <2> QED
    BY <1>0, <2>4, <2>5, <2>6 DEF ChannelCore
<1>2. CASE queue # <<>>
  <2>1. main' = [main EXCEPT !.pc = "popped", !.item = Head(queue)] /\ queue' = Tail(queue)
    BY <1>2 DEF Channel!Pop
  <2>2. /\ Head(queue) \in Callbacks /\ queue' \in Seq(Callbacks) /\ Head(queue) = queue[1]
        /\ Len(queue) \in Nat /\ Len(queue') = Len(queue) - 1 /\ 1 \in DOMAIN queue
        /\ DOMAIN queue = 1..Len(queue) /\ DOMAIN queue' = 1..Len(queue')
        /\ \A i \in DOMAIN queue' : queue'[i] = queue[i + 1] /\ i + 1 \in DOMAIN queue
    BY <1>0, <1>2, <2>1 DEF ChannelTypes
  <2>3. main' \in [pc : DrainStages, item : Callbacks, timed : BOOLEAN]
        /\ main'.pc = "popped" /\ main'.item = queue[1]
    BY <1>0, <2>1, <2>2 DEF ChannelTypes, DrainStages
  <2>4. lock # "main"
    BY <1>0 DEF ChannelBytes
  <2>5. ChannelTypes'
    BY <1>0, <2>2, <2>3 DEF ChannelTypes
  <2>6. Channel!SizeOf(queue) = queue[1].size + Channel!SizeOf(queue')
        /\ queue[1].size \in Nat /\ Channel!SizeOf(queue') \in Nat /\ item.size \in Nat
    BY <1>0, <1>2, <2>1, <2>2, SizeOfTail, SizeOfNatural DEF ChannelTypes, Callbacks
  <2>7. Channel!BytesExact'
    <3>1. bytes = (queue[1].size + Channel!SizeOf(queue')) + item.size + 0
      BY <1>0, <2>6 DEF ChannelBytes, Channel!BytesExact, Channel!Unreleased
    <3>2. bytes' = Channel!SizeOf(queue') + item'.size + queue[1].size
      BY <1>0, <2>6, <3>1
    <3> QED
      BY <2>3, <3>2 DEF Channel!BytesExact, Channel!Unreleased
  <2>8. Len(queue') + (IF lock = Channel!Nobody THEN 0 ELSE 1) <= MaxItems \/ MaxItems \notin Nat
    BY <1>0, <2>2 DEF ChannelBytes
  <2>9. ChannelBytes'
    <3>1. MaxItems \in Nat
      BY DEF Channel!ChannelAssumption
    <3> QED
      BY <1>0, <2>3, <2>4, <2>7, <2>8, <3>1 DEF ChannelBytes
  <2>10. ChannelOrder'
    <3>1. \A i, j \in DOMAIN queue' : i < j => queue'[i].id < queue'[j].id
      BY <1>0, <2>2 DEF ChannelOrder, Ascending
    <3>2. \A i \in DOMAIN queue' : queue[1].id < queue'[i].id
      BY <1>0, <2>2 DEF ChannelOrder, Ascending
    <3>3. \A i \in DOMAIN queue' :
            /\ queue'[i].world = world /\ queue'[i].id <= offered
            /\ \A j \in DOMAIN ran : ran[j].id < queue'[i].id
      BY <1>0, <2>2 DEF ChannelOrder
    <3>4. queue[1].id <= offered /\ \A j \in DOMAIN ran : ran[j].id < queue[1].id
      BY <1>0, <2>2 DEF ChannelOrder
    <3>5. lock # Channel!Nobody =>
            /\ \A i \in DOMAIN queue' : queue'[i].id < item.id
            /\ queue[1].id < item.id
      BY <1>0, <2>2 DEF ChannelOrder
    <3> QED
      BY <1>0, <2>3, <3>1, <3>2, <3>3, <3>4, <3>5 DEF ChannelOrder, Ascending, InHand
  <2> QED
    BY <1>0, <2>5, <2>9, <2>10 DEF ChannelCore
<1> QED
  BY <1>1, <1>2

\* The rest of the drain: the look at the latch, the release of the bytes, the start of
\* the callback and its return.
LEMMA DrainKeepsOn ==
  ASSUME Channel!ChannelAssumption, ChannelCore,
         Channel!Look \/ Channel!Release \/ Channel!Start \/ Channel!Return
  PROVE  ChannelCore'
<1>0. ChannelTypes /\ ChannelBytes /\ ChannelOrder
      /\ main \in [pc : DrainStages, item : Callbacks, timed : BOOLEAN] /\ main.item \in Callbacks
  BY DEF ChannelCore, ChannelTypes
<1>9. MaxItems \in Nat /\ MaxBytes \in Nat
  BY DEF Channel!ChannelAssumption
<1>10. Channel!SizeOf(queue) \in Nat /\ item.size \in Nat /\ main.item.size \in Nat /\ bytes \in Nat
  BY <1>0, SizeOfNatural DEF ChannelTypes, Callbacks
<1>1. CASE Channel!Release
  <2>1. /\ bytes' = Channel!Minus(bytes, main.item.size) /\ Channel!Unreleased
        /\ lock' = lock /\ queue' = queue /\ failed' = failed /\ state' = state
        /\ world' = world /\ refused' = refused /\ item' = item /\ ran' = ran /\ offered' = offered
    BY <1>1 DEF Channel!Release, Channel!Unreleased
  <2>2. /\ main' \in [pc : DrainStages, item : Callbacks, timed : BOOLEAN]
        /\ ~Channel!Unreleased' /\ main.pc # "running"
        /\ InHand' => InHand /\ main'.item = main.item
    <3>1. CASE main.pc = "popped" /\ ~main.timed
      <4>1. main' = [main EXCEPT !.pc = "released"]
        BY <1>1, <3>1 DEF Channel!Release
      <4> QED
        BY <1>0, <3>1, <4>1 DEF DrainStages, Channel!Unreleased, InHand
    <3>2. CASE main.pc = "passed" /\ main.timed
      <4>1. main' = [main EXCEPT !.pc = "cleared"]
        BY <1>1, <3>2 DEF Channel!Release
      <4> QED
        BY <1>0, <3>2, <4>1 DEF DrainStages, Channel!Unreleased, InHand
    <3>3. CASE main.pc = "dropped" /\ main.timed
      <4>1. main' = [main EXCEPT !.pc = "out", !.item = Channel!NoItem]
        BY <1>1, <3>3 DEF Channel!Release
      <4> QED
        BY <1>0, <3>3, <4>1, NoItemCallback DEF DrainStages, Channel!Unreleased, InHand
    <3> QED
      BY <1>1, <3>1, <3>2, <3>3 DEF Channel!Release
  <2>3. bytes = Channel!SizeOf(queue) + item.size + main.item.size
    BY <1>0, <2>1 DEF ChannelBytes, Channel!BytesExact
  <2>4. bytes' = Channel!SizeOf(queue) + item.size /\ bytes' <= bytes
    BY <1>10, <2>1, <2>3 DEF Channel!Minus
  <2>5. ChannelTypes'
    BY <1>0, <1>10, <2>1, <2>2, <2>4 DEF ChannelTypes
  <2>6. bytes' <= MaxBytes
    BY <1>0, <1>9, <1>10, <2>4 DEF ChannelBytes
  <2>7. ChannelBytes'
    <3>1. Channel!BytesExact'
      BY <1>10, <2>1, <2>2, <2>4 DEF Channel!BytesExact
    <3> QED
      BY <1>0, <2>1, <2>2, <2>6, <3>1 DEF ChannelBytes
  <2>8. ChannelOrder'
    BY <1>0, <2>1, <2>2 DEF ChannelOrder, Ascending
  <2> QED
    BY <2>5, <2>7, <2>8 DEF ChannelCore
<1>2. CASE Channel!Look
  <2>1. /\ main.pc = (IF main.timed THEN "popped" ELSE "released") /\ bytes' = bytes
        /\ lock' = lock /\ queue' = queue /\ failed' = failed /\ state' = state
        /\ world' = world /\ refused' = refused /\ item' = item /\ offered' = offered /\ ran' = ran
    BY <1>2 DEF Channel!Look
  <2>2. /\ main' \in [pc : DrainStages, item : Callbacks, timed : BOOLEAN]
        /\ IF Channel!Unreleased THEN Channel!Unreleased' /\ main'.item = main.item
           ELSE ~Channel!Unreleased'
        /\ main.pc # "running"
        /\ InHand' => InHand /\ main'.item = main.item
    <3>1. CASE ~failed
      <4>1. main' = [main EXCEPT !.pc = "passed"]
        BY <1>2, <3>1 DEF Channel!Look
      <4> QED
        BY <1>0, <2>1, <4>1 DEF DrainStages, Channel!Unreleased, InHand
    <3>2. CASE failed /\ main.timed
      <4>1. main' = [main EXCEPT !.pc = "dropped"]
        BY <1>2, <3>2 DEF Channel!Look
      <4> QED
        BY <1>0, <2>1, <3>2, <4>1 DEF DrainStages, Channel!Unreleased, InHand
    <3>3. CASE failed /\ ~main.timed
      <4>1. main' = [main EXCEPT !.pc = "out", !.item = Channel!NoItem]
        BY <1>2, <3>3 DEF Channel!Look
      <4> QED
        BY <1>0, <2>1, <3>3, <4>1, NoItemCallback DEF DrainStages, Channel!Unreleased, InHand
    <3> QED
      BY <3>1, <3>2, <3>3
  <2>3. ChannelTypes'
    BY <1>0, <2>1, <2>2 DEF ChannelTypes
  <2>4. ChannelBytes'
    <3>1. Channel!BytesExact'
      BY <1>0, <2>1, <2>2 DEF ChannelBytes, Channel!BytesExact
    <3> QED
      BY <1>0, <2>1, <2>2, <3>1 DEF ChannelBytes
  <2>5. ChannelOrder'
    BY <1>0, <2>1, <2>2 DEF ChannelOrder, Ascending
  <2> QED
    BY <2>3, <2>4, <2>5 DEF ChannelCore
<1>3. CASE Channel!Start
  <2>1. /\ InHand /\ ~Channel!Unreleased /\ main.pc # "running" /\ bytes' = bytes
        /\ lock' = lock /\ queue' = queue /\ failed' = failed /\ state' = state
        /\ world' = world /\ refused' = refused /\ item' = item /\ offered' = offered
        /\ main' = [main EXCEPT !.pc = "running"] /\ ran' = Append(ran, main.item)
    BY <1>0, <1>3 DEF Channel!Start, InHand, Channel!Unreleased
  <2>2. lock # "main"
    BY <1>0, <2>1 DEF ChannelBytes
  <2>3. main' \in [pc : DrainStages, item : Callbacks, timed : BOOLEAN] /\ main'.pc = "running"
    BY <1>0, <2>1 DEF DrainStages
  <2>4. /\ ran' \in Seq(Callbacks) /\ DOMAIN ran = 1..Len(ran) /\ Len(ran) \in Nat
        /\ DOMAIN ran' = 1..(Len(ran) + 1)
        /\ ran'[Len(ran) + 1] = main.item /\ \A j \in DOMAIN ran : ran'[j] = ran[j]
    BY <1>0, <2>1 DEF ChannelTypes
  <2>5. ChannelTypes'
    BY <1>0, <2>1, <2>3, <2>4 DEF ChannelTypes
  <2>6. ChannelBytes'
    BY <1>0, <2>1, <2>2, <2>3 DEF ChannelBytes, Channel!BytesExact, Channel!Unreleased
  <2>7. /\ main.item.id <= offered
        /\ \A j \in DOMAIN ran : ran[j].id < main.item.id
        /\ \A i \in DOMAIN queue : main.item.id < queue[i].id
        /\ lock # Channel!Nobody => main.item.id < item.id
    BY <1>0, <2>1 DEF ChannelOrder, InHand
  <2>8. \A j \in DOMAIN ran' : j = Len(ran) + 1 \/ j \in DOMAIN ran
    BY <2>4
  <2>9. Ascending(ran')
    <3> SUFFICES ASSUME NEW i \in DOMAIN ran', NEW j \in DOMAIN ran', i < j
                 PROVE  ran'[i].id < ran'[j].id
      BY DEF Ascending
    <3>1. i \in DOMAIN ran
      BY <2>4
    <3>2. CASE j = Len(ran) + 1
      BY <2>4, <2>7, <3>1, <3>2
    <3>3. CASE j \in DOMAIN ran
      BY <1>0, <2>4, <3>1, <3>3 DEF ChannelOrder, Ascending
    <3> QED
      BY <2>8, <3>2, <3>3
  <2>10. \A j \in DOMAIN ran' : ran'[j].id <= offered
    BY <1>0, <2>4, <2>7, <2>8 DEF ChannelOrder
  <2>11. \A i \in DOMAIN queue : \A j \in DOMAIN ran' : ran'[j].id < queue[i].id
    BY <1>0, <2>4, <2>7, <2>8 DEF ChannelOrder
  <2>12. lock # Channel!Nobody => \A j \in DOMAIN ran' : ran'[j].id < item.id
    BY <1>0, <2>4, <2>7, <2>8 DEF ChannelOrder
  <2>13. ~InHand'
    BY <2>3 DEF InHand
  <2>14. ChannelOrder'
    BY <1>0, <2>1, <2>9, <2>10, <2>11, <2>12, <2>13 DEF ChannelOrder
  <2> QED
    BY <1>0, <2>1, <2>5, <2>6, <2>14 DEF ChannelCore
<1>4. CASE Channel!Return
  <2>1. /\ main.pc = "running" /\ lock # "main" /\ bytes' = bytes
        /\ lock' = lock /\ queue' = queue /\ failed' = failed /\ state' = state
        /\ world' = world /\ refused' = refused /\ item' = item /\ offered' = offered /\ ran' = ran
    BY <1>4 DEF Channel!Return
  <2>2. PICK pc \in {"pop", "out"} : main' = [main EXCEPT !.pc = pc, !.item = Channel!NoItem]
    BY <1>4 DEF Channel!Return
  <2>3. main' \in [pc : DrainStages, item : Callbacks, timed : BOOLEAN] /\ main'.pc \in {"pop", "out"}
    BY <1>0, <2>2, NoItemCallback DEF DrainStages
  <2>4. ChannelTypes'
    BY <1>0, <2>1, <2>3 DEF ChannelTypes
  <2>5. ChannelBytes'
    BY <1>0, <2>1, <2>3 DEF ChannelBytes, Channel!BytesExact, Channel!Unreleased
  <2>6. ChannelOrder'
    BY <1>0, <2>1, <2>3 DEF ChannelOrder, Ascending, InHand
  <2> QED
    BY <1>0, <2>1, <2>4, <2>5, <2>6 DEF ChannelCore
<1> QED
  BY <1>1, <1>2, <1>3, <1>4

\* Numbers are numbers.
LEMMA IdsNatural ==
  ASSUME ChannelTypes
  PROVE  /\ \A j \in DOMAIN ran : ran[j].id \in Nat
         /\ \A i \in DOMAIN queue : queue[i].id \in Nat
         /\ main.item.id \in Nat
<1>1. ran \in Seq(Callbacks) /\ queue \in Seq(Callbacks)
      /\ main \in [pc : DrainStages, item : Callbacks, timed : BOOLEAN]
  BY DEF ChannelTypes
<1>2. \A x \in Callbacks : x.id \in Nat
  BY DEF Callbacks
<1>3. ASSUME NEW q \in Seq(Callbacks), NEW j \in DOMAIN q PROVE q[j] \in Callbacks
  OBVIOUS
<1>4. main.item \in Callbacks
  BY <1>1
<1> QED
  BY <1>1, <1>2, <1>3, <1>4

\* The producers.
LEMMA RefuseKeeps ==
  ASSUME ChannelCore,
         \/ \E p \in Channel!Producers : Channel!RefuseClosed(p)
         \/ \E p \in Channel!Producers, size \in Sizes : Channel!RefuseFull(p, size)
  PROVE  ChannelCore'
<1>0. ChannelTypes /\ ChannelBytes /\ ChannelOrder
  BY DEF ChannelCore
<1>1. /\ bytes' = bytes /\ lock' = lock /\ lock = Channel!Nobody /\ queue' = queue /\ state' = state
      /\ world' = world /\ item' = item /\ ran' = ran /\ main' = main /\ offered' = offered + 1
  BY DEF Channel!RefuseClosed, Channel!RefuseFull, Channel!MayOffer
<1>2. failed' \in BOOLEAN /\ refused' \in BOOLEAN
  <2>1. failed \in BOOLEAN /\ refused \in BOOLEAN
    BY <1>0 DEF ChannelTypes
  <2>2. (failed' = failed /\ refused' = refused) \/ (failed' = TRUE /\ refused' = TRUE)
    BY DEF Channel!RefuseClosed, Channel!RefuseFull
  <2> QED
    BY <2>1, <2>2
<1>3. offered' \in Nat /\ offered \in Nat
  BY <1>0, <1>1 DEF ChannelTypes
<1>4. ChannelTypes'
  BY <1>0, <1>1, <1>2, <1>3 DEF ChannelTypes
<1>5. ChannelBytes'
  BY <1>0, <1>1 DEF ChannelBytes, Channel!BytesExact, Channel!Unreleased
<1>6. /\ \A j \in DOMAIN ran : ran[j].id <= offered + 1
      /\ \A i \in DOMAIN queue : queue[i].id <= offered + 1
      /\ InHand => main.item.id <= offered + 1
  <2>1. /\ \A j \in DOMAIN ran : ran[j].id \in Nat
        /\ \A i \in DOMAIN queue : queue[i].id \in Nat
        /\ main.item.id \in Nat
    BY <1>0, IdsNatural
  <2> QED
    BY <1>0, <1>3, <2>1 DEF ChannelOrder
<1>7. ChannelOrder'
  BY <1>0, <1>1, <1>6 DEF ChannelOrder, InHand
<1> QED
  BY <1>4, <1>5, <1>7 DEF ChannelCore

\* A producer that reserves: there is room for the callback and its bytes.
LEMMA ReserveKeeps ==
  ASSUME Channel!ChannelAssumption, ChannelCore, NEW p \in Channel!Producers, NEW size \in Sizes,
         Channel!Reserve(p, size)
  PROVE  ChannelCore'
<1>0. ChannelTypes /\ ChannelBytes /\ ChannelOrder
  BY DEF ChannelCore
<1>1. /\ lock = Channel!Nobody /\ lock' = p /\ bytes' = bytes + size /\ queue' = queue /\ state' = state
      /\ world' = world /\ ran' = ran /\ main' = main /\ offered' = offered + 1
      /\ item' = [id |-> offered + 1, size |-> size, world |-> world]
      /\ failed' = failed /\ refused' = refused /\ ~Channel!Full(size)
      /\ (p = "main" => main.pc = "running")
  BY DEF Channel!Reserve, Channel!MayOffer
<1>2. MaxItems \in Nat /\ MaxBytes \in Nat /\ size \in Nat \ {0} /\ p # Channel!Nobody
  BY DEF Channel!ChannelAssumption, Channel!Producers, Channel!Nobody
<1>3. /\ bytes \in Nat /\ offered \in Nat /\ world \in Nat /\ main.item \in Callbacks
      /\ Channel!SizeOf(queue) \in Nat /\ Len(queue) \in Nat
  BY <1>0, SizeOfNatural DEF ChannelTypes
<1>4. item' \in Callbacks /\ item'.size = size /\ item'.id = offered + 1 /\ item'.world = world
  BY <1>1, <1>2, <1>3 DEF Callbacks
<1>5. ChannelTypes'
  BY <1>0, <1>1, <1>2, <1>3, <1>4 DEF ChannelTypes
<1>6. item.size = 0
  BY <1>0, <1>1, NoItemCallback DEF ChannelBytes
<1>7. Len(queue) < MaxItems /\ size <= Channel!Minus(MaxBytes, bytes)
  <2>1. ~(Len(queue) >= MaxItems) /\ ~(size > Channel!Minus(MaxBytes, bytes))
    BY <1>1 DEF Channel!Full
  <2>2. Channel!Minus(MaxBytes, bytes) \in Nat
    BY <1>2, <1>3 DEF Channel!Minus
  <2> QED
    BY <1>2, <1>3, <2>1, <2>2
<1>8. bytes' <= MaxBytes
  BY <1>1, <1>2, <1>3, <1>7 DEF Channel!Minus
<1>9. Channel!BytesExact'
  <2>1. main.item.size \in Nat
    BY <1>3 DEF Callbacks
  <2>2. bytes = Channel!SizeOf(queue) + 0 + (IF Channel!Unreleased THEN main.item.size ELSE 0)
    BY <1>0, <1>6 DEF ChannelBytes, Channel!BytesExact, Channel!Unreleased
  <2>3. bytes + size = Channel!SizeOf(queue) + size + (IF Channel!Unreleased THEN main.item.size ELSE 0)
    BY <1>2, <1>3, <2>1, <2>2
  <2> QED
    BY <1>1, <1>4, <2>3 DEF Channel!BytesExact, Channel!Unreleased
<1>10. ChannelBytes'
  BY <1>1, <1>2, <1>3, <1>7, <1>8, <1>9 DEF ChannelBytes
<1>11. /\ \A j \in DOMAIN ran : ran[j].id < offered + 1 /\ ran[j].id <= offered + 1
       /\ \A i \in DOMAIN queue : queue[i].id < offered + 1 /\ queue[i].id <= offered + 1
       /\ InHand => main.item.id < offered + 1 /\ main.item.id <= offered + 1
  <2>1. /\ \A j \in DOMAIN ran : ran[j].id \in Nat
        /\ \A i \in DOMAIN queue : queue[i].id \in Nat
        /\ main.item.id \in Nat
    BY <1>0, IdsNatural
  <2> QED
    BY <1>0, <1>3, <2>1 DEF ChannelOrder
<1>12. ChannelOrder'
  BY <1>0, <1>1, <1>3, <1>4, <1>11 DEF ChannelOrder, InHand
<1> QED
  BY <1>0, <1>1, <1>5, <1>10, <1>12 DEF ChannelCore

\* A producer that sends what it has reserved for.
LEMMA SendKeeps ==
  ASSUME Channel!ChannelAssumption, ChannelCore, NEW p \in Channel!Producers, Channel!Send(p)
  PROVE  ChannelCore'
<1>0. ChannelTypes /\ ChannelBytes /\ ChannelOrder
  BY DEF ChannelCore
<1>1. /\ lock = p /\ lock' = Channel!Nobody /\ bytes' = bytes /\ queue' = Append(queue, item)
      /\ state' = state /\ world' = world /\ ran' = ran /\ main' = main /\ offered' = offered
      /\ item' = Channel!NoItem /\ failed' = failed /\ refused' = refused
  BY DEF Channel!Send
<1>2. p # Channel!Nobody /\ MaxItems \in Nat
  BY DEF Channel!ChannelAssumption, Channel!Producers, Channel!Nobody
<1>3. /\ item \in Callbacks /\ queue' \in Seq(Callbacks) /\ Len(queue) \in Nat
      /\ Len(queue') = Len(queue) + 1
      /\ DOMAIN queue = 1..Len(queue) /\ DOMAIN queue' = 1..(Len(queue) + 1)
      /\ queue'[Len(queue) + 1] = item /\ \A i \in DOMAIN queue : queue'[i] = queue[i]
  BY <1>0, <1>1 DEF ChannelTypes
<1>4. ChannelTypes'
  BY <1>0, <1>1, <1>3, NoItemCallback DEF ChannelTypes
<1>5. Channel!SizeOf(queue') = Channel!SizeOf(queue) + item.size
      /\ Channel!SizeOf(queue) \in Nat /\ item.size \in Nat
  BY <1>0, <1>1, <1>3, SizeOfAppend, SizeOfNatural DEF ChannelTypes, Callbacks
<1>6. Channel!BytesExact'
  <2>1. bytes = Channel!SizeOf(queue) + item.size + (IF Channel!Unreleased THEN main.item.size ELSE 0)
    BY <1>0 DEF ChannelBytes, Channel!BytesExact, Channel!Unreleased
  <2>2. Channel!SizeOf(queue') + 0 = Channel!SizeOf(queue) + item.size
    BY <1>5
  <2> QED
    BY <1>1, <2>1, <2>2, NoItemCallback DEF Channel!BytesExact, Channel!Unreleased
<1>7. ChannelBytes'
  <2>1. Channel!Nobody # "main"
    BY DEF Channel!Nobody
  <2>2. Len(queue) + 1 <= MaxItems /\ bytes <= MaxBytes
    BY <1>0, <1>1, <1>2 DEF ChannelBytes
  <2> QED
    BY <1>1, <1>2, <1>3, <1>6, <2>1, <2>2 DEF ChannelBytes
<1>8. \A i \in DOMAIN queue' : i = Len(queue) + 1 \/ i \in DOMAIN queue
  BY <1>3
<1>9. /\ item.world = world /\ item.id <= offered
      /\ \A j \in DOMAIN ran : ran[j].id < item.id
      /\ \A i \in DOMAIN queue : queue[i].id < item.id
      /\ InHand => main.item.id < item.id
  BY <1>0, <1>1, <1>2 DEF ChannelOrder
<1>10. Ascending(queue')
  <2> SUFFICES ASSUME NEW i \in DOMAIN queue', NEW j \in DOMAIN queue', i < j
               PROVE  queue'[i].id < queue'[j].id
    BY DEF Ascending
  <2>1. i \in DOMAIN queue
    BY <1>3
  <2>2. CASE j = Len(queue) + 1
    BY <1>3, <1>9, <2>1, <2>2
  <2>3. CASE j \in DOMAIN queue
    BY <1>0, <1>3, <2>1, <2>3 DEF ChannelOrder, Ascending
  <2> QED
    BY <1>8, <2>2, <2>3
<1>11. \A i \in DOMAIN queue' :
         /\ queue'[i].world = world /\ queue'[i].id <= offered
         /\ \A j \in DOMAIN ran : ran[j].id < queue'[i].id
  BY <1>0, <1>3, <1>8, <1>9 DEF ChannelOrder
<1>12. InHand => \A i \in DOMAIN queue' : main.item.id < queue'[i].id
  BY <1>0, <1>3, <1>8, <1>9 DEF ChannelOrder
<1>13. ChannelOrder'
  BY <1>0, <1>1, <1>10, <1>11, <1>12 DEF ChannelOrder, InHand
<1> QED
  BY <1>0, <1>1, <1>4, <1>7, <1>13 DEF ChannelCore

\* No callback passes the latch after an overflow.
LEMMA LateKept ==
  ASSUME ChannelInv, [Channel!Next]_(Channel!vars)
  PROVE  ChannelLate'
<1>0. ChannelLate
  BY DEF ChannelInv
<1>1. ASSUME late' = late, refused' = refused, failed' = failed, Passed' => Passed
      PROVE  ChannelLate'
  BY <1>0, <1>1 DEF ChannelLate
<1>2. CASE Channel!Begin
  BY <1>2 DEF Channel!Begin, ChannelLate
<1>3. CASE \E p \in Channel!Producers, size \in Sizes : Channel!RefuseFull(p, size)
  <2>1. refused' = TRUE /\ failed' = TRUE /\ late' = late /\ main' = main
    BY <1>3 DEF Channel!RefuseFull
  <2> QED
    BY <1>0, <2>1 DEF ChannelLate, Passed
<1>4. CASE Channel!Start
  <2>1. Passed /\ main' = [main EXCEPT !.pc = "running"] /\ refused' = refused /\ failed' = failed
        /\ late' = IF refused THEN late + 1 ELSE late
    BY <1>4 DEF Channel!Start, Passed
  <2>2. ~Passed'
    BY <2>1 DEF Passed, ChannelInv, ChannelCore, ChannelTypes
  <2>3. late = 0
    BY <1>0, <2>1 DEF ChannelLate
  <2> QED
    BY <1>0, <2>1, <2>2, <2>3 DEF ChannelLate
<1>5. CASE Channel!Look
  <2>1. late' = late /\ refused' = refused /\ failed' = failed
    BY <1>5 DEF Channel!Look
  <2>2. CASE failed
    <3>1. main' = [main EXCEPT !.pc = "dropped"]
          \/ main' = [main EXCEPT !.pc = "out", !.item = Channel!NoItem]
      BY <1>5, <2>2 DEF Channel!Look
    <3>2. ~Passed'
      BY <3>1 DEF Passed, ChannelInv, ChannelCore, ChannelTypes
    <3> QED
      BY <1>1, <2>1, <3>2
  <2>3. CASE ~failed
    BY <1>0, <2>1, <2>3 DEF ChannelLate
  <2> QED
    BY <2>2, <2>3
<1>6. CASE Channel!Release
  <2>1. late' = late /\ refused' = refused /\ failed' = failed
    BY <1>6 DEF Channel!Release
  <2>2. CASE main.pc = "passed"
    BY <1>1, <2>1, <2>2 DEF Passed
  <2>3. CASE main.pc # "passed"
    <3>1. main' = [main EXCEPT !.pc = "released"]
          \/ main' = [main EXCEPT !.pc = "out", !.item = Channel!NoItem]
      BY <1>6, <2>3 DEF Channel!Release
    <3>2. ~Passed'
      BY <3>1 DEF Passed, ChannelInv, ChannelCore, ChannelTypes
    <3> QED
      BY <1>1, <2>1, <3>2
  <2> QED
    BY <2>2, <2>3
<1>7. CASE \/ \E timed \in BOOLEAN : Channel!Hook(timed)
           \/ Channel!Pop \/ Channel!Return
  <2>1. late' = late /\ refused' = refused /\ failed' = failed
    BY <1>7 DEF Channel!Hook, Channel!Pop, Channel!Return
  <2>2. ~Passed'
    <3>0. main \in [pc : DrainStages, item : Callbacks, timed : BOOLEAN]
      BY DEF ChannelInv, ChannelCore, ChannelTypes
    <3>1. main'.pc \in {"pop", "out", "popped"}
      <4>1. CASE \E timed \in BOOLEAN : Channel!Hook(timed)
        BY <4>1 DEF Channel!Hook
      <4>2. CASE Channel!Pop
        BY <3>0, <4>2 DEF Channel!Pop
      <4>3. CASE Channel!Return
        BY <3>0, <4>3 DEF Channel!Return
      <4> QED
        BY <1>7, <4>1, <4>2, <4>3
    <3> QED
      BY <3>1 DEF Passed
  <2> QED
    BY <1>1, <2>1, <2>2
<1>8. CASE \/ Channel!Clean
           \/ \E p \in Channel!Producers : Channel!RefuseClosed(p) \/ Channel!Send(p)
           \/ \E p \in Channel!Producers, size \in Sizes : Channel!Reserve(p, size)
           \/ UNCHANGED Channel!vars
  <2>1. late' = late /\ refused' = refused /\ failed' = failed /\ main' = main
    BY <1>8 DEF Channel!Clean, Channel!RefuseClosed, Channel!Send, Channel!Reserve, Channel!vars
  <2> QED
    BY <1>1, <2>1 DEF Passed
<1> QED
  BY <1>2, <1>3, <1>4, <1>5, <1>6, <1>7, <1>8 DEF Channel!Next

\* Every step of the channel keeps the invariant.
LEMMA ChannelKept ==
  ASSUME Channel!ChannelAssumption, ChannelInv, [Channel!Next]_(Channel!vars)
  PROVE  ChannelInv'
<1>1. ChannelCore /\ ChannelLate'
  BY LateKept DEF ChannelInv
<1>2. ChannelCore'
  <2>1. CASE UNCHANGED Channel!vars
    <3>1. /\ bytes' = bytes /\ lock' = lock /\ queue' = queue /\ state' = state
          /\ world' = world /\ ran' = ran /\ main' = main /\ offered' = offered
          /\ item' = item /\ failed' = failed /\ refused' = refused
      BY <2>1 DEF Channel!vars
    <3> QED
      BY <1>1, <3>1 DEF ChannelCore, ChannelTypes, ChannelBytes, ChannelOrder,
         Channel!BytesExact, Channel!Unreleased, InHand
  <2> QED
    BY <1>1, <2>1, WorldKeeps, PopKeeps, DrainKeepsOn, RefuseKeeps, ReserveKeeps, SendKeeps
       DEF Channel!Next
<1> QED
  BY <1>1, <1>2 DEF ChannelInv

\* The limits hold, callbacks keep their order and an overflow stays fatal.
LEMMA ChannelSafe ==
  ASSUME Channel!ChannelAssumption, ChannelInv
  PROVE  /\ Channel!BytesExact /\ Channel!Bounded
         /\ Channel!RunInOrder /\ Channel!FatalLatched
<1>0. ChannelTypes /\ ChannelBytes /\ ChannelOrder /\ ChannelLate
  BY DEF ChannelInv, ChannelCore
<1>1. Channel!Bounded
  <2>1. Channel!SizeOf(queue) \in Nat /\ item.size \in Nat /\ main.item.size \in Nat
    BY <1>0, SizeOfNatural DEF ChannelTypes, Callbacks
  <2>2. Channel!SizeOf(queue) + item.size <= bytes
    BY <1>0, <2>1 DEF ChannelBytes, Channel!BytesExact
  <2>3. MaxBytes \in Nat /\ bytes \in Nat /\ bytes <= MaxBytes
        /\ Len(queue) + (IF lock = Channel!Nobody THEN 0 ELSE 1) <= MaxItems
    BY <1>0 DEF Channel!ChannelAssumption, ChannelBytes, ChannelTypes
  <2>4. Channel!SizeOf(queue) + item.size <= MaxBytes
    BY <2>1, <2>2, <2>3
  <2> QED
    BY <2>3, <2>4 DEF Channel!Bounded
<1>2. Channel!RunInOrder
  BY <1>0 DEF Channel!RunInOrder, ChannelOrder, Ascending
<1>3. Channel!FatalLatched
  BY <1>0 DEF Channel!FatalLatched, ChannelLate
<1> QED
  BY <1>0, <1>1, <1>2, <1>3 DEF ChannelBytes

\* The run composes the channel with parts that share none of its variables.
LEMMA ChannelPart == MCSpec => Channel!Init /\ [][Channel!Next]_(Channel!vars)
<1>1. MCInit => Channel!Init
  BY DEF MCInit
<1>2. [MCNext]_allVars => [Channel!Next]_(Channel!vars)
  BY DEF MCNext, HeatNext, LocksNext, SlotsNext, ChannelNext, allVars, channelVars, Channel!vars
<1> QED
  BY <1>1, <1>2, PTL DEF MCSpec

\* The queue of callbacks keeps its types, its accounts, its limits and its order, for any
\* producers, sizes and limits.
THEOREM ChannelInvariant == MCSpec => []ChannelInv
<1>1. Channel!ChannelAssumption
  BY PartsConstants
<1>2. Channel!Init => ChannelInv
  <2>1. Channel!Init => ChannelLate
    BY DEF ChannelLate, Channel!Init, Passed
  <2> QED
    BY <1>1, <2>1, ChannelInitial DEF ChannelInv
<1>3. ChannelInv /\ [Channel!Next]_(Channel!vars) => ChannelInv'
  BY <1>1, ChannelKept
<1> QED
  BY <1>2, <1>3, ChannelPart, PTL

\* No order of sends, pops, teardowns and restarts loses or doubles accounted bytes, the two
\* limits hold at every moment, callbacks run once, in order and in the world that queued
\* them, and once one has been refused for want of room at most the one that the drain had
\* already passed is started.
THEOREM ChannelTheorem == MCSpec => []ChannelSound
<1>1. ChannelInv => ChannelSound
  BY ChannelSafe, PartsConstants DEF ChannelSound
<1> QED
  BY <1>1, ChannelInvariant, PTL
=============================================================================
