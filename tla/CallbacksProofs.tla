-------------------------- MODULE CallbacksProofs ---------------------------
(***************************************************************************)
(* Proofs about the callbacks, for all bounds and for clients of both      *)
(* kinds.  First the core's reaction continuations: the slot table, one    *)
(* lemma per operation on it, and the actions of the world, which then only*)
(* say which continuation they add and which they remove.  Then the queues *)
(* of dogmosd: what retaining, cutting and counting do, what a published   *)
(* batch is, the books of the service, which hold with any client; last the*)
(* agreement of service and core, as long as no client re-registers a slot *)
(* that is registered.                                                     *)
(***************************************************************************)
EXTENDS Callbacks, FiniteSetTheorems, SequenceTheorems, WellFoundedInduction, TLAPS

SlotRecord == [generation : 1..MaxGeneration, held : Continuation \cup {None}]

TableType ==
  /\ slots \in Seq(SlotRecord)
  /\ free \in Seq(Nat)
  /\ issued \in SUBSET (Nat \X (1..MaxGeneration))

\* A token that was handed out names a slot that has reached its generation.
IssuedReached ==
  \A token \in issued : /\ token[1] \in DOMAIN slots
                        /\ token[2] <= slots[token[1]].generation

TableInv == TableType /\ FreeListSound /\ IssuedReached

\* What a step leaves suspended was suspended in the same slot before, or is c.
OnlyAdds(c) ==
  \A s \in DOMAIN slots' : slots'[s].held # None =>
    \/ slots'[s].held = c
    \/ s \in DOMAIN slots /\ slots'[s].held = slots[s].held

\* Dead tokens stay dead.
DeadStayDead == \A token \in issued : ~TokenLive(token) => ~TokenLive(token)'

(***************************************************************************)
(* Stacks                                                                  *)
(***************************************************************************)

\* Popping a stack removes its last entry and nothing else.
LEMMA PoppedFacts ==
  ASSUME NEW S, NEW list \in Seq(S), list # <<>>
  PROVE  /\ Len(list) \in Nat \ {0}
         /\ Len(list) \in DOMAIN list
         /\ Last(list) \in S
         /\ Popped(list) \in Seq(S)
         /\ Len(Popped(list)) = Len(list) - 1
         /\ DOMAIN Popped(list) = 1..(Len(list) - 1)
         /\ \A i \in 1..(Len(list) - 1) : Popped(list)[i] = list[i]
<1>1. Len(list) \in Nat \ {0} /\ DOMAIN list = 1..Len(list)
  BY EmptySeq, LenProperties
<1>2. \A i \in 1..Len(list) : list[i] \in S
  BY ElementOfSeq
<1>3. /\ Popped(list) \in Seq(S)
      /\ Len(Popped(list)) = Len(list) - 1
      /\ \A i \in 1..(Len(list) - 1) : Popped(list)[i] = list[i]
  BY <1>1, SubSeqProperties, <1>2 DEF Popped
<1> QED
  BY <1>1, <1>2, <1>3, LenProperties DEF Last

\* Pushing on a stack adds its last entry and nothing else.
LEMMA PushedFacts ==
  ASSUME NEW S, NEW list \in Seq(S), NEW x \in S
  PROVE  /\ Len(list) \in Nat
         /\ DOMAIN list = 1..Len(list)
         /\ Append(list, x) \in Seq(S)
         /\ Len(Append(list, x)) = Len(list) + 1
         /\ DOMAIN Append(list, x) = 1..(Len(list) + 1)
         /\ \A i \in 1..Len(list) : Append(list, x)[i] = list[i]
         /\ Append(list, x)[Len(list) + 1] = x
  BY AppendProperties, LenProperties

\* Writing one slot keeps the table a table.
LEMMA WrittenFacts ==
  ASSUME NEW table \in Seq(SlotRecord), NEW s \in DOMAIN table, NEW r \in SlotRecord
  PROVE  LET new == [table EXCEPT ![s] = r] IN
         /\ new \in Seq(SlotRecord)
         /\ DOMAIN new = DOMAIN table
         /\ new[s] = r
         /\ \A u \in DOMAIN table : u # s => new[u] = table[u]
<1>1. DOMAIN table = 1..Len(table) /\ Len(table) \in Nat
  BY LenProperties
<1>2. \A u \in DOMAIN table : table[u] \in SlotRecord
  BY <1>1, ElementOfSeq
<1>3. [table EXCEPT ![s] = r] \in [1..Len(table) -> SlotRecord]
  BY <1>1, <1>2
<1> QED
  BY <1>1, <1>3, SeqDef

\* The fields of a slot.
LEMMA SlotFacts ==
  ASSUME TableType, NEW s \in DOMAIN slots
  PROVE  /\ s \in Nat
         /\ slots[s] \in SlotRecord
         /\ slots[s].generation \in Nat
         /\ slots[s].generation \in 1..MaxGeneration
         /\ slots[s].held \in Continuation \cup {None}
         /\ slots[s] = [generation |-> slots[s].generation, held |-> slots[s].held]
<1>1. s \in 1..Len(slots) /\ Len(slots) \in Nat
  BY LenProperties DEF TableType
<1>2. slots[s] \in SlotRecord
  BY <1>1, ElementOfSeq DEF TableType
<1> QED
  BY <1>1, <1>2, BoundsAssumption DEF SlotRecord

(***************************************************************************)
(* The slot table                                                          *)
(***************************************************************************)

\* allocate_continuation: a reused slot leaves the free stack with a generation no
\* token has had; a fresh slot is new.
LEMMA AllocateStep ==
  ASSUME TableInv, NEW c \in Continuation, AllocateContinuation(c)
  PROVE  TableInv' /\ OnlyAdds(c) /\ DeadStayDead
<1>1. CASE free # <<>>
  <2> DEFINE s == Last(free)
             r == [generation |-> slots[s].generation + 1, held |-> c]
  <2>1. /\ s \in DOMAIN slots
        /\ slots[s].held = None
        /\ slots[s].generation < MaxGeneration
        /\ \A i \in 1..(Len(free) - 1) : free[i] # s
    <3>1. Len(free) \in Nat \ {0} /\ DOMAIN free = 1..Len(free)
      BY <1>1, PoppedFacts, LenProperties DEF TableInv, TableType
    <3>2. s \in DOMAIN slots /\ slots[s].held = None
      BY <3>1 DEF TableInv, FreeListSound, Last
    <3>3. slots[s].generation < MaxGeneration
      BY <1>1 DEF AllocateContinuation, CanAllocate
    <3>4. \A i \in 1..(Len(free) - 1) : free[i] # s
      BY <3>1 DEF TableInv, FreeListSound, Last
    <3> QED
      BY <3>2, <3>3, <3>4
  <2>2. r \in SlotRecord
    BY <2>1, SlotFacts, BoundsAssumption DEF SlotRecord, TableInv
  <2>3. slots' = [slots EXCEPT ![s] = r] /\ free' = Popped(free)
        /\ issued' = issued \cup {<<s, slots[s].generation + 1>>}
    BY <1>1 DEF AllocateContinuation, NextToken
  <2>4. /\ slots' \in Seq(SlotRecord)
        /\ DOMAIN slots' = DOMAIN slots
        /\ slots'[s] = r
        /\ \A u \in DOMAIN slots : u # s => slots'[u] = slots[u]
    BY <2>1, <2>2, <2>3, WrittenFacts DEF TableInv, TableType
  <2>5. TableType'
    <3>1. s \in Nat /\ slots[s].generation + 1 \in 1..MaxGeneration
      BY <2>1, SlotFacts, BoundsAssumption DEF TableInv
    <3>2. issued' \in SUBSET (Nat \X (1..MaxGeneration))
      BY <3>1, <2>3 DEF TableInv, TableType
    <3>3. free' \in Seq(Nat)
      BY <1>1, <2>3, PoppedFacts DEF TableInv, TableType
    <3> QED
      BY <3>2, <3>3, <2>4 DEF TableType
  <2>6. FreeListSound'
    <3>1. /\ Len(free) \in Nat
          /\ DOMAIN free = 1..Len(free)
          /\ DOMAIN free' = 1..(Len(free) - 1)
          /\ \A i \in 1..(Len(free) - 1) : free'[i] = free[i]
      BY <1>1, <2>3, PoppedFacts, LenProperties DEF TableInv, TableType
    <3>2. \A i \in DOMAIN free' : free'[i] \in DOMAIN slots' /\ slots'[free'[i]].held = None
      BY <3>1, <2>1, <2>4 DEF TableInv, FreeListSound
    <3>3. \A i, j \in DOMAIN free' : free'[i] = free'[j] => i = j
      BY <3>1 DEF TableInv, FreeListSound
    <3> QED
      BY <3>2, <3>3 DEF FreeListSound
  <2>7. IssuedReached'
    <3> SUFFICES ASSUME NEW token \in issued'
                 PROVE  token[1] \in DOMAIN slots' /\ token[2] <= slots'[token[1]].generation
      BY DEF IssuedReached
    <3>1. CASE token \in issued
      <4>1. /\ token[1] \in DOMAIN slots
            /\ token[2] <= slots[token[1]].generation
            /\ token[2] \in Nat
        BY <3>1, BoundsAssumption DEF TableInv, TableType, IssuedReached
      <4> QED
        BY <4>1, <2>1, <2>4, SlotFacts DEF TableInv
    <3>2. CASE token = <<s, slots[s].generation + 1>>
      BY <3>2, <2>1, <2>4, SlotFacts DEF TableInv
    <3> QED
      BY <3>1, <3>2, <2>3
  <2>8. OnlyAdds(c)
    BY <2>4 DEF OnlyAdds
  <2>9. DeadStayDead
    <3> SUFFICES ASSUME NEW token \in issued, ~TokenLive(token), TokenLive(token)'
                 PROVE  FALSE
      BY DEF DeadStayDead
    <3>1. /\ token[1] \in DOMAIN slots
          /\ token[2] <= slots[token[1]].generation
          /\ token[2] \in Nat
      BY BoundsAssumption DEF TableInv, TableType, IssuedReached
    <3>2. CASE token[1] = s
      BY <3>1, <3>2, <2>1, <2>4, SlotFacts DEF TokenLive, TableInv
    <3>3. CASE token[1] # s
      BY <3>1, <3>3, <2>4 DEF TokenLive
    <3> QED
      BY <3>2, <3>3
  <2> QED
    BY <2>5, <2>6, <2>7, <2>8, <2>9 DEF TableInv
<1>2. CASE free = <<>>
  <2> DEFINE r == [generation |-> 1, held |-> c]
  <2>1. r \in SlotRecord
    BY BoundsAssumption DEF SlotRecord
  <2>2. slots' = Append(slots, r) /\ free' = free /\ issued' = issued \cup {<<Len(slots) + 1, 1>>}
    BY <1>2 DEF AllocateContinuation, NextToken
  <2>3. /\ Len(slots) \in Nat
        /\ DOMAIN slots = 1..Len(slots)
        /\ slots' \in Seq(SlotRecord)
        /\ DOMAIN slots' = 1..(Len(slots) + 1)
        /\ \A u \in DOMAIN slots : slots'[u] = slots[u]
        /\ slots'[Len(slots) + 1] = r
    BY <2>1, <2>2, PushedFacts DEF TableInv, TableType
  <2>4. TableType'
    BY <2>2, <2>3, BoundsAssumption DEF TableInv, TableType
  <2>5. FreeListSound'
    BY <1>2, <2>2 DEF FreeListSound
  <2>6. IssuedReached'
    BY <2>2, <2>3 DEF IssuedReached, TableInv
  <2>7. OnlyAdds(c)
    BY <2>3 DEF OnlyAdds
  <2>8. DeadStayDead
    BY <2>3 DEF DeadStayDead, TokenLive, IssuedReached, TableInv
  <2> QED
    BY <2>4, <2>5, <2>6, <2>7, <2>8 DEF TableInv
<1> QED
  BY <1>1, <1>2

\* A step that leaves the table alone.
LEMMA IdleStep ==
  ASSUME TableInv, UNCHANGED <<slots, free, issued>>
  PROVE  TableInv' /\ OnlyAdds(None) /\ DeadStayDead
<1>1. TableType' /\ FreeListSound' /\ IssuedReached'
  BY DEF TableInv, TableType, FreeListSound, IssuedReached
<1> QED
  BY <1>1 DEF TableInv, OnlyAdds, DeadStayDead, TokenLive

\* The overflowing slot only leaves the free stack.
LEMMA OverflowStep ==
  ASSUME TableInv, AllocationOverflow
  PROVE  TableInv' /\ OnlyAdds(None) /\ DeadStayDead
<1>1. slots' = slots /\ issued' = issued /\ free' = Popped(free) /\ free # <<>>
  BY DEF AllocationOverflow
<1>2. /\ Len(free) \in Nat
      /\ DOMAIN free = 1..Len(free)
      /\ free' \in Seq(Nat)
      /\ DOMAIN free' = 1..(Len(free) - 1)
      /\ \A i \in 1..(Len(free) - 1) : free'[i] = free[i]
  BY <1>1, PoppedFacts, LenProperties DEF TableInv, TableType
<1>3. TableType'
  BY <1>1, <1>2 DEF TableInv, TableType
<1>4. FreeListSound'
  BY <1>1, <1>2 DEF TableInv, FreeListSound
<1>5. IssuedReached'
  BY <1>1 DEF TableInv, IssuedReached
<1> QED
  BY <1>1, <1>3, <1>4, <1>5 DEF TableInv, OnlyAdds, DeadStayDead, TokenLive

\* complete_continuation frees a slot that was in use, so it is not free already.
LEMMA CompleteStep ==
  ASSUME TableInv, NEW token \in issued, CompleteContinuation(token)
  PROVE  TableInv' /\ OnlyAdds(None) /\ DeadStayDead
<1> DEFINE s == token[1]
           r == [generation |-> slots[s].generation, held |-> None]
<1>1. s \in DOMAIN slots /\ slots[s].held # None
  BY DEF CompleteContinuation, TokenLive
<1>2. r \in SlotRecord
  BY <1>1, SlotFacts DEF SlotRecord, TableInv
<1>3. slots' = [slots EXCEPT ![s] = r] /\ free' = Append(free, s) /\ issued' = issued
  <2>1. [slots[s] EXCEPT !.held = None] = r
    <3>1. slots[s] \in SlotRecord
      BY <1>1, SlotFacts DEF TableInv
    <3> QED
      BY <3>1 DEF SlotRecord
  <2>2. slots' = [slots EXCEPT ![s] = [slots[s] EXCEPT !.held = None]]
    BY <1>1 DEF CompleteContinuation
  <2> QED
    BY <2>1, <2>2 DEF CompleteContinuation
<1>4. /\ slots' \in Seq(SlotRecord)
      /\ DOMAIN slots' = DOMAIN slots
      /\ slots'[s] = r
      /\ \A u \in DOMAIN slots : u # s => slots'[u] = slots[u]
  BY <1>1, <1>2, <1>3, WrittenFacts DEF TableInv, TableType
<1>5. /\ Len(free) \in Nat
      /\ DOMAIN free = 1..Len(free)
      /\ free' \in Seq(Nat)
      /\ DOMAIN free' = 1..(Len(free) + 1)
      /\ \A i \in 1..Len(free) : free'[i] = free[i]
      /\ free'[Len(free) + 1] = s
  BY <1>1, <1>3, PushedFacts, SlotFacts DEF TableInv, TableType
<1>6. TableType'
  BY <1>3, <1>4, <1>5 DEF TableInv, TableType
<1>7. FreeListSound'
  <2>1. \A i \in 1..Len(free) : free[i] # s
    BY <1>1, <1>5 DEF TableInv, FreeListSound
  <2>2. \A i \in DOMAIN free' : free'[i] \in DOMAIN slots' /\ slots'[free'[i]].held = None
    BY <1>1, <1>4, <1>5, <2>1 DEF TableInv, FreeListSound
  <2>3. \A i, j \in DOMAIN free' : free'[i] = free'[j] => i = j
    BY <1>5, <2>1 DEF TableInv, FreeListSound
  <2> QED
    BY <2>2, <2>3 DEF FreeListSound
<1>8. \A u \in DOMAIN slots : slots'[u].generation = slots[u].generation
  BY <1>4
<1>9. IssuedReached'
  BY <1>3, <1>4, <1>8 DEF TableInv, IssuedReached
<1>10. OnlyAdds(None)
  BY <1>1, <1>4 DEF OnlyAdds
<1>11. DeadStayDead
  BY <1>4, <1>8 DEF DeadStayDead, TokenLive
<1> QED
  BY <1>6, <1>7, <1>9, <1>10, <1>11 DEF TableInv

\* rotate_continuation moves a slot in use to a generation no token has had.
LEMMA RotateStep ==
  ASSUME TableInv, NEW token \in issued, RotateContinuation(token)
  PROVE  TableInv' /\ OnlyAdds(None) /\ DeadStayDead
<1> DEFINE s == token[1]
           r == [generation |-> slots[s].generation + 1, held |-> slots[s].held]
<1>1. /\ s \in DOMAIN slots
      /\ slots[s].held # None
      /\ slots[s].generation = token[2]
      /\ token[2] < MaxGeneration
  BY DEF RotateContinuation, TokenLive
<1>2. r \in SlotRecord /\ s \in Nat /\ slots[s].generation + 1 \in 1..MaxGeneration
  BY <1>1, SlotFacts, BoundsAssumption DEF SlotRecord, TableInv
<1>3. /\ slots' = [slots EXCEPT ![s] = r]
      /\ free' = free
      /\ issued' = issued \cup {<<s, slots[s].generation + 1>>}
  <2>1. [slots[s] EXCEPT !.generation = @ + 1] = r
    <3>1. slots[s] \in SlotRecord
      BY <1>1, SlotFacts DEF TableInv
    <3> QED
      BY <3>1 DEF SlotRecord
  <2>2. slots' = [slots EXCEPT ![s] = [slots[s] EXCEPT !.generation = @ + 1]]
    BY <1>1 DEF RotateContinuation
  <2> QED
    BY <1>1, <2>1, <2>2 DEF RotateContinuation
<1>4. /\ slots' \in Seq(SlotRecord)
      /\ DOMAIN slots' = DOMAIN slots
      /\ slots'[s] = r
      /\ \A u \in DOMAIN slots : u # s => slots'[u] = slots[u]
  BY <1>1, <1>2, <1>3, WrittenFacts DEF TableInv, TableType
<1>5. TableType'
  BY <1>2, <1>3, <1>4 DEF TableInv, TableType
<1>6. FreeListSound'
  BY <1>1, <1>3, <1>4 DEF TableInv, FreeListSound
<1>7. \A old \in issued : /\ old[1] \in DOMAIN slots
                          /\ old[2] <= slots[old[1]].generation
                          /\ old[2] \in Nat
                          /\ slots[old[1]].generation \in Nat
  BY SlotFacts, BoundsAssumption DEF TableInv, TableType, IssuedReached
<1>8. IssuedReached'
  <2>1. \A old \in issued : old[1] \in DOMAIN slots' /\ old[2] <= slots'[old[1]].generation
    BY <1>4, <1>7
  <2>2. slots[s].generation + 1 <= slots'[s].generation
    BY <1>2, <1>4
  <2> QED
    BY <1>1, <1>3, <1>4, <2>1, <2>2 DEF IssuedReached
<1>9. OnlyAdds(None)
  BY <1>4 DEF OnlyAdds
<1>10. DeadStayDead
  <2> SUFFICES ASSUME NEW old \in issued, ~TokenLive(old), TokenLive(old)'
               PROVE  FALSE
    BY DEF DeadStayDead
  <2>1. CASE old[1] = s
    BY <2>1, <1>1, <1>4, <1>7 DEF TokenLive
  <2>2. CASE old[1] # s
    BY <2>2, <1>4, <1>7 DEF TokenLive
  <2> QED
    BY <2>1, <2>2
<1> QED
  BY <1>5, <1>6, <1>8, <1>9, <1>10 DEF TableInv

\* list names every element of a finite set once, in some order.
Enumerates(list, set) ==
  /\ list \in [1..Cardinality(set) -> set]
  /\ \A i, j \in DOMAIN list : list[i] = list[j] => i = j

LEMMA EnumeratedFacts ==
  ASSUME NEW set \in SUBSET Nat, IsFiniteSet(set), NEW list, Enumerates(list, set)
  PROVE  /\ list \in Seq(Nat)
         /\ Len(list) = Cardinality(set)
         /\ Len(list) \in Nat
         /\ DOMAIN list = 1..Len(list)
         /\ \A i \in DOMAIN list : list[i] \in set
         /\ \A i, j \in DOMAIN list : list[i] = list[j] => i = j
<1>1. Cardinality(set) \in Nat
  BY FS_CardinalityType
<1>2. /\ list \in [1..Cardinality(set) -> set]
      /\ \A i, j \in DOMAIN list : list[i] = list[j] => i = j
  BY DEF Enumerates
<1>3. list \in Seq(Nat) /\ Len(list) = Cardinality(set)
  <2>1. list \in [1..Cardinality(set) -> Nat]
    BY <1>2
  <2> QED
    BY <1>1, <2>1
<1>4. DOMAIN list = 1..Cardinality(set) /\ \A i \in DOMAIN list : list[i] \in set
  BY <1>2
<1> QED
  BY <1>1, <1>2, <1>3, <1>4

\* The slots of a set in an order that rises: each once.
LEMMA RisingEnumerates ==
  ASSUME NEW n \in Nat, NEW key,
         \A i \in 1..n : key[i] \in Nat,
         \A i, j \in 1..n : i < j => key[i] < key[j]
  PROVE  \A i, j \in 1..n : key[i] = key[j] => i = j
<1> SUFFICES ASSUME NEW i \in 1..n, NEW j \in 1..n, key[i] = key[j], i # j
             PROVE  FALSE
  OBVIOUS
<1>1. CASE i < j
  BY <1>1
<1>2. CASE j < i
  BY <1>2
<1> QED
  BY <1>1, <1>2

LEMMA AscendingEnumerates ==
  ASSUME NEW set \in SUBSET Nat, IsFiniteSet(set), NEW list \in Ascending(set)
  PROVE  Enumerates(list, set)
<1>1. Cardinality(set) \in Nat
  BY FS_CardinalityType
<1>2. /\ list \in [1..Cardinality(set) -> set]
      /\ \A i, j \in DOMAIN list : i < j => list[i] < list[j]
  BY DEF Ascending
<1>3. DOMAIN list = 1..Cardinality(set) /\ \A i \in 1..Cardinality(set) : list[i] \in Nat
  BY <1>2
<1>4. \A i, j \in DOMAIN list : list[i] = list[j] => i = j
  BY <1>1, <1>2, <1>3, RisingEnumerates
<1> QED
  BY <1>2, <1>4 DEF Enumerates

\* The slots in use are slots of the table, finitely many.
LEMMA LiveSlotsFinite ==
  ASSUME TableType
  PROVE  /\ LiveSlots \in SUBSET Nat
         /\ LiveSlots \subseteq DOMAIN slots
         /\ IsFiniteSet(LiveSlots)
         /\ Cardinality(LiveSlots) \in Nat
<1>1. DOMAIN slots = 1..Len(slots) /\ Len(slots) \in Nat
  BY LenProperties DEF TableType
<1>2. LiveSlots \in SUBSET (1..Len(slots))
  BY <1>1 DEF LiveSlots
<1>3. IsFiniteSet(1..Len(slots))
  BY <1>1, FS_Interval
<1>4. IsFiniteSet(LiveSlots)
  BY <1>2, <1>3, FS_Subset
<1> QED
  BY <1>1, <1>2, <1>4, FS_CardinalityType

\* Slots in use are emptied and pushed on the stack in some order.
Freed(matching, list) ==
  /\ slots' = [s \in DOMAIN slots |->
                 IF s \in matching THEN [slots[s] EXCEPT !.held = None] ELSE slots[s]]
  /\ free' = free \o list
  /\ UNCHANGED issued

\* Freeing slots in use, each once, keeps the table sound.
LEMMA FreedStep ==
  ASSUME TableInv, NEW matching \in SUBSET LiveSlots, NEW list,
         Enumerates(list, matching), Freed(matching, list)
  PROVE  /\ TableInv' /\ OnlyAdds(None) /\ DeadStayDead
         /\ DOMAIN slots' = DOMAIN slots
         /\ \A s \in matching : slots'[s].held = None
         /\ LiveSlots' = LiveSlots \ matching
         /\ Len(free') = Len(free) + Cardinality(matching)
<1>1. /\ matching \in SUBSET Nat
      /\ matching \subseteq DOMAIN slots
      /\ IsFiniteSet(matching)
      /\ \A s \in matching : slots[s].held # None
  <2>1. \A s \in matching : slots[s].held # None
    BY DEF LiveSlots
  <2> QED
    BY <2>1, LiveSlotsFinite, FS_Subset DEF TableInv
<1>2. free' = free \o list
  BY DEF Freed
<1>3. issued' = issued
  BY DEF Freed
<1>4. DOMAIN slots = 1..Len(slots) /\ Len(slots) \in Nat
  BY LenProperties DEF TableInv, TableType
<1>5. /\ DOMAIN slots' = DOMAIN slots
      /\ \A s \in DOMAIN slots \ matching : slots'[s] = slots[s]
      /\ \A s \in matching : slots'[s] = [slots[s] EXCEPT !.held = None]
  BY <1>1 DEF Freed
<1>6. \A s \in DOMAIN slots : /\ slots'[s] \in SlotRecord
                              /\ slots'[s].generation = slots[s].generation
  <2> SUFFICES ASSUME NEW s \in DOMAIN slots
               PROVE  slots'[s] \in SlotRecord /\ slots'[s].generation = slots[s].generation
    OBVIOUS
  <2>1. slots[s] \in SlotRecord
    BY SlotFacts DEF TableInv
  <2> QED
    BY <2>1, <1>5 DEF SlotRecord
<1>7. \A s \in matching : slots'[s].held = None
  <2> SUFFICES ASSUME NEW s \in matching PROVE slots'[s].held = None
    OBVIOUS
  <2>1. slots[s] \in SlotRecord
    BY <1>1, SlotFacts DEF TableInv
  <2> QED
    BY <2>1, <1>5 DEF SlotRecord
<1>8. slots' \in Seq(SlotRecord)
  <2>1. slots' = [s \in 1..Len(slots) |-> slots'[s]]
    BY <1>4 DEF Freed
  <2>2. slots' \in [1..Len(slots) -> SlotRecord]
    BY <2>1, <1>4, <1>6
  <2> QED
    BY <2>2, <1>4, SeqDef
<1>9. /\ list \in Seq(Nat)
      /\ Len(list) = Cardinality(matching)
      /\ Len(list) \in Nat
      /\ \A i \in 1..Len(list) : list[i] \in matching
      /\ \A i, j \in 1..Len(list) : list[i] = list[j] => i = j
  <2>1. /\ list \in Seq(Nat)
        /\ Len(list) = Cardinality(matching)
        /\ Len(list) \in Nat
        /\ DOMAIN list = 1..Len(list)
        /\ \A i \in DOMAIN list : list[i] \in matching
        /\ \A i, j \in DOMAIN list : list[i] = list[j] => i = j
    BY <1>1, EnumeratedFacts
  <2> QED
    BY <2>1
<1>10. /\ Len(free) \in Nat
       /\ DOMAIN free = 1..Len(free)
       /\ free' \in Seq(Nat)
       /\ Len(free') = Len(free) + Len(list)
       /\ DOMAIN free' = 1..(Len(free) + Len(list))
       /\ \A i \in 1..Len(free) : free'[i] = free[i]
       /\ \A i \in (Len(free) + 1)..(Len(free) + Len(list)) : free'[i] = list[i - Len(free)]
  <2>1. free \in Seq(Nat)
    BY DEF TableInv, TableType
  <2>2. /\ free \o list \in Seq(Nat)
        /\ Len(free \o list) = Len(free) + Len(list)
        /\ \A i \in 1..(Len(free) + Len(list)) :
             (free \o list)[i] = IF i <= Len(free) THEN free[i] ELSE list[i - Len(free)]
    BY <1>9, <2>1, ConcatProperties
  <2>3. Len(free) \in Nat /\ DOMAIN free = 1..Len(free)
    BY <2>1, LenProperties
  <2>4. DOMAIN free' = 1..(Len(free) + Len(list))
    BY <1>2, <2>2, LenProperties
  <2> QED
    BY <1>2, <1>9, <2>2, <2>3, <2>4
<1>11. TableType'
  BY <1>3, <1>8, <1>10 DEF TableInv, TableType
<1>12. FreeListSound'
  <2>1. \A i \in 1..Len(free) : /\ free'[i] \in DOMAIN slots \ matching
                                /\ slots'[free'[i]].held = None
    BY <1>1, <1>5, <1>10 DEF TableInv, FreeListSound
  <2>2. \A i \in (Len(free) + 1)..(Len(free) + Len(list)) :
          /\ i - Len(free) \in 1..Len(list)
          /\ free'[i] = list[i - Len(free)]
          /\ free'[i] \in matching
    BY <1>9, <1>10
  <2>3. \A i \in DOMAIN free' : free'[i] \in DOMAIN slots' /\ slots'[free'[i]].held = None
    BY <1>1, <1>5, <1>7, <1>9, <1>10, <2>1, <2>2
  <2>4. \A i, j \in DOMAIN free' : free'[i] = free'[j] => i = j
    <3> SUFFICES ASSUME NEW i \in DOMAIN free', NEW j \in DOMAIN free', free'[i] = free'[j]
                 PROVE  i = j
      OBVIOUS
    <3>1. CASE i \in 1..Len(free) /\ j \in 1..Len(free)
      BY <3>1, <1>10 DEF TableInv, FreeListSound
    <3>2. CASE i \notin 1..Len(free) /\ j \notin 1..Len(free)
      <4>1. /\ i \in (Len(free) + 1)..(Len(free) + Len(list))
            /\ j \in (Len(free) + 1)..(Len(free) + Len(list))
        BY <3>2, <1>9, <1>10
      <4>2. i - Len(free) = j - Len(free)
        BY <4>1, <2>2, <1>9
      <4> QED
        BY <4>1, <4>2, <1>9, <1>10
    <3>3. CASE (i \in 1..Len(free)) # (j \in 1..Len(free))
      BY <3>3, <1>9, <1>10, <2>1, <2>2
    <3> QED
      BY <3>1, <3>2, <3>3
  <2> QED
    BY <2>3, <2>4 DEF FreeListSound
<1>13. IssuedReached'
  BY <1>3, <1>5, <1>6 DEF TableInv, IssuedReached
<1>14. OnlyAdds(None)
  BY <1>5, <1>7 DEF OnlyAdds
<1>15. DeadStayDead
  BY <1>5, <1>6, <1>7 DEF DeadStayDead, TokenLive
<1>16. LiveSlots' = LiveSlots \ matching
  BY <1>1, <1>5, <1>7 DEF LiveSlots
<1> QED
  BY <1>5, <1>7, <1>9, <1>10, <1>11, <1>12, <1>13, <1>14, <1>15, <1>16 DEF TableInv

\* invalidate_continuations_for_*_slot frees slots in use, each once.
LEMMA InvalidateStep ==
  ASSUME TableInv, NEW matching \in SUBSET LiveSlots, Invalidate(matching)
  PROVE  /\ TableInv' /\ OnlyAdds(None) /\ DeadStayDead
         /\ DOMAIN slots' = DOMAIN slots
         /\ \A s \in matching : slots'[s].held = None
         /\ LiveSlots' = LiveSlots \ matching
         /\ Len(free') = Len(free) + Cardinality(matching)
<1>1. matching \in SUBSET Nat /\ IsFiniteSet(matching)
  BY LiveSlotsFinite, FS_Subset DEF TableInv
<1>2. PICK list \in Ascending(matching) : free' = free \o list
  BY DEF Invalidate
<1>3. Enumerates(list, matching)
  BY <1>1, AscendingEnumerates
<1>4. Freed(matching, list)
  BY <1>2 DEF Freed, Invalidate
<1> QED
  BY <1>3, <1>4, FreedStep

\* A stage that loses to a concurrent write gives its new slot straight back.
LEMMA ConflictStep ==
  ASSUME TableInv, StageConflict
  PROVE  TableInv' /\ OnlyAdds(None) /\ DeadStayDead
<1>0. /\ DOMAIN free = 1..Len(free) /\ Len(free) \in Nat
      /\ DOMAIN slots = 1..Len(slots) /\ Len(slots) \in Nat
  BY LenProperties DEF TableInv, TableType
<1>1. CASE free # <<>>
  <2> DEFINE s == Last(free)
             r == [generation |-> slots[s].generation + 1, held |-> None]
  <2>1. s \in DOMAIN slots /\ slots[s].held = None
    <3>1. Len(free) \in DOMAIN free
      BY <1>1, PoppedFacts DEF TableInv, TableType
    <3> QED
      BY <3>1 DEF TableInv, FreeListSound, Last
  <2>2. slots[s].generation < MaxGeneration
    BY <1>1 DEF StageConflict, CanAllocate
  <2>3. s \in Nat /\ slots[s].generation + 1 \in 1..MaxGeneration
    BY <2>1, <2>2, SlotFacts, BoundsAssumption DEF TableInv
  <2>4. r \in SlotRecord
    BY <2>3 DEF SlotRecord
  <2>5. [slots[s] EXCEPT !.generation = @ + 1] = r
    <3>1. slots[s] \in SlotRecord
      BY <2>1, SlotFacts DEF TableInv
    <3> QED
      BY <2>1, <3>1 DEF SlotRecord
  <2>6. slots' = [slots EXCEPT ![s] = [slots[s] EXCEPT !.generation = @ + 1]]
    BY <1>1, <2>1 DEF StageConflict
  <2>7. /\ slots' = [slots EXCEPT ![s] = r]
        /\ free' = free
        /\ issued' = issued \cup {<<s, slots[s].generation + 1>>}
    BY <1>1, <2>5, <2>6 DEF StageConflict, NextToken
  <2>8. /\ slots' \in Seq(SlotRecord)
        /\ DOMAIN slots' = DOMAIN slots
        /\ slots'[s] = r
        /\ \A u \in DOMAIN slots : u # s => slots'[u] = slots[u]
    BY <2>1, <2>4, <2>7, WrittenFacts DEF TableInv, TableType
  <2>9. TableType'
    BY <2>3, <2>7, <2>8 DEF TableInv, TableType
  <2>10. FreeListSound'
    BY <2>7, <2>8 DEF TableInv, FreeListSound
  <2>11. \A old \in issued : /\ old[1] \in DOMAIN slots
                             /\ old[2] <= slots[old[1]].generation
                             /\ old[2] \in Nat
                             /\ slots[old[1]].generation \in Nat
    BY SlotFacts, BoundsAssumption DEF TableInv, TableType, IssuedReached
  <2>12. IssuedReached'
    <3>1. \A old \in issued : old[1] \in DOMAIN slots' /\ old[2] <= slots'[old[1]].generation
      BY <2>8, <2>11
    <3>2. slots[s].generation + 1 <= slots'[s].generation
      BY <2>3, <2>8
    <3> QED
      BY <2>1, <2>7, <2>8, <3>1, <3>2 DEF IssuedReached
  <2>13. OnlyAdds(None) /\ DeadStayDead
    BY <2>1, <2>8, <2>11 DEF OnlyAdds, DeadStayDead, TokenLive
  <2> QED
    BY <2>9, <2>10, <2>12, <2>13 DEF TableInv
<1>2. CASE free = <<>>
  <2> DEFINE r == [generation |-> 1, held |-> None]
             n == Len(slots) + 1
  <2>1. r \in SlotRecord /\ n \in Nat
    BY <1>0, BoundsAssumption DEF SlotRecord
  <2>2. /\ slots' = Append(slots, r)
        /\ free' = Append(free, n)
        /\ issued' = issued \cup {<<n, 1>>}
    BY <1>2 DEF StageConflict, NextToken
  <2>3. /\ slots' \in Seq(SlotRecord)
        /\ DOMAIN slots' = 1..n
        /\ \A u \in DOMAIN slots : slots'[u] = slots[u]
        /\ slots'[n] = r
    BY <2>1, <2>2, PushedFacts DEF TableInv, TableType
  <2>4. free' \in Seq(Nat) /\ DOMAIN free' = 1..1 /\ free'[1] = n
    <3>1. Len(free) = 0
      BY <1>2
    <3> QED
      BY <2>1, <2>2, <3>1, PushedFacts DEF TableInv, TableType
  <2>5. TableType'
    BY <2>1, <2>2, <2>3, <2>4, BoundsAssumption DEF TableInv, TableType
  <2>6. FreeListSound'
    BY <1>0, <2>3, <2>4 DEF FreeListSound
  <2>7. IssuedReached'
    BY <1>0, <2>2, <2>3 DEF IssuedReached, TableInv
  <2>8. OnlyAdds(None)
    BY <1>0, <2>3 DEF OnlyAdds
  <2>9. DeadStayDead
    BY <1>0, <2>3 DEF DeadStayDead, TokenLive, IssuedReached, TableInv
  <2> QED
    BY <2>5, <2>6, <2>7, <2>8, <2>9 DEF TableInv
<1> QED
  BY <1>1, <1>2

(***************************************************************************)
(* The world                                                               *)
(***************************************************************************)

WorldType ==
  /\ mixtures \in [Mixtures -> [generation : Nat, live : BOOLEAN]]
  /\ turfs \in [Turfs -> [generation : Nat, live : BOOLEAN,
                          mixture : MixtureHandle \cup {None}]]
  /\ \A t \in Turfs : turfs[t].live => turfs[t].generation \in Generations
  /\ stage \in Continuation \cup {None}

\* A suspended reaction's mixture is live and its turf, if any, carries it.
Current(c) == /\ MixtureLive(c.mixture)
              /\ c.turf # None => TurfCarries(c.turf, c.mixture)

\* What the React stage captured stays current until the stage ends: lifecycle
\* requests that could change it are refused while the cursor is active.
StageCurrent == stage # None => Current(stage)

\* The inductive invariant.
ContinuationsInv == WorldType /\ TableInv /\ ContinuationsCurrent /\ StageCurrent

\* The type invariant is the two partial ones together.
LEMMA TypeSplit == TypeOK <=> WorldType /\ TableType
  BY DEF TypeOK, WorldType, TableType, SlotRecord

\* A handle names a slot of its table.
LEMMA HandleFacts ==
  ASSUME NEW c \in Continuation
  PROVE  /\ c.mixture \in MixtureHandle
         /\ c.mixture[1] \in Mixtures
         /\ c.mixture[2] \in Nat \ {0}
         /\ c.turf # None => /\ c.turf \in TurfHandle
                             /\ c.turf[1] \in Turfs
                             /\ c.turf[2] \in Nat \ {0}
  BY BoundsAssumption DEF Continuation, MixtureHandle, TurfHandle

\* Every action is one operation on the slot table, or none.
LEMMA TableStep ==
  ASSUME WorldType, TableInv, [Next]_coreVars
  PROVE  TableInv' /\ DeadStayDead
<1>1. ASSUME NEW m \in Mixtures, NEW g \in Generations, RegisterMixture(m, g)
      PROVE  TableInv' /\ DeadStayDead
  <2>1. OfMixture(m) \in SUBSET LiveSlots
    BY DEF OfMixture
  <2> QED
    BY <1>1, <2>1, InvalidateStep DEF RegisterMixture
<1>2. ASSUME NEW m \in Mixtures, UnregisterMixture(m)
      PROVE  TableInv' /\ DeadStayDead
  <2>1. OfMixture(m) \in SUBSET LiveSlots
    BY DEF OfMixture
  <2> QED
    BY <1>2, <2>1, InvalidateStep DEF UnregisterMixture
<1>3. ASSUME NEW t \in Turfs, NEW g \in Generations, NEW m \in MixtureHandle \cup {None},
             RegisterTurf(t, g, m)
      PROVE  TableInv' /\ DeadStayDead
  <2> DEFINE same == turfs[t].live /\ turfs[t].generation = g /\ turfs[t].mixture = m
             gone == IF same THEN {} ELSE OfTurf(t)
  <2>1. gone \in SUBSET LiveSlots
    BY DEF OfTurf
  <2>2. Invalidate(gone)
    BY <1>3 DEF RegisterTurf
  <2> QED
    BY <2>1, <2>2, InvalidateStep
<1>4. ASSUME NEW t \in Turfs, UnregisterTurf(t)
      PROVE  TableInv' /\ DeadStayDead
  <2>1. OfTurf(t) \in SUBSET LiveSlots
    BY DEF OfTurf
  <2> QED
    BY <1>4, <2>1, InvalidateStep DEF UnregisterTurf
<1>5. ASSUME NEW m \in MixtureHandle, React(m)
      PROVE  TableInv' /\ DeadStayDead
  <2>1. [turf |-> None, mixture |-> m] \in Continuation
    BY DEF Continuation
  <2> QED
    BY <1>5, <2>1, AllocateStep DEF React
<1>6. ASSUME NEW m \in MixtureHandle, ReactOverflows(m)
      PROVE  TableInv' /\ DeadStayDead
  BY <1>6, OverflowStep DEF ReactOverflows
<1>7. ASSUME NEW t \in Turfs, StageBegin(t)
      PROVE  TableInv' /\ DeadStayDead
  BY <1>7, IdleStep DEF StageBegin
<1>8. CASE StageCommit
  <2>1. stage \in Continuation
    BY <1>8 DEF StageCommit, WorldType
  <2> QED
    BY <1>8, <2>1, AllocateStep DEF StageCommit
<1>9. CASE StageEnd
  BY <1>9, IdleStep DEF StageEnd
<1>10. CASE StageConflict
  BY <1>10, ConflictStep
<1>11. CASE StageOverflows
  BY <1>11, OverflowStep DEF StageOverflows
<1>12. ASSUME NEW token \in issued, ResumeAgain(token)
       PROVE  TableInv' /\ DeadStayDead
  BY <1>12, RotateStep DEF ResumeAgain
<1>13. ASSUME NEW token \in issued, ResumeToEnd(token) \/ Cancel(token)
       PROVE  TableInv' /\ DeadStayDead
  BY <1>13, CompleteStep DEF ResumeToEnd, Cancel
<1>14. CASE UNCHANGED coreVars
  BY <1>14, IdleStep DEF coreVars
<1> QED
  BY <1>1, <1>2, <1>3, <1>4, <1>5, <1>6, <1>7, <1>8, <1>9, <1>10, <1>11, <1>12, <1>13, <1>14
     DEF Next, Lifecycle, Reactions

\* If mixtures and turfs stay as they are, what is suspended stays current as long as
\* whatever the step adds is current.
LEMMA CurrentKept ==
  ASSUME TableInv, ContinuationsCurrent, UNCHANGED <<mixtures, turfs>>,
         NEW c, c # None => Current(c), OnlyAdds(c)
  PROVE  ContinuationsCurrent'
<1> SUFFICES ASSUME NEW s \in LiveSlots'
             PROVE  /\ MixtureLive(slots[s].held.mixture)'
                    /\ (slots[s].held.turf # None
                          => TurfCarries(slots[s].held.turf, slots[s].held.mixture))'
  BY DEF ContinuationsCurrent
<1>1. s \in DOMAIN slots' /\ slots'[s].held # None
  BY DEF LiveSlots
<1>2. Current(slots'[s].held)
  <2>1. CASE slots'[s].held = c
    BY <1>1, <2>1
  <2>2. CASE s \in DOMAIN slots /\ slots'[s].held = slots[s].held
    <3>1. s \in LiveSlots
      BY <1>1, <2>2 DEF LiveSlots
    <3> QED
      BY <2>2, <3>1 DEF ContinuationsCurrent, Current
  <2> QED
    BY <1>1, <2>1, <2>2 DEF OnlyAdds
<1> QED
  BY <1>2 DEF Current, MixtureLive, TurfCarries

\* Lifecycle steps only empty slots, so what is suspended afterwards was suspended
\* before and is not among the invalidated slots.
LEMMA Survivors ==
  ASSUME TableInv, NEW gone \in SUBSET LiveSlots, Invalidate(gone), NEW s \in LiveSlots'
  PROVE  /\ s \in LiveSlots \ gone
         /\ slots'[s].held = slots[s].held
         /\ slots[s].held \in Continuation
<1>1. OnlyAdds(None) /\ LiveSlots' = LiveSlots \ gone
  BY InvalidateStep
<1>2. s \in DOMAIN slots' /\ slots'[s].held # None
  BY DEF LiveSlots
<1>3. s \in DOMAIN slots /\ slots'[s].held = slots[s].held
  BY <1>1, <1>2 DEF OnlyAdds
<1>4. slots[s].held \in Continuation
  BY <1>2, <1>3, SlotFacts DEF TableInv
<1> QED
  BY <1>1, <1>3, <1>4

\* Registering a mixture, possibly over an older generation.
LEMMA RegisterMixtureStep ==
  ASSUME ContinuationsInv, NEW m \in Mixtures, NEW g \in Generations, RegisterMixture(m, g)
  PROVE  WorldType' /\ ContinuationsCurrent' /\ StageCurrent'
<1> USE DEF ContinuationsInv
<1>1. OfMixture(m) \in SUBSET LiveSlots /\ Invalidate(OfMixture(m))
  BY DEF OfMixture, RegisterMixture
<1>2. /\ turfs' = turfs /\ stage' = stage
      /\ mixtures' = [mixtures EXCEPT ![m] = [generation |-> g, live |-> TRUE]]
      /\ mixtures[m].live => stage = None
  BY DEF RegisterMixture
<1>3. WorldType'
  BY <1>2, BoundsAssumption DEF WorldType
<1>4. \A u \in Mixtures : u # m => mixtures'[u] = mixtures[u]
  BY <1>2 DEF WorldType
<1>5. ContinuationsCurrent'
  <2> SUFFICES ASSUME NEW s \in LiveSlots'
               PROVE  /\ MixtureLive(slots[s].held.mixture)'
                      /\ (slots[s].held.turf # None
                            => TurfCarries(slots[s].held.turf, slots[s].held.mixture))'
    BY DEF ContinuationsCurrent
  <2>1. /\ s \in LiveSlots \ OfMixture(m)
        /\ slots'[s].held = slots[s].held
        /\ slots[s].held \in Continuation
    BY <1>1, Survivors
  <2>2. slots[s].held.mixture[1] # m /\ slots[s].held.mixture[1] \in Mixtures
    BY <2>1, HandleFacts DEF OfMixture
  <2>3. Current(slots[s].held)
    BY <2>1 DEF ContinuationsCurrent, Current
  <2> QED
    BY <1>2, <1>4, <2>1, <2>2, <2>3 DEF Current, MixtureLive, TurfCarries
<1>6. StageCurrent'
  <2> SUFFICES ASSUME stage # None PROVE Current(stage)'
    BY <1>2 DEF StageCurrent
  <2>1. stage \in Continuation /\ Current(stage)
    BY DEF WorldType, StageCurrent
  <2>2. stage.mixture[1] # m /\ stage.mixture[1] \in Mixtures
    BY <1>2, <2>1, HandleFacts DEF Current, MixtureLive
  <2> QED
    BY <1>2, <1>4, <2>1, <2>2 DEF Current, MixtureLive, TurfCarries
<1> QED
  BY <1>3, <1>5, <1>6

\* Unregistering a mixture takes it from its turfs and ends its suspended reactions.
LEMMA UnregisterMixtureStep ==
  ASSUME ContinuationsInv, NEW m \in Mixtures, UnregisterMixture(m)
  PROVE  WorldType' /\ ContinuationsCurrent' /\ StageCurrent'
<1> USE DEF ContinuationsInv
<1> DEFINE handle == <<m, mixtures[m].generation>>
<1>1. OfMixture(m) \in SUBSET LiveSlots /\ Invalidate(OfMixture(m))
  BY DEF OfMixture, UnregisterMixture
<1>2. /\ stage = None /\ stage' = None
      /\ mixtures' = [mixtures EXCEPT ![m].live = FALSE]
      /\ turfs' = [t \in Turfs |-> IF turfs[t].mixture = handle
                                   THEN [turfs[t] EXCEPT !.mixture = None] ELSE turfs[t]]
  BY DEF UnregisterMixture
<1>3. WorldType'
  <2>1. mixtures' \in [Mixtures -> [generation : Nat, live : BOOLEAN]]
    BY <1>2 DEF WorldType
  <2>2. turfs' \in [Turfs -> [generation : Nat, live : BOOLEAN,
                              mixture : MixtureHandle \cup {None}]]
    BY <1>2 DEF WorldType
  <2> QED
    BY <1>2, <2>1, <2>2 DEF WorldType
<1>4. \A u \in Mixtures : u # m => mixtures'[u] = mixtures[u]
  BY <1>2 DEF WorldType
<1>5. \A t \in Turfs : turfs[t].mixture # handle => turfs'[t] = turfs[t]
  BY <1>2
<1>6. ContinuationsCurrent'
  <2> SUFFICES ASSUME NEW s \in LiveSlots'
               PROVE  /\ MixtureLive(slots[s].held.mixture)'
                      /\ (slots[s].held.turf # None
                            => TurfCarries(slots[s].held.turf, slots[s].held.mixture))'
    BY DEF ContinuationsCurrent
  <2>1. /\ s \in LiveSlots \ OfMixture(m)
        /\ slots'[s].held = slots[s].held
        /\ slots[s].held \in Continuation
    BY <1>1, Survivors
  <2>2. slots[s].held.mixture[1] # m /\ slots[s].held.mixture[1] \in Mixtures
    BY <2>1, HandleFacts DEF OfMixture
  <2>3. Current(slots[s].held)
    BY <2>1 DEF ContinuationsCurrent, Current
  <2>4. slots[s].held.mixture # handle
    BY <2>2
  <2>5. MixtureLive(slots[s].held.mixture)'
    BY <1>4, <2>1, <2>2, <2>3 DEF Current, MixtureLive
  <2>6. slots[s].held.turf # None =>
          TurfCarries(slots[s].held.turf, slots[s].held.mixture)'
    BY <1>5, <2>1, <2>3, <2>4, HandleFacts DEF Current, TurfCarries
  <2> QED
    BY <2>1, <2>5, <2>6 DEF TurfCarries
<1> QED
  BY <1>2, <1>3, <1>6 DEF StageCurrent

\* Registering a turf, possibly over an older generation or with another mixture.
LEMMA RegisterTurfStep ==
  ASSUME ContinuationsInv, NEW t \in Turfs, NEW g \in Generations,
         NEW mixture \in MixtureHandle \cup {None}, RegisterTurf(t, g, mixture)
  PROVE  WorldType' /\ ContinuationsCurrent' /\ StageCurrent'
<1> USE DEF ContinuationsInv
<1> DEFINE same == turfs[t].live /\ turfs[t].generation = g /\ turfs[t].mixture = mixture
           gone == IF same THEN {} ELSE OfTurf(t)
           new == [generation |-> g, live |-> TRUE, mixture |-> mixture]
<1>1. gone \in SUBSET LiveSlots /\ Invalidate(gone)
  BY DEF OfTurf, RegisterTurf
<1>2. /\ stage = None /\ stage' = None /\ mixtures' = mixtures
      /\ turfs' = [turfs EXCEPT ![t] = new]
  BY DEF RegisterTurf
<1>3. WorldType'
  BY <1>2, BoundsAssumption DEF WorldType
<1>4. /\ turfs'[t] = new
      /\ \A u \in Turfs : u # t => turfs'[u] = turfs[u]
  BY <1>2 DEF WorldType
<1>5. ContinuationsCurrent'
  <2> SUFFICES ASSUME NEW s \in LiveSlots'
               PROVE  /\ MixtureLive(slots[s].held.mixture)'
                      /\ (slots[s].held.turf # None
                            => TurfCarries(slots[s].held.turf, slots[s].held.mixture))'
    BY DEF ContinuationsCurrent
  <2>1. /\ s \in LiveSlots \ gone
        /\ slots'[s].held = slots[s].held
        /\ slots[s].held \in Continuation
    BY <1>1, Survivors
  <2>2. Current(slots[s].held)
    BY <2>1 DEF ContinuationsCurrent, Current
  <2>3. MixtureLive(slots[s].held.mixture)'
    BY <1>2, <2>1, <2>2 DEF Current, MixtureLive
  <2>4. ASSUME slots[s].held.turf # None
        PROVE  TurfCarries(slots[s].held.turf, slots[s].held.mixture)'
    <3>1. /\ TurfCarries(slots[s].held.turf, slots[s].held.mixture)
          /\ slots[s].held.turf[1] \in Turfs
      BY <2>1, <2>2, <2>4, HandleFacts DEF Current
    <3>2. CASE slots[s].held.turf[1] # t
      BY <3>1, <3>2, <1>4, <2>1 DEF TurfCarries
    <3>3. CASE slots[s].held.turf[1] = t
      <4>1. same
        BY <2>1, <2>4, <3>3 DEF OfTurf
      <4> QED
        BY <3>1, <3>3, <4>1, <1>4, <2>1 DEF TurfCarries
    <3> QED
      BY <3>2, <3>3
  <2> QED
    BY <2>1, <2>3, <2>4 DEF TurfCarries
<1> QED
  BY <1>2, <1>3, <1>5 DEF StageCurrent

\* Unregistering a turf ends its suspended reactions.
LEMMA UnregisterTurfStep ==
  ASSUME ContinuationsInv, NEW t \in Turfs, UnregisterTurf(t)
  PROVE  WorldType' /\ ContinuationsCurrent' /\ StageCurrent'
<1> USE DEF ContinuationsInv
<1>1. OfTurf(t) \in SUBSET LiveSlots /\ Invalidate(OfTurf(t))
  BY DEF OfTurf, UnregisterTurf
<1>2. /\ stage = None /\ stage' = None /\ mixtures' = mixtures
      /\ turfs' = [turfs EXCEPT ![t].live = FALSE, ![t].mixture = None]
  BY DEF UnregisterTurf
<1>3. WorldType'
  BY <1>2 DEF WorldType
<1>4. \A u \in Turfs : u # t => turfs'[u] = turfs[u]
  BY <1>2 DEF WorldType
<1>5. ContinuationsCurrent'
  <2> SUFFICES ASSUME NEW s \in LiveSlots'
               PROVE  /\ MixtureLive(slots[s].held.mixture)'
                      /\ (slots[s].held.turf # None
                            => TurfCarries(slots[s].held.turf, slots[s].held.mixture))'
    BY DEF ContinuationsCurrent
  <2>1. /\ s \in LiveSlots \ OfTurf(t)
        /\ slots'[s].held = slots[s].held
        /\ slots[s].held \in Continuation
    BY <1>1, Survivors
  <2>2. Current(slots[s].held)
    BY <2>1 DEF ContinuationsCurrent, Current
  <2>3. slots[s].held.turf # None =>
          slots[s].held.turf[1] # t /\ slots[s].held.turf[1] \in Turfs
    BY <2>1, HandleFacts DEF OfTurf
  <2> QED
    BY <1>2, <1>4, <2>1, <2>2, <2>3 DEF Current, MixtureLive, TurfCarries
<1> QED
  BY <1>2, <1>3, <1>5 DEF StageCurrent

\* Steps that leave mixtures and turfs alone and end the stage or leave it alone.
LEMMA QuietStep ==
  ASSUME ContinuationsInv, UNCHANGED <<mixtures, turfs>>, stage' = stage \/ stage' = None,
         NEW c, c # None => Current(c), OnlyAdds(c)
  PROVE  WorldType' /\ ContinuationsCurrent' /\ StageCurrent'
<1>1. ContinuationsCurrent'
  BY CurrentKept DEF ContinuationsInv
<1>2. WorldType'
  BY DEF ContinuationsInv, WorldType
<1>3. StageCurrent'
  BY DEF ContinuationsInv, StageCurrent, Current, MixtureLive, TurfCarries
<1> QED
  BY <1>1, <1>2, <1>3

\* The stage captures a target that is current when it begins.
LEMMA StageBeginStep ==
  ASSUME ContinuationsInv, NEW t \in Turfs, StageBegin(t)
  PROVE  WorldType' /\ ContinuationsCurrent' /\ StageCurrent'
<1> USE DEF ContinuationsInv
<1> DEFINE turf == <<t, turfs[t].generation>>
           target == [turf |-> turf, mixture |-> turfs[t].mixture]
<1>1. /\ UNCHANGED <<mixtures, turfs, slots, free, issued>>
      /\ stage' = target
      /\ turfs[t].live
      /\ turfs[t].mixture # None
      /\ MixtureLive(turfs[t].mixture)
  BY DEF StageBegin
<1>2. turf \in TurfHandle /\ turfs[t].mixture \in MixtureHandle
  BY <1>1 DEF WorldType, TurfHandle
<1>3. target \in Continuation
  BY <1>2 DEF Continuation
<1>4. WorldType'
  BY <1>1, <1>3 DEF WorldType
<1>5. ContinuationsCurrent'
  <2>1. OnlyAdds(None)
    BY <1>1, IdleStep
  <2> QED
    BY <1>1, <2>1, CurrentKept
<1>6. StageCurrent'
  BY <1>1 DEF StageCurrent, Current, MixtureLive, TurfCarries
<1> QED
  BY <1>4, <1>5, <1>6

\* Every step preserves the inductive invariant.
LEMMA InvStep ==
  ASSUME ContinuationsInv, [Next]_coreVars
  PROVE  ContinuationsInv'
<1> DEFINE Goal == WorldType' /\ ContinuationsCurrent' /\ StageCurrent'
<1>0. WorldType /\ TableInv /\ StageCurrent
  BY DEF ContinuationsInv
<1>1. TableInv'
  BY <1>0, TableStep
<1> SUFFICES Goal
  BY <1>1 DEF ContinuationsInv
<1>2. ASSUME NEW m \in MixtureHandle, React(m)
      PROVE  Goal
  <2> DEFINE c == [turf |-> None, mixture |-> m]
  <2>1. c \in Continuation
    BY DEF Continuation
  <2>2. Current(c)
    BY <1>2 DEF React, Current
  <2>3. OnlyAdds(c)
    BY <1>0, <1>2, <2>1, AllocateStep DEF React
  <2> QED
    BY <1>2, <2>2, <2>3, QuietStep DEF React
<1>3. ASSUME NEW m \in MixtureHandle, ReactOverflows(m)
      PROVE  Goal
  <2>1. OnlyAdds(None)
    BY <1>0, <1>3, OverflowStep DEF ReactOverflows
  <2> QED
    BY <1>3, <2>1, QuietStep DEF ReactOverflows
<1>4. CASE StageCommit
  <2>1. stage \in Continuation /\ Current(stage)
    BY <1>0, <1>4 DEF StageCommit, WorldType, StageCurrent
  <2>2. OnlyAdds(stage)
    BY <1>0, <1>4, <2>1, AllocateStep DEF StageCommit
  <2>3. UNCHANGED <<mixtures, turfs>> /\ (stage' = stage \/ stage' = None)
    BY <1>4 DEF StageCommit
  <2> QED
    BY <2>1, <2>2, <2>3, QuietStep
<1>5. CASE StageEnd \/ StageConflict \/ StageOverflows
  <2>1. OnlyAdds(None)
    BY <1>0, <1>5, IdleStep, ConflictStep, OverflowStep DEF StageEnd, StageOverflows
  <2>2. UNCHANGED <<mixtures, turfs>> /\ (stage' = stage \/ stage' = None)
    BY <1>5 DEF StageEnd, StageConflict, StageOverflows
  <2> QED
    BY <2>1, <2>2, QuietStep
<1>6. ASSUME NEW token \in issued, ResumeAgain(token) \/ ResumeToEnd(token) \/ Cancel(token)
      PROVE  Goal
  <2>1. OnlyAdds(None)
    BY <1>0, <1>6, RotateStep, CompleteStep DEF ResumeAgain, ResumeToEnd, Cancel
  <2>2. UNCHANGED <<mixtures, turfs, stage>>
    BY <1>6 DEF ResumeAgain, ResumeToEnd, Cancel
  <2> QED
    BY <2>1, <2>2, QuietStep
<1>7. CASE UNCHANGED coreVars
  <2>1. OnlyAdds(None)
    BY <1>0, <1>7, IdleStep DEF coreVars
  <2>2. UNCHANGED <<mixtures, turfs>> /\ (stage' = stage \/ stage' = None)
    BY <1>7 DEF coreVars
  <2> QED
    BY <2>1, <2>2, QuietStep
<1>8. CASE Lifecycle
  BY <1>8, RegisterMixtureStep, UnregisterMixtureStep, RegisterTurfStep, UnregisterTurfStep
     DEF Lifecycle
<1>9. CASE Reactions
  BY <1>2, <1>3, <1>4, <1>5, <1>6, <1>9, StageBeginStep DEF Reactions
<1> QED
  BY <1>7, <1>8, <1>9 DEF Next

\* The world starts empty.
LEMMA InvInit == Init => ContinuationsInv
<1> SUFFICES ASSUME Init PROVE ContinuationsInv
  OBVIOUS
<1>1. WorldType
  BY DEF Init, WorldType
<1>2. TableInv
  BY DEF Init, TableInv, TableType, FreeListSound, IssuedReached
<1>3. ContinuationsCurrent
  BY DEF Init, ContinuationsCurrent, LiveSlots
<1> QED
  BY <1>1, <1>2, <1>3 DEF Init, ContinuationsInv, StageCurrent

(***************************************************************************)
(* Capacity                                                                *)
(***************************************************************************)

\* Suspending in a free slot moves it from the stack into use; a fresh slot is taken
\* below the capacity only.
LEMMA AllocateCapacity ==
  ASSUME TableInv, CapacityHeld, NEW c \in Continuation, c # None, AllocateContinuation(c)
  PROVE  CapacityHeld'
<1>0. /\ IsFiniteSet(LiveSlots) /\ Cardinality(LiveSlots) \in Nat
      /\ LiveSlots \subseteq DOMAIN slots
      /\ Len(slots) \in Nat /\ DOMAIN slots = 1..Len(slots)
      /\ Len(free) \in Nat /\ DOMAIN free = 1..Len(free)
  BY LiveSlotsFinite, LenProperties DEF TableInv, TableType
<1>1. CASE free # <<>>
  <2> DEFINE s == Last(free)
             r == [generation |-> slots[s].generation + 1, held |-> c]
  <2>1. s \in DOMAIN slots /\ slots[s].held = None /\ Len(free) \in Nat \ {0}
    <3>1. Len(free) \in DOMAIN free /\ Len(free) \in Nat \ {0}
      BY <1>1, PoppedFacts DEF TableInv, TableType
    <3> QED
      BY <3>1 DEF TableInv, FreeListSound, Last
  <2>2. slots' = [slots EXCEPT ![s] = r] /\ free' = Popped(free)
    BY <1>1 DEF AllocateContinuation
  <2>3. LiveSlots' = LiveSlots \cup {s} /\ s \notin LiveSlots
    BY <2>1, <2>2 DEF LiveSlots
  <2>4. Cardinality(LiveSlots') = Cardinality(LiveSlots) + 1
    BY <1>0, <2>3, FS_AddElement
  <2>5. Len(free') = Len(free) - 1
    BY <1>1, <2>2, PoppedFacts DEF TableInv, TableType
  <2> QED
    BY <1>0, <2>1, <2>4, <2>5, BoundsAssumption DEF CapacityHeld
<1>2. CASE free = <<>>
  <2> DEFINE r == [generation |-> 1, held |-> c]
             n == Len(slots) + 1
  <2>1. r \in SlotRecord
    BY BoundsAssumption DEF SlotRecord
  <2>2. slots' = Append(slots, r) /\ free' = free /\ Cardinality(LiveSlots) < MaxContinuations
    BY <1>2 DEF AllocateContinuation, CanAllocate
  <2>3. /\ DOMAIN slots' = 1..n
        /\ \A u \in DOMAIN slots : slots'[u] = slots[u]
        /\ slots'[n] = r
    BY <2>1, <2>2, PushedFacts DEF TableInv, TableType
  <2>4. LiveSlots' = LiveSlots \cup {n} /\ n \notin LiveSlots
    BY <1>0, <2>3 DEF LiveSlots
  <2>5. Cardinality(LiveSlots') = Cardinality(LiveSlots) + 1
    BY <1>0, <2>4, FS_AddElement
  <2>6. Len(free') = 0
    BY <1>2, <2>2
  <2> QED
    BY <1>0, <2>2, <2>5, <2>6, BoundsAssumption DEF CapacityHeld
<1> QED
  BY <1>1, <1>2

\* The overflowing slot is lost to both counts.
LEMMA OverflowCapacity ==
  ASSUME TableInv, CapacityHeld, AllocationOverflow
  PROVE  CapacityHeld'
<1>1. LiveSlots' = LiveSlots /\ free' = Popped(free) /\ free # <<>>
  BY DEF AllocationOverflow, LiveSlots
<1>2. Len(free) \in Nat /\ Len(free') = Len(free) - 1
  BY <1>1, PoppedFacts DEF TableInv, TableType
<1>3. Cardinality(LiveSlots) \in Nat
  BY LiveSlotsFinite DEF TableInv
<1> QED
  BY <1>1, <1>2, <1>3, BoundsAssumption DEF CapacityHeld

\* Completing moves a slot in use to the stack.
LEMMA CompleteCapacity ==
  ASSUME TableInv, CapacityHeld, NEW token \in issued, CompleteContinuation(token)
  PROVE  CapacityHeld'
<1> DEFINE s == token[1]
<1>1. /\ s \in LiveSlots /\ s \in DOMAIN slots /\ s \in Nat
      /\ slots[s] \in SlotRecord
  BY SlotFacts DEF CompleteContinuation, TokenLive, LiveSlots, TableInv
<1>2. /\ DOMAIN slots' = DOMAIN slots
      /\ slots'[s].held = None
      /\ \A u \in DOMAIN slots : u # s => slots'[u] = slots[u]
  BY <1>1 DEF CompleteContinuation, SlotRecord
<1>3. LiveSlots' = LiveSlots \ {s}
  BY <1>1, <1>2 DEF LiveSlots
<1>4. IsFiniteSet(LiveSlots) /\ Cardinality(LiveSlots) \in Nat
  BY LiveSlotsFinite DEF TableInv
<1>5. Cardinality(LiveSlots') = Cardinality(LiveSlots) - 1
  BY <1>1, <1>3, <1>4, FS_RemoveElement
<1>6. Len(free) \in Nat /\ Len(free') = Len(free) + 1
  BY <1>1, PushedFacts DEF CompleteContinuation, TableInv, TableType
<1> QED
  BY <1>4, <1>5, <1>6, BoundsAssumption DEF CapacityHeld

\* Rotating changes neither count.
LEMMA RotateCapacity ==
  ASSUME TableInv, CapacityHeld, NEW token \in issued, RotateContinuation(token)
  PROVE  CapacityHeld'
<1> DEFINE s == token[1]
<1>1. s \in DOMAIN slots /\ slots[s] \in SlotRecord
  BY SlotFacts DEF RotateContinuation, TokenLive, TableInv
<1>2. /\ DOMAIN slots' = DOMAIN slots
      /\ \A u \in DOMAIN slots : slots'[u].held = slots[u].held
  BY <1>1 DEF RotateContinuation, SlotRecord
<1>3. LiveSlots' = LiveSlots /\ free' = free
  BY <1>2 DEF LiveSlots, RotateContinuation
<1> QED
  BY <1>3 DEF CapacityHeld

\* Freeing moves slots from use to the stack.
LEMMA FreedCapacity ==
  ASSUME TableInv, CapacityHeld, NEW matching \in SUBSET LiveSlots,
         LiveSlots' = LiveSlots \ matching, Len(free') = Len(free) + Cardinality(matching)
  PROVE  CapacityHeld'
<1>1. LiveSlots' = LiveSlots \ matching /\ Len(free') = Len(free) + Cardinality(matching)
  OBVIOUS
<1>2. IsFiniteSet(LiveSlots) /\ Cardinality(LiveSlots) \in Nat
  BY LiveSlotsFinite DEF TableInv
<1>3. IsFiniteSet(matching) /\ Cardinality(matching) \in Nat
  BY <1>2, FS_Subset, FS_CardinalityType
<1>4. Cardinality(LiveSlots \ matching) = Cardinality(LiveSlots) - Cardinality(matching)
  <2>1. LiveSlots \cap matching = matching
    OBVIOUS
  <2>2. Cardinality(LiveSlots \ matching)
          = Cardinality(LiveSlots) - Cardinality(LiveSlots \cap matching)
    BY <1>2, FS_Difference
  <2> QED
    BY <2>1, <2>2
<1>5. Len(free) \in Nat
  BY LenProperties DEF TableInv, TableType
<1> QED
  BY <1>1, <1>2, <1>3, <1>4, <1>5, BoundsAssumption DEF CapacityHeld

LEMMA InvalidateCapacity ==
  ASSUME TableInv, CapacityHeld, NEW matching \in SUBSET LiveSlots, Invalidate(matching)
  PROVE  CapacityHeld'
<1>1. LiveSlots' = LiveSlots \ matching /\ Len(free') = Len(free) + Cardinality(matching)
  BY InvalidateStep
<1> QED
  BY <1>1, FreedCapacity

\* The slot a conflicting stage gives back was free already, or is counted below the
\* capacity.
LEMMA ConflictCapacity ==
  ASSUME TableInv, CapacityHeld, StageConflict
  PROVE  CapacityHeld'
<1>0. /\ Cardinality(LiveSlots) \in Nat
      /\ Len(slots) \in Nat /\ DOMAIN slots = 1..Len(slots)
  BY LiveSlotsFinite, LenProperties DEF TableInv, TableType
<1>1. CASE free # <<>>
  <2> DEFINE s == Last(free)
  <2>1. s \in DOMAIN slots
    <3>1. Len(free) \in DOMAIN free
      BY <1>1, PoppedFacts DEF TableInv, TableType
    <3> QED
      BY <3>1 DEF TableInv, FreeListSound, Last
  <2>2. slots[s] \in SlotRecord
    BY <2>1, SlotFacts DEF TableInv
  <2>3. slots' = [slots EXCEPT ![s] = [slots[s] EXCEPT !.generation = slots[s].generation + 1]]
        /\ free' = free
    BY <1>1, <2>1 DEF StageConflict
  <2>4. /\ DOMAIN slots' = DOMAIN slots
        /\ \A u \in DOMAIN slots : slots'[u].held = slots[u].held
    BY <2>1, <2>2, <2>3 DEF SlotRecord
  <2>5. LiveSlots' = LiveSlots
    BY <2>4 DEF LiveSlots
  <2> QED
    BY <2>3, <2>5 DEF CapacityHeld
<1>2. CASE free = <<>>
  <2> DEFINE r == [generation |-> 1, held |-> None]
             n == Len(slots) + 1
  <2>1. r \in SlotRecord /\ n \in Nat
    BY <1>0, BoundsAssumption DEF SlotRecord
  <2>2. /\ slots' = Append(slots, r) /\ free' = Append(free, n)
        /\ Cardinality(LiveSlots) < MaxContinuations
    BY <1>2 DEF StageConflict, CanAllocate
  <2>3. /\ DOMAIN slots' = 1..n
        /\ \A u \in DOMAIN slots : slots'[u] = slots[u]
        /\ slots'[n] = r
    BY <2>1, <2>2, PushedFacts DEF TableInv, TableType
  <2>4. LiveSlots' = LiveSlots
    BY <1>0, <2>3 DEF LiveSlots
  <2>5. Len(free') = 1
    <3>1. Len(free) = 0
      BY <1>2
    <3> QED
      BY <2>1, <2>2, <3>1, PushedFacts DEF TableInv, TableType
  <2> QED
    BY <1>0, <2>2, <2>4, <2>5, BoundsAssumption DEF CapacityHeld
<1> QED
  BY <1>1, <1>2

\* Every step keeps the capacity.
LEMMA CapacityStep ==
  ASSUME WorldType, TableInv, CapacityHeld, [Next]_coreVars
  PROVE  CapacityHeld'
<1>1. ASSUME NEW m \in Mixtures, NEW g \in Generations, RegisterMixture(m, g)
      PROVE  CapacityHeld'
  <2>1. OfMixture(m) \in SUBSET LiveSlots
    BY DEF OfMixture
  <2> QED
    BY <1>1, <2>1, InvalidateCapacity DEF RegisterMixture
<1>2. ASSUME NEW m \in Mixtures, UnregisterMixture(m)
      PROVE  CapacityHeld'
  <2>1. OfMixture(m) \in SUBSET LiveSlots
    BY DEF OfMixture
  <2> QED
    BY <1>2, <2>1, InvalidateCapacity DEF UnregisterMixture
<1>3. ASSUME NEW t \in Turfs, NEW g \in Generations, NEW m \in MixtureHandle \cup {None},
             RegisterTurf(t, g, m)
      PROVE  CapacityHeld'
  <2> DEFINE same == turfs[t].live /\ turfs[t].generation = g /\ turfs[t].mixture = m
             gone == IF same THEN {} ELSE OfTurf(t)
  <2>1. gone \in SUBSET LiveSlots
    BY DEF OfTurf
  <2>2. Invalidate(gone)
    BY <1>3 DEF RegisterTurf
  <2> QED
    BY <2>1, <2>2, InvalidateCapacity
<1>4. ASSUME NEW t \in Turfs, UnregisterTurf(t)
      PROVE  CapacityHeld'
  <2>1. OfTurf(t) \in SUBSET LiveSlots
    BY DEF OfTurf
  <2> QED
    BY <1>4, <2>1, InvalidateCapacity DEF UnregisterTurf
<1>5. ASSUME NEW m \in MixtureHandle, React(m)
      PROVE  CapacityHeld'
  <2>1. [turf |-> None, mixture |-> m] \in Continuation
    BY DEF Continuation
  <2> QED
    BY <1>5, <2>1, AllocateCapacity, NoneAssumption DEF React
<1>6. CASE StageCommit
  <2>1. stage \in Continuation /\ stage # None
    BY <1>6 DEF StageCommit, WorldType
  <2> QED
    BY <1>6, <2>1, AllocateCapacity DEF StageCommit
<1>7. ASSUME AllocationOverflow
      PROVE  CapacityHeld'
  BY <1>7, OverflowCapacity
<1>8. ASSUME UNCHANGED <<slots, free>>
      PROVE  CapacityHeld'
  BY <1>8 DEF CapacityHeld, LiveSlots
<1>9. ASSUME NEW token \in issued, ResumeAgain(token) \/ ResumeToEnd(token) \/ Cancel(token)
      PROVE  CapacityHeld'
  BY <1>9, RotateCapacity, CompleteCapacity DEF ResumeAgain, ResumeToEnd, Cancel
<1>10. CASE Lifecycle
  BY <1>1, <1>2, <1>3, <1>4, <1>10 DEF Lifecycle
<1>11. CASE Reactions
  <2>1. ASSUME NEW m \in MixtureHandle, ReactOverflows(m)
        PROVE  CapacityHeld'
    BY <2>1, <1>7 DEF ReactOverflows
  <2>2. ASSUME NEW t \in Turfs, StageBegin(t)
        PROVE  CapacityHeld'
    BY <2>2, <1>8 DEF StageBegin
  <2>3. CASE StageEnd \/ StageOverflows \/ StageConflict
    BY <2>3, <1>7, <1>8, ConflictCapacity DEF StageEnd, StageOverflows
  <2> QED
    BY <1>5, <1>6, <1>9, <1>11, <2>1, <2>2, <2>3 DEF Reactions
<1>12. CASE UNCHANGED coreVars
  BY <1>12, <1>8 DEF coreVars
<1> QED
  BY <1>10, <1>11, <1>12 DEF Next

(***************************************************************************)
(* Theorems                                                                *)
(***************************************************************************)

\* The inductive invariant holds in every reachable state.
THEOREM InvariantTheorem == Spec => []ContinuationsInv
<1>1. ContinuationsInv /\ [Next]_coreVars => ContinuationsInv'
  BY InvStep
<1> QED
  BY <1>1, InvInit, PTL DEF Spec

\* Type correctness: in particular a continuation's generation stays within 32 bits,
\* whatever the interleaving of reuse (allocate_continuation) and rotation.
THEOREM TypeTheorem == Spec => []TypeOK
<1>1. ContinuationsInv => TypeOK
  BY TypeSplit DEF ContinuationsInv, TableInv
<1> QED
  BY <1>1, InvariantTheorem, PTL

\* free_continuations names empty slots, each once, so no two suspended reactions
\* ever share a slot.
THEOREM FreeListTheorem == Spec => []FreeListSound
<1>1. ContinuationsInv => FreeListSound
  BY DEF ContinuationsInv, TableInv
<1> QED
  BY <1>1, InvariantTheorem, PTL

\* A suspended reaction never outlives its mixture or its turf's tie to the mixture.
THEOREM CurrentTheorem == Spec => []ContinuationsCurrent
<1>1. ContinuationsInv => ContinuationsCurrent
  BY DEF ContinuationsInv
<1> QED
  BY <1>1, InvariantTheorem, PTL

\* A token that was resumed, rotated, cancelled or invalidated never works again.
THEOREM SingleUseTheorem == Spec => TokensSingleUse
<1>1. ContinuationsInv /\ [Next]_coreVars
        => [\A token \in issued : ~TokenLive(token) => ~TokenLive(token)']_coreVars
  BY TableStep DEF ContinuationsInv, DeadStayDead
<1> QED
  BY <1>1, InvariantTheorem, PTL DEF Spec, TokensSingleUse

\* max_continuations bounds the suspended reactions together with the reusable slots.
THEOREM CapacityTheorem == Spec => []CapacityHeld
<1>1. Init => CapacityHeld
  <2> SUFFICES ASSUME Init PROVE CapacityHeld
    OBVIOUS
  <2>1. LiveSlots = {} /\ Len(free) = 0
    BY DEF Init, LiveSlots
  <2> QED
    BY <2>1, FS_EmptySet, BoundsAssumption DEF CapacityHeld
<1>2. ContinuationsInv /\ CapacityHeld /\ [Next]_coreVars => CapacityHeld'
  BY CapacityStep DEF ContinuationsInv
<1> QED
  BY <1>1, <1>2, InvariantTheorem, PTL DEF Spec

\* The slot table is sound: no slot is handed out twice and the capacity holds,
\* through reuse, conflicts, invalidation and exhausted generations.
THEOREM TableTheorem == Spec => []TableSound
BY FreeListTheorem, CapacityTheorem, PTL DEF TableSound

(***************************************************************************)
(* The callback queues of dogmosd.                                         *)
(***************************************************************************)
\* What a queue holds and what the service keeps of a reaction transaction.
QueuedCallback == [seq : Nat, id : Nat]
Transaction == [queue : Seq(QueuedCallback), next : Nat, complete : BOOLEAN]

\* A set of natural numbers that is not empty has a least one.
LEMMA LeastNumber ==
  ASSUME NEW T \in SUBSET Nat, T # {}
  PROVE  \E x \in T : \A y \in T : x <= y
<1> DEFINE R == {ss \in Nat \X Nat : ss[1] < ss[2]}
<1>1. IsWellFoundedOn(R, Nat)
  BY NatLessThanWellFounded DEF OpToRel
<1> HIDE DEF R
<1>2. PICK x \in T : \A y \in T : ~(<<y, x>> \in R)
  BY <1>1, WFMin
<1>3. \A y \in T : ~(y < x)
  BY <1>2 DEF R
<1> QED
  BY <1>3

(***************************************************************************)
(* Retaining callbacks                                                     *)
(***************************************************************************)
Wanted(q, ids) == q.id = 0 \/ q.id \in ids

KeptNext(f, queue, ids, n) ==
  IF n = 0 THEN <<>>
  ELSE IF Wanted(queue[n], ids) THEN Append(f[n - 1], queue[n]) ELSE f[n - 1]

Keeping(f, queue, ids, m) == f = [n \in 0..m |-> KeptNext(f, queue, ids, n)]

Kept(queue, ids) ==
  CHOOSE f : f = [n \in 0..Len(queue) |-> KeptNext(f, queue, ids, n)]

LEMMA RetainedIsKept ==
  ASSUME NEW queue, NEW ids
  PROVE  Retained(queue, ids) = Kept(queue, ids)[Len(queue)]
  BY DEF Retained, Kept, KeptNext, Wanted

\* The recursion is defined for queues of every length.
LEMMA KeepingExists ==
  ASSUME NEW queue, NEW ids, NEW n \in Nat
  PROVE  \E f : Keeping(f, queue, ids, n)
<1> DEFINE Bad == {m \in Nat : ~\E f : Keeping(f, queue, ids, m)}
<1> SUFFICES ASSUME n \in Bad PROVE FALSE
  OBVIOUS
<1>1. PICK m \in Bad : \A y \in Bad : m <= y
  BY LeastNumber
<1>2. m \in Nat /\ ~\E f : Keeping(f, queue, ids, m)
  OBVIOUS
<1>3. CASE m = 0
  <2> DEFINE f == [k \in 0..m |-> <<>>]
  <2>1. Keeping(f, queue, ids, m)
    BY <1>3 DEF Keeping, KeptNext
  <2> QED
    BY <1>2, <2>1
<1>4. CASE m # 0
  <2>1. m - 1 \in Nat /\ m - 1 \notin Bad
    BY <1>1, <1>2, <1>4
  <2>2. PICK f : Keeping(f, queue, ids, m - 1)
    BY <2>1
  <2> DEFINE g == [k \in 0..m |-> KeptNext(f, queue, ids, k)]
  <2>3. \A k \in 0..(m - 1) : f[k] = KeptNext(f, queue, ids, k)
    BY <2>2 DEF Keeping
  <2>4. \A k \in 0..(m - 1) : g[k] = f[k]
    BY <1>2, <2>3
  <2>5. \A k \in 0..m : KeptNext(f, queue, ids, k) = KeptNext(g, queue, ids, k)
    <3> SUFFICES ASSUME NEW k \in 0..m
                 PROVE  KeptNext(f, queue, ids, k) = KeptNext(g, queue, ids, k)
      OBVIOUS
    <3>1. CASE k = 0
      BY <3>1 DEF KeptNext
    <3>2. CASE k # 0
      <4>1. k - 1 \in 0..(m - 1)
        BY <1>2, <3>2
      <4> HIDE DEF g
      <4> QED
        BY <2>4, <3>2, <4>1 DEF KeptNext
    <3> QED
      BY <3>1, <3>2
  <2>6. Keeping(g, queue, ids, m)
    BY <2>5 DEF Keeping
  <2> QED
    BY <1>2, <2>6
<1> QED
  BY <1>3, <1>4

\* Each step of the recursion looks at one callback.
LEMMA KeptStep ==
  ASSUME NEW queue \in Seq(QueuedCallback), NEW ids, NEW n \in 0..Len(queue)
  PROVE  Kept(queue, ids)[n] = KeptNext(Kept(queue, ids), queue, ids, n)
<1>1. Len(queue) \in Nat
  BY LenProperties
<1>2. PICK f : Keeping(f, queue, ids, Len(queue))
  BY <1>1, KeepingExists
<1>3. f = [k \in 0..Len(queue) |-> KeptNext(f, queue, ids, k)]
  BY <1>2 DEF Keeping
<1>4. Kept(queue, ids) = [k \in 0..Len(queue) |-> KeptNext(Kept(queue, ids), queue, ids, k)]
  BY <1>3 DEF Kept
<1> QED
  BY <1>4

\* r holds callbacks of the first n of queue, those that are wanted, in their order.
PartOf(r, queue, ids, n) ==
  /\ r \in Seq(QueuedCallback) /\ Len(r) <= n
  /\ \A i \in 1..Len(r) : Wanted(r[i], ids) /\ \E a \in 1..n : r[i] = queue[a]
  /\ \A i, j \in 1..Len(r) : i < j =>
       \E a, b \in 1..n : a < b /\ r[i] = queue[a] /\ r[j] = queue[b]

LEMMA PartGrows ==
  ASSUME NEW queue \in Seq(QueuedCallback), NEW ids, NEW n \in 1..Len(queue),
         NEW r, PartOf(r, queue, ids, n - 1)
  PROVE  /\ PartOf(r, queue, ids, n)
         /\ Wanted(queue[n], ids) => PartOf(Append(r, queue[n]), queue, ids, n)
<1>1. Len(queue) \in Nat /\ n \in Nat /\ queue[n] \in QueuedCallback
  BY LenProperties, ElementOfSeq
<1>2. /\ r \in Seq(QueuedCallback) /\ Len(r) \in Nat /\ Len(r) <= n - 1
  BY LenProperties DEF PartOf
<1>3. PartOf(r, queue, ids, n)
  <2>1. \A a \in 1..(n - 1) : a \in 1..n
    BY <1>1
  <2> QED
    BY <1>1, <1>2, <2>1 DEF PartOf
<1>4. ASSUME Wanted(queue[n], ids)
      PROVE  PartOf(Append(r, queue[n]), queue, ids, n)
  <2> DEFINE s == Append(r, queue[n])
  <2>1. /\ s \in Seq(QueuedCallback) /\ Len(s) = Len(r) + 1
        /\ \A i \in 1..Len(r) : s[i] = r[i]
        /\ s[Len(r) + 1] = queue[n]
    BY <1>1, <1>2, AppendProperties
  <2> HIDE DEF s
  <2>2. ASSUME NEW i \in 1..Len(s)
        PROVE  Wanted(s[i], ids) /\ \E a \in 1..n : s[i] = queue[a]
    <3>1. CASE i = Len(r) + 1
      BY <1>1, <1>4, <2>1, <3>1
    <3>2. CASE i # Len(r) + 1
      <4>1. i \in 1..Len(r)
        BY <1>2, <2>1, <3>2
      <4> QED
        BY <1>3, <2>1, <4>1 DEF PartOf
    <3> QED
      BY <3>1, <3>2
  <2>3. ASSUME NEW i \in 1..Len(s), NEW j \in 1..Len(s), i < j
        PROVE  \E a, b \in 1..n : a < b /\ s[i] = queue[a] /\ s[j] = queue[b]
    <3>1. i \in 1..Len(r) /\ s[i] = r[i]
      BY <1>2, <2>1, <2>3
    <3>2. CASE j = Len(r) + 1
      <4>1. PICK a \in 1..(n - 1) : r[i] = queue[a]
        BY <3>1 DEF PartOf
      <4>2. a \in 1..n /\ n \in 1..n /\ a < n
        BY <1>1
      <4> QED
        BY <2>1, <3>1, <3>2, <4>1, <4>2
    <3>3. CASE j # Len(r) + 1
      <4>1. j \in 1..Len(r)
        BY <1>2, <2>1, <3>3
      <4> QED
        BY <1>3, <2>1, <2>3, <3>1, <4>1 DEF PartOf
    <3> QED
      BY <3>2, <3>3
  <2>4. Len(s) <= n
    BY <1>1, <1>2, <2>1
  <2> QED
    BY <2>1, <2>2, <2>3, <2>4 DEF PartOf, s
<1> QED
  BY <1>3, <1>4

\* Retaining leaves callbacks of the queue in their order, and only wanted ones.
LEMMA RetainedFacts ==
  ASSUME NEW queue \in Seq(QueuedCallback), NEW ids
  PROVE  PartOf(Retained(queue, ids), queue, ids, Len(queue))
<1> DEFINE f == Kept(queue, ids)
           Bad == {n \in 0..Len(queue) : ~PartOf(f[n], queue, ids, n)}
<1>1. Len(queue) \in Nat
  BY LenProperties
<1>2. \A n \in 0..Len(queue) : f[n] = KeptNext(f, queue, ids, n)
  BY KeptStep
<1> HIDE DEF f
<1>3. Bad = {}
  <2> SUFFICES ASSUME Bad # {} PROVE FALSE
    OBVIOUS
  <2>1. Bad \in SUBSET Nat
    BY <1>1
  <2>2. PICK n \in Bad : \A y \in Bad : n <= y
    BY <2>1, LeastNumber
  <2>3. n \in 0..Len(queue) /\ ~PartOf(f[n], queue, ids, n) /\ f[n] = KeptNext(f, queue, ids, n)
    BY <1>2
  <2>4. CASE n = 0
    <3>1. f[n] = <<>>
      BY <2>3, <2>4 DEF KeptNext
    <3>2. <<>> \in Seq(QueuedCallback) /\ Len(<<>>) = 0
      BY EmptySeq
    <3>3. \A i : i \notin 1..Len(<<>>)
      BY <3>2
    <3>4. PartOf(<<>>, queue, ids, 0)
      BY <3>2, <3>3 DEF PartOf
    <3> QED
      BY <2>3, <2>4, <3>1, <3>4
  <2>5. CASE n # 0
    <3>1. n \in 1..Len(queue) /\ n - 1 \in 0..Len(queue) /\ n - 1 \notin Bad
      BY <1>1, <2>2, <2>3, <2>5
    <3>2. PartOf(f[n - 1], queue, ids, n - 1)
      BY <3>1
    <3>3. f[n] = IF Wanted(queue[n], ids) THEN Append(f[n - 1], queue[n]) ELSE f[n - 1]
      BY <2>3, <2>5 DEF KeptNext
    <3> HIDE DEF Bad
    <3> QED
      BY <2>3, <3>1, <3>2, <3>3, PartGrows
  <2> QED
    BY <2>4, <2>5
<1>4. Len(queue) \in 0..Len(queue) \ Bad
  BY <1>1, <1>3
<1> QED
  BY <1>4, RetainedIsKept DEF f

(***************************************************************************)
(* Counting callbacks                                                      *)
(***************************************************************************)

\* reaction_callbacks: transactions opened before the n-th.
Table(T, n) == DOMAIN T \in SUBSET (1..(n - 1)) /\ T \in [DOMAIN T -> Transaction]

\* How many callbacks transaction t has queued.
Weight(T, t) == IF t \in DOMAIN T THEN Len(T[t].queue) ELSE 0

LEMMA TransactionFacts ==
  ASSUME NEW n, NEW T, Table(T, n), NEW t \in DOMAIN T
  PROVE  /\ T[t] \in Transaction
         /\ T[t].queue \in Seq(QueuedCallback)
         /\ Len(T[t].queue) \in Nat
         /\ DOMAIN T[t].queue = 1..Len(T[t].queue)
         /\ T[t].next \in Nat /\ T[t].complete \in BOOLEAN
         /\ T[t] = [queue |-> T[t].queue, next |-> T[t].next, complete |-> T[t].complete]
<1>1. T[t] \in Transaction
  BY DEF Table
<1>2. /\ T[t].queue \in Seq(QueuedCallback)
      /\ T[t].next \in Nat /\ T[t].complete \in BOOLEAN
      /\ T[t] = [queue |-> T[t].queue, next |-> T[t].next, complete |-> T[t].complete]
  BY <1>1 DEF Transaction
<1> QED
  BY <1>1, <1>2, LenProperties

\* A position is a transaction and one of its callbacks.
LEMMA PositionFacts ==
  ASSUME NEW n, NEW T, Table(T, n)
  PROVE  /\ \A t : Weight(T, t) \in Nat
         /\ \A t, i : <<t, i>> \in Positions(T) <=> i \in 1..Weight(T, t)
         /\ \A p \in Positions(T) : p = <<p[1], p[2]>>
<1>1. \A t \in DOMAIN T : DOMAIN T[t].queue = 1..Weight(T, t)
  BY TransactionFacts DEF Weight
<1>2. \A t : t \notin DOMAIN T => Weight(T, t) = 0
  BY DEF Weight
<1>3. \A t : Weight(T, t) \in Nat
  BY <1>2, TransactionFacts DEF Weight
<1>4. \A t, i : <<t, i>> \in Positions(T) <=> t \in DOMAIN T /\ i \in DOMAIN T[t].queue
  BY DEF Positions
<1>5. \A t, i : i \in 1..Weight(T, t) => t \in DOMAIN T
  BY <1>2
<1>6. \A p \in Positions(T) : p = <<p[1], p[2]>>
  BY DEF Positions
<1> QED
  BY <1>1, <1>3, <1>4, <1>5, <1>6

LEMMA PositionsFinite ==
  ASSUME NEW n \in Nat, NEW T, Table(T, n)
  PROVE  IsFiniteSet(Positions(T)) /\ Cardinality(Positions(T)) \in Nat
<1> DEFINE f == [t \in DOMAIN T |-> {t} \X DOMAIN T[t].queue]
           S == {{t} \X DOMAIN T[t].queue : t \in DOMAIN T}
<1>1. IsFiniteSet(DOMAIN T)
  <2>1. IsFiniteSet(1..(n - 1))
    BY FS_Interval
  <2> QED
    BY <2>1, FS_Subset DEF Table
<1>2. f \in Surjection(DOMAIN T, S)
  BY DEF Surjection
<1>3. IsFiniteSet(S)
  BY <1>1, <1>2, FS_Surjection
<1>4. \A s \in S : IsFiniteSet(s)
  <2> SUFFICES ASSUME NEW t \in DOMAIN T PROVE IsFiniteSet({t} \X DOMAIN T[t].queue)
    OBVIOUS
  <2>1. DOMAIN T[t].queue = 1..Len(T[t].queue) /\ Len(T[t].queue) \in Nat
    BY TransactionFacts
  <2>2. IsFiniteSet(1..Len(T[t].queue))
    BY <2>1, FS_Interval
  <2>3. IsFiniteSet({t})
    BY FS_Singleton
  <2> QED
    BY <2>1, <2>2, <2>3, FS_Product
<1>5. IsFiniteSet(UNION S)
  BY <1>3, <1>4, FS_UNION
<1> QED
  BY <1>5, FS_CardinalityType DEF Positions

LEMMA DepthIsNat ==
  ASSUME NEW n \in Nat, NEW T, Table(T, n), NEW queue \in Seq(QueuedCallback)
  PROVE  Depth(queue, T) \in Nat
  BY PositionsFinite, LenProperties DEF Depth

\* Shorter queues have fewer callbacks.
LEMMA DepthShrinks ==
  ASSUME NEW n \in Nat, NEW T, Table(T, n), NEW queue \in Seq(QueuedCallback),
         NEW m \in Nat, NEW U, Table(U, m), NEW left \in Seq(QueuedCallback),
         Len(left) <= Len(queue), \A t : Weight(U, t) <= Weight(T, t)
  PROVE  Depth(left, U) <= Depth(queue, T)
<1>1. Positions(U) \subseteq Positions(T)
  <2> SUFFICES ASSUME NEW p \in Positions(U) PROVE p \in Positions(T)
    OBVIOUS
  <2>1. p = <<p[1], p[2]>> /\ p[2] \in 1..Weight(U, p[1])
    BY PositionFacts
  <2>2. p[2] \in 1..Weight(T, p[1])
    BY <2>1, PositionFacts
  <2> QED
    BY <2>1, <2>2, PositionFacts
<1>2. Cardinality(Positions(U)) <= Cardinality(Positions(T))
  BY <1>1, PositionsFinite, FS_Subset
<1>3. /\ Cardinality(Positions(U)) \in Nat /\ Cardinality(Positions(T)) \in Nat
      /\ Len(left) \in Nat /\ Len(queue) \in Nat
  BY PositionsFinite, LenProperties
<1> QED
  BY <1>2, <1>3 DEF Depth

\* Queues of the same lengths have as many callbacks.
LEMMA DepthSame ==
  ASSUME NEW n, NEW T, Table(T, n), NEW m, NEW U, Table(U, m), NEW queue,
         \A t : Weight(U, t) = Weight(T, t)
  PROVE  Depth(queue, U) = Depth(queue, T)
<1>1. \A p : p \in Positions(U) <=> p \in Positions(T)
  <2> TAKE p
  <2>1. ASSUME p \in Positions(U) PROVE p \in Positions(T)
    BY <2>1, PositionFacts
  <2>2. ASSUME p \in Positions(T) PROVE p \in Positions(U)
    BY <2>2, PositionFacts
  <2> QED
    BY <2>1, <2>2
<1>2. Positions(U) = Positions(T)
  BY <1>1
<1> QED
  BY <1>2 DEF Depth

\* k callbacks more in one transaction are k callbacks more.
LEMMA DepthGrows ==
  ASSUME NEW n \in Nat, NEW T, Table(T, n), NEW m \in Nat, NEW U, Table(U, m),
         NEW queue \in Seq(QueuedCallback), NEW tx, NEW k \in Nat,
         Weight(U, tx) = Weight(T, tx) + k,
         \A t : t # tx => Weight(U, t) = Weight(T, t)
  PROVE  Depth(queue, U) = Depth(queue, T) + k
<1> DEFINE w == Weight(T, tx)
           I == (w + 1)..(w + k)
           New == {tx} \X I
<1>1. w \in Nat
  BY PositionFacts
<1>2. \A i : i \in 1..Weight(U, tx) <=> i \in 1..w \/ i \in I
  BY <1>1
<1>3. \A i : i \in 1..w => i \notin I
  BY <1>1
<1>4. IsFiniteSet(I) /\ Cardinality(I) = k
  <2>1. w + 1 \in Int /\ w + k \in Int
    BY <1>1
  <2>2. /\ IsFiniteSet(I)
        /\ Cardinality(I) = IF w + 1 > w + k THEN 0 ELSE (w + k) - (w + 1) + 1
    BY <2>1, FS_Interval
  <2> HIDE DEF I
  <2> QED
    BY <1>1, <2>2
<1> HIDE DEF I
<1>5. IsFiniteSet(New) /\ Cardinality(New) = k
  <2>1. IsFiniteSet({tx}) /\ Cardinality({tx}) = 1
    BY FS_Singleton
  <2>2. IsFiniteSet(New) /\ Cardinality(New) = 1 * k
    BY <1>4, <2>1, FS_Product
  <2> QED
    BY <2>2
<1>6. \A t, i : <<t, i>> \in New <=> t = tx /\ i \in I
  OBVIOUS
<1>7. \A p \in New : p = <<p[1], p[2]>>
  OBVIOUS
<1> HIDE DEF New
<1>8. \A p : p \in Positions(U) <=> p \in Positions(T) \/ p \in New
  <2> SUFFICES ASSUME NEW t, NEW i
               PROVE  <<t, i>> \in Positions(U)
                        <=> <<t, i>> \in Positions(T) \/ <<t, i>> \in New
    BY <1>7, PositionFacts
  <2>1. CASE t = tx
    <3>1. <<t, i>> \in Positions(U) <=> i \in 1..Weight(U, t)
      BY PositionFacts
    <3>2. <<t, i>> \in Positions(T) <=> i \in 1..Weight(T, t)
      BY PositionFacts
    <3> QED
      BY <1>2, <1>6, <2>1, <3>1, <3>2
  <2>2. CASE t # tx
    <3>1. <<t, i>> \in Positions(U) <=> i \in 1..Weight(U, t)
      BY PositionFacts
    <3>2. <<t, i>> \in Positions(T) <=> i \in 1..Weight(T, t)
      BY PositionFacts
    <3> QED
      BY <1>6, <2>2, <3>1, <3>2
  <2> QED
    BY <2>1, <2>2
<1>9. Positions(U) = Positions(T) \cup New
  BY <1>8
<1>10. Positions(T) \cap New = {}
  <2> SUFFICES ASSUME NEW p, p \in Positions(T), p \in New PROVE FALSE
    OBVIOUS
  <2>1. p = <<p[1], p[2]>> /\ p[2] \in 1..Weight(T, p[1])
    BY PositionFacts
  <2>2. p[1] = tx /\ p[2] \in I
    BY <1>6, <2>1
  <2> QED
    BY <1>3, <2>1, <2>2
<1>11. Cardinality(Positions(U)) = Cardinality(Positions(T)) + k
  <2>1. Cardinality(Positions(U))
          = Cardinality(Positions(T)) + Cardinality(New) - Cardinality(Positions(T) \cap New)
    BY <1>5, <1>9, PositionsFinite, FS_Union
  <2>2. Cardinality(Positions(T) \cap New) = 0
    BY <1>10, FS_EmptySet
  <2> QED
    BY <1>5, <2>1, <2>2, PositionsFinite
<1> QED
  BY <1>11, PositionsFinite, LenProperties DEF Depth

(***************************************************************************)
(* The books: entries, queues and transactions.                            *)
(***************************************************************************)

\* A queued continuation callback has its entry, of the transaction of its queue.
Held(queue, t, entries) ==
  \A i \in 1..Len(queue) :
    queue[i].id # 0 => \E p \in entries : p.id = queue[i].id /\ p.tx = t

\* The numbers of a queue rise, above low and below high.
Rising(queue, low, high) ==
  \A i \in 1..Len(queue) :
    /\ low < queue[i].seq /\ queue[i].seq < high
    /\ \A j \in 1..Len(queue) : i < j => queue[i].seq < queue[j].seq

\* Entries have ids of their own, below the next one.
Identified(entries, c) ==
  \A p \in entries : /\ p.id \in 1..(c - 1)
                     /\ \A q \in entries : p.id = q.id => p = q

Books(entries, queue, T, n, c) ==
  /\ Identified(entries, c) /\ queue \in Seq(QueuedCallback) /\ Table(T, n)
  /\ Held(queue, 0, entries) /\ \A t \in DOMAIN T : Held(T[t].queue, t, entries)

\* When entries go and their callbacks with them, the others keep their entries.
LEMMA RetainedHeld ==
  ASSUME NEW entries, NEW c, Identified(entries, c), NEW rest \in SUBSET entries,
         NEW queue \in Seq(QueuedCallback), NEW t, Held(queue, t, entries)
  PROVE  /\ Retained(queue, Ids(rest)) \in Seq(QueuedCallback)
         /\ Len(Retained(queue, Ids(rest))) <= Len(queue)
         /\ Held(Retained(queue, Ids(rest)), t, rest)
<1> DEFINE r == Retained(queue, Ids(rest))
<1>1. PartOf(r, queue, Ids(rest), Len(queue))
  BY RetainedFacts
<1> HIDE DEF r
<1>2. ASSUME NEW i \in 1..Len(r), r[i].id # 0
      PROVE  \E p \in rest : p.id = r[i].id /\ p.tx = t
  <2>1. r[i].id \in Ids(rest) /\ \E a \in 1..Len(queue) : r[i] = queue[a]
    BY <1>1, <1>2 DEF PartOf, Wanted
  <2>2. PICK q \in rest : q.id = r[i].id
    BY <2>1 DEF Ids
  <2>3. PICK p \in entries : p.id = r[i].id /\ p.tx = t
    BY <1>2, <2>1 DEF Held
  <2>4. p = q
    BY <2>2, <2>3 DEF Identified
  <2> QED
    BY <2>2, <2>3, <2>4
<1>3. Held(r, t, rest)
  BY <1>2 DEF Held
<1> QED
  BY <1>1, <1>3 DEF PartOf, r

\* Retaining callbacks leaves the numbers rising.
LEMMA RetainedRising ==
  ASSUME NEW queue \in Seq(QueuedCallback), NEW ids, NEW low \in Nat, NEW high \in Nat,
         Rising(queue, low, high)
  PROVE  Rising(Retained(queue, ids), low, high)
<1> DEFINE r == Retained(queue, ids)
<1>1. PartOf(r, queue, ids, Len(queue))
  BY RetainedFacts
<1> HIDE DEF r
<1>2. ASSUME NEW i \in 1..Len(r)
      PROVE  /\ low < r[i].seq /\ r[i].seq < high
             /\ \A j \in 1..Len(r) : i < j => r[i].seq < r[j].seq
  <2>1. low < r[i].seq /\ r[i].seq < high
    BY <1>1 DEF PartOf, Rising
  <2>2. ASSUME NEW j \in 1..Len(r), i < j
        PROVE  r[i].seq < r[j].seq
    <3>1. PICK a \in 1..Len(queue), b \in 1..Len(queue) :
            a < b /\ r[i] = queue[a] /\ r[j] = queue[b]
      BY <1>1, <2>2 DEF PartOf
    <3> QED
      BY <3>1 DEF Rising
  <2> QED
    BY <2>1, <2>2
<1> QED
  BY <1>2 DEF Rising, r

\* The entries that go take their callbacks with them, in both scopes.
LEMMA RetainedBooks ==
  ASSUME NEW entries, NEW queue, NEW T, NEW n \in Nat, NEW c,
         Books(entries, queue, T, n, c), NEW rest \in SUBSET entries
  PROVE  LET left == Retained(queue, Ids(rest))
             U == RetainedAll(T, Ids(rest))
         IN  /\ Books(rest, left, U, n, c)
             /\ Depth(left, U) <= Depth(queue, T)
             /\ DOMAIN U = DOMAIN T
             /\ \A t \in DOMAIN T : U[t].complete = T[t].complete
<1> DEFINE left == Retained(queue, Ids(rest))
           U == RetainedAll(T, Ids(rest))
<1>1. Identified(rest, c)
  BY DEF Books, Identified
<1>2. /\ left \in Seq(QueuedCallback) /\ Len(left) <= Len(queue) /\ Held(left, 0, rest)
  BY RetainedHeld DEF Books
<1>3. DOMAIN U = DOMAIN T
  BY DEF RetainedAll
<1>4. ASSUME NEW t \in DOMAIN T
      PROVE  /\ U[t] \in Transaction /\ Held(U[t].queue, t, rest)
             /\ Len(U[t].queue) <= Len(T[t].queue) /\ U[t].complete = T[t].complete
  <2> DEFINE r == Retained(T[t].queue, Ids(rest))
  <2>1. /\ T[t].queue \in Seq(QueuedCallback)
        /\ T[t].next \in Nat /\ T[t].complete \in BOOLEAN
        /\ T[t] = [queue |-> T[t].queue, next |-> T[t].next, complete |-> T[t].complete]
    BY TransactionFacts DEF Books
  <2>2. r \in Seq(QueuedCallback) /\ Len(r) <= Len(T[t].queue) /\ Held(r, t, rest)
    BY <2>1, RetainedHeld DEF Books
  <2>3. U[t] = [T[t] EXCEPT !.queue = r]
    BY DEF RetainedAll
  <2> HIDE DEF r, U
  <2>4. U[t] = [queue |-> r, next |-> T[t].next, complete |-> T[t].complete]
    BY <2>1, <2>3
  <2> QED
    BY <2>1, <2>2, <2>4 DEF Transaction
<1>5. Table(U, n)
  <2>1. U = [t \in DOMAIN T |-> U[t]]
    BY DEF RetainedAll
  <2> HIDE DEF U
  <2>2. U \in [DOMAIN T -> Transaction]
    BY <1>4, <2>1
  <2> QED
    BY <1>3, <2>2 DEF Table, Books
<1> HIDE DEF left, U
<1>6. \A t : Weight(U, t) <= Weight(T, t)
  BY <1>3, <1>4 DEF Weight
<1>7. Depth(left, U) <= Depth(queue, T)
  BY <1>2, <1>5, <1>6, DepthShrinks DEF Books
<1>8. Books(rest, left, U, n, c)
  BY <1>1, <1>2, <1>3, <1>4, <1>5 DEF Books
<1> QED
  BY <1>3, <1>4, <1>7, <1>8 DEF left, U

\* Transactions may go.
LEMMA WithoutBooks ==
  ASSUME NEW entries, NEW queue, NEW T, NEW n \in Nat, NEW c,
         Books(entries, queue, T, n, c), NEW gone
  PROVE  LET U == WithoutTransactions(T, gone) IN
         /\ Books(entries, queue, U, n, c)
         /\ Depth(queue, U) <= Depth(queue, T)
         /\ DOMAIN U = DOMAIN T \ gone
         /\ \A t \in DOMAIN U : U[t] = T[t]
<1> DEFINE U == WithoutTransactions(T, gone)
<1>1. DOMAIN U = DOMAIN T \ gone /\ \A t \in DOMAIN U : U[t] = T[t]
  BY DEF WithoutTransactions
<1>2. Table(U, n)
  BY DEF WithoutTransactions, Table, Books
<1> HIDE DEF U
<1>3. \A t : Weight(U, t) <= Weight(T, t)
  <2> TAKE t
  <2>1. Weight(T, t) \in Nat
    BY PositionFacts DEF Books
  <2> QED
    BY <1>1, <2>1 DEF Weight
<1>4. Len(queue) <= Len(queue)
  BY LenProperties DEF Books
<1>5. Depth(queue, U) <= Depth(queue, T)
  BY <1>2, <1>3, <1>4, DepthShrinks DEF Books
<1> QED
  BY <1>1, <1>2, <1>5 DEF Books, U

\* Draining takes the first callbacks of a queue.
LEMMA CutFacts ==
  ASSUME NEW queue \in Seq(QueuedCallback), NEW size \in 0..Len(queue)
  PROVE  LET left == SubSeq(queue, size + 1, Len(queue)) IN
         /\ left \in Seq(QueuedCallback)
         /\ Len(left) = Len(queue) - size
         /\ \A i \in 1..Len(left) : size + i \in 1..Len(queue) /\ left[i] = queue[size + i]
<1> DEFINE left == SubSeq(queue, size + 1, Len(queue))
<1>1. Len(queue) \in Nat /\ size \in Nat /\ size <= Len(queue)
  BY LenProperties
<1>2. \A i \in (size + 1)..Len(queue) : queue[i] \in QueuedCallback
  BY <1>1, ElementOfSeq
<1>3. /\ left \in Seq(QueuedCallback)
      /\ Len(left) = IF size + 1 <= Len(queue) THEN Len(queue) - (size + 1) + 1 ELSE 0
      /\ \A i \in 1..(Len(queue) - (size + 1) + 1) : left[i] = queue[size + 1 + i - 1]
  BY <1>1, <1>2, SubSeqProperties
<1> HIDE DEF left
<1>4. Len(left) = Len(queue) - size
  BY <1>1, <1>3
<1>5. ASSUME NEW i \in 1..Len(left)
      PROVE  size + i \in 1..Len(queue) /\ left[i] = queue[size + i]
  <2>1. i \in 1..(Len(queue) - (size + 1) + 1) /\ size + 1 + i - 1 = size + i
    BY <1>1, <1>4
  <2>2. size + i \in 1..Len(queue)
    BY <1>1, <1>4
  <2> QED
    BY <1>3, <2>1, <2>2
<1> QED
  BY <1>3, <1>4, <1>5 DEF left

LEMMA CutHeld ==
  ASSUME NEW queue \in Seq(QueuedCallback), NEW size \in 0..Len(queue), NEW t, NEW entries,
         Held(queue, t, entries)
  PROVE  Held(SubSeq(queue, size + 1, Len(queue)), t, entries)
<1> DEFINE left == SubSeq(queue, size + 1, Len(queue))
<1>1. \A i \in 1..Len(left) : size + i \in 1..Len(queue) /\ left[i] = queue[size + i]
  BY CutFacts
<1> HIDE DEF left
<1>2. Held(left, t, entries)
  BY <1>1 DEF Held
<1> QED
  BY <1>2 DEF left

LEMMA CutRising ==
  ASSUME NEW queue \in Seq(QueuedCallback), NEW size \in 0..Len(queue),
         NEW low \in Nat, NEW high \in Nat, Rising(queue, low, high), low < high
  PROVE  LET last == IF size = 0 THEN low ELSE queue[size].seq IN
         /\ last \in Nat /\ last < high
         /\ Rising(SubSeq(queue, size + 1, Len(queue)), last, high)
<1> DEFINE left == SubSeq(queue, size + 1, Len(queue))
           last == IF size = 0 THEN low ELSE queue[size].seq
<1>1. /\ Len(left) = Len(queue) - size
      /\ \A i \in 1..Len(left) : size + i \in 1..Len(queue) /\ left[i] = queue[size + i]
  BY CutFacts
<1>2. Len(queue) \in Nat /\ size \in Nat /\ size <= Len(queue)
  BY LenProperties
<1>3. \A i \in 1..Len(queue) : queue[i].seq \in Nat
  <2> SUFFICES ASSUME NEW i \in 1..Len(queue) PROVE queue[i].seq \in Nat
    OBVIOUS
  <2>1. queue[i] \in QueuedCallback
    BY ElementOfSeq
  <2> QED
    BY <2>1 DEF QueuedCallback
<1>4. last \in Nat /\ last < high
  <2>1. CASE size = 0
    BY <2>1
  <2>2. CASE size # 0
    <3>1. size \in 1..Len(queue)
      BY <1>2, <2>2
    <3> QED
      BY <1>3, <2>2, <3>1 DEF Rising
  <2> QED
    BY <2>1, <2>2
<1> HIDE DEF left
<1>5. ASSUME NEW i \in 1..Len(left)
      PROVE  /\ last < left[i].seq /\ left[i].seq < high
             /\ \A j \in 1..Len(left) : i < j => left[i].seq < left[j].seq
  <2>1. size + i \in 1..Len(queue) /\ left[i] = queue[size + i]
    BY <1>1
  <2>2. left[i].seq < high
    BY <2>1 DEF Rising
  <2>3. last < left[i].seq
    <3>1. CASE size = 0
      BY <2>1, <3>1 DEF Rising
    <3>2. CASE size # 0
      <4>1. size \in 1..Len(queue) /\ size < size + i
        BY <1>1, <1>2, <3>2
      <4> QED
        BY <2>1, <3>2, <4>1 DEF Rising
    <3> QED
      BY <3>1, <3>2
  <2>4. ASSUME NEW j \in 1..Len(left), i < j
        PROVE  left[i].seq < left[j].seq
    <3>1. size + j \in 1..Len(queue) /\ left[j] = queue[size + j]
      BY <1>1
    <3>2. size + i < size + j
      BY <1>1, <1>2, <2>4
    <3> QED
      BY <2>1, <3>1, <3>2 DEF Rising
  <2> QED
    BY <2>2, <2>3, <2>4
<1> QED
  BY <1>4, <1>5 DEF Rising, left

(***************************************************************************)
(* A published batch                                                       *)
(***************************************************************************)
Suspends(all, size) == {i \in 1..size : all[i].token # None}

\* The id of the continuation that event i becomes.
IdOf(all, size, c, i) == c + Cardinality({j \in Suspends(all, size) : j < i})

Batch(all, size, c, first) ==
  [i \in 1..size |-> [seq |-> first + i - 1,
                      id |-> IF i \in Suspends(all, size) THEN IdOf(all, size, c, i) ELSE 0]]

Entry(all, size, c, tx, deadline, i) ==
  [id |-> IdOf(all, size, c, i), token |-> all[i].token, deadline |-> deadline, tx |-> tx,
   turf |-> all[i].turf, mixture |-> all[i].mixture]

NewEntries(all, size, c, tx, deadline) ==
  {Entry(all, size, c, tx, deadline, i) : i \in Suspends(all, size)}

BatchSound(batch, all, size, c, first) ==
  /\ batch \in Seq(QueuedCallback) /\ Len(batch) = size
  /\ \A i \in 1..size :
       /\ batch[i].seq = first + i - 1
       /\ i \in Suspends(all, size) => batch[i].id = IdOf(all, size, c, i)
       /\ i \notin Suspends(all, size) => batch[i].id = 0

\* The ids are numbered on from c.
LEMMA IdFacts ==
  ASSUME NEW all, NEW size \in Nat, NEW c \in Nat \ {0}
  PROVE  LET k == Cardinality(Suspends(all, size)) IN
         /\ k \in Nat
         /\ \A i \in Suspends(all, size) :
              IdOf(all, size, c, i) \in Nat /\ IdOf(all, size, c, i) \in c..(c + k - 1)
         /\ \A i, j \in Suspends(all, size) :
              IdOf(all, size, c, i) = IdOf(all, size, c, j) => i = j
<1> DEFINE S == Suspends(all, size)
           Below(i) == {j \in S : j < i}
<1>1. S \in SUBSET (1..size) /\ IsFiniteSet(S) /\ Cardinality(S) \in Nat
  <2>1. S \in SUBSET (1..size)
    BY DEF Suspends
  <2>2. IsFiniteSet(1..size)
    BY FS_Interval
  <2>3. IsFiniteSet(S)
    BY <2>1, <2>2, FS_Subset
  <2> QED
    BY <2>1, <2>3, FS_CardinalityType
<1> HIDE DEF S
<1>2. \A i : IsFiniteSet(Below(i)) /\ Cardinality(Below(i)) \in Nat
  <2> TAKE i
  <2> DEFINE B == Below(i)
  <2>1. B \in SUBSET S
    OBVIOUS
  <2> HIDE DEF B
  <2>2. IsFiniteSet(B)
    BY <1>1, <2>1, FS_Subset
  <2>3. Cardinality(B) \in Nat
    BY <2>2, FS_CardinalityType
  <2> QED
    BY <2>2, <2>3 DEF B
<1>3. \A i, j \in S : i < j => Cardinality(Below(i)) + 1 <= Cardinality(Below(j))
  <2> SUFFICES ASSUME NEW i \in S, NEW j \in S, i < j
               PROVE  Cardinality(Below(i)) + 1 <= Cardinality(Below(j))
    OBVIOUS
  <2>0. \A x \in S : x \in Nat
    BY <1>1
  <2>1. i \notin Below(i) /\ Below(i) \cup {i} \subseteq Below(j)
    <3>1. \A x \in S : x < i => x < j
      BY <2>0
    <3>2. ~(i < i)
      BY <2>0
    <3> QED
      BY <3>1, <3>2
  <2>2. Cardinality(Below(i) \cup {i}) = Cardinality(Below(i)) + 1
    BY <1>2, <2>1, FS_AddElement
  <2>3. Cardinality(Below(i) \cup {i}) <= Cardinality(Below(j))
    BY <1>2, <2>1, FS_Subset
  <2> QED
    BY <2>2, <2>3
<1>4. \A i \in S : Cardinality(Below(i)) + 1 <= Cardinality(S)
  <2> SUFFICES ASSUME NEW i \in S PROVE Cardinality(Below(i)) + 1 <= Cardinality(S)
    OBVIOUS
  <2>1. i \notin Below(i) /\ Below(i) \cup {i} \subseteq S
    BY <1>1
  <2>2. Cardinality(Below(i) \cup {i}) = Cardinality(Below(i)) + 1
    BY <1>2, <2>1, FS_AddElement
  <2>3. Cardinality(Below(i) \cup {i}) <= Cardinality(S)
    BY <1>1, <2>1, FS_Subset
  <2> QED
    BY <2>2, <2>3
<1>5. \A i : IdOf(all, size, c, i) = c + Cardinality(Below(i))
  BY DEF IdOf, S
<1> HIDE DEF Below
<1>6. \A i \in S : /\ IdOf(all, size, c, i) \in Nat
                   /\ IdOf(all, size, c, i) \in c..(c + Cardinality(S) - 1)
  BY <1>1, <1>2, <1>4, <1>5
<1>7. \A i, j \in S : IdOf(all, size, c, i) = IdOf(all, size, c, j) => i = j
  <2> SUFFICES ASSUME NEW i \in S, NEW j \in S,
                      IdOf(all, size, c, i) = IdOf(all, size, c, j), i # j
               PROVE  FALSE
    OBVIOUS
  <2>1. Cardinality(Below(i)) = Cardinality(Below(j))
    BY <1>2, <1>5
  <2>2. i < j \/ j < i
    BY <1>1
  <2> QED
    BY <1>2, <1>3, <2>1, <2>2
<1> QED
  BY <1>1, <1>6, <1>7 DEF S

Stays(all, entries, queue, T, depth) ==
  /\ events' = all /\ pending' = entries /\ general' = queue /\ reactions' = T /\ count' = depth
  /\ UNCHANGED <<nextSequence, nextContinuation>>

\* The transaction a batch is queued in.
Extended(T, tx, batch, size, done) ==
  [T EXCEPT ![tx] = [queue |-> T[tx].queue \o batch, next |-> T[tx].next + size,
                     complete |-> T[tx].complete \/ done]]

Leaves(tx, all, size, entries, queue, T, depth, done) ==
  LET batch == Batch(all, size, nextContinuation, FirstSequence(tx, T))
      c == nextContinuation
  IN
  /\ events' = SubSeq(all, size + 1, Len(all))
  /\ pending' = entries \cup NewEntries(all, size, c, tx, now + Timeout)
  /\ nextContinuation' = c + Cardinality(Suspends(all, size))
  /\ general' = IF tx = 0 THEN queue \o batch ELSE queue
  /\ nextSequence' = IF tx = 0 THEN nextSequence + size ELSE nextSequence
  /\ reactions' = IF tx = 0 THEN T ELSE Extended(T, tx, batch, size, done)
  /\ count' = depth + size

\* Publish leaves the events in the core when the continuations do not fit, and
\* queues one batch otherwise.
LEMMA PublishCases ==
  ASSUME NEW tx, NEW new, NEW limit, NEW entries, NEW queue, NEW T, NEW depth, NEW done,
         tx = 0 \/ tx \in DOMAIN T,
         Publish(tx, new, limit, entries, queue, T, depth, done)
  PROVE  LET all == events \o new
             size == Smaller(Len(all), limit)
         IN  IF Cardinality(entries) + Cardinality(Suspends(all, size)) > MaxContinuations
             THEN Stays(all, entries, queue, T, depth)
             ELSE Leaves(tx, all, size, entries, queue, T, depth, done)
<1> DEFINE all == events \o new
           size == Smaller(Len(all), limit)
           S == Suspends(all, size)
           c == nextContinuation
           first == FirstSequence(tx, T)
           batch == Batch(all, size, c, first)
<1>1. CASE Cardinality(entries) + Cardinality(S) > MaxContinuations
  BY <1>1 DEF Publish, Suspends, Stays
<1>2. CASE ~(Cardinality(entries) + Cardinality(S) > MaxContinuations)
  <2>1. /\ events' = SubSeq(all, size + 1, Len(all))
        /\ nextContinuation' = c + Cardinality(S)
        /\ nextSequence' = IF tx = 0 THEN nextSequence + size ELSE nextSequence
        /\ count' = depth + size
    BY <1>2 DEF Publish, Suspends
  <2>2. pending' = entries \cup NewEntries(all, size, c, tx, now + Timeout)
    BY <1>2 DEF Publish, Suspends, Entry, IdOf, NewEntries
  <2>3. general' = IF tx = 0 THEN queue \o batch ELSE queue
    BY <1>2 DEF Publish, Suspends, Batch, IdOf
  <2>4. reactions' = IF tx = 0 THEN T ELSE Extended(T, tx, batch, size, done)
    BY <1>2 DEF Publish, Suspends, Batch, IdOf, Extended
  <2> QED
    BY <1>2, <2>1, <2>2, <2>3, <2>4 DEF Leaves
<1> QED
  BY <1>1, <1>2

LEMMA BatchFacts ==
  ASSUME NEW all, NEW size \in Nat, NEW c \in Nat \ {0}, NEW first \in Nat
  PROVE  BatchSound(Batch(all, size, c, first), all, size, c, first)
<1> DEFINE id(i) == IF i \in Suspends(all, size) THEN IdOf(all, size, c, i) ELSE 0
           batch == [i \in 1..size |-> [seq |-> first + i - 1, id |-> id(i)]]
<1>1. \A i \in 1..size : id(i) \in Nat /\ first + i - 1 \in Nat
  BY IdFacts
<1> HIDE DEF id
<1>2. \A i \in 1..size : batch[i] = [seq |-> first + i - 1, id |-> id(i)]
  OBVIOUS
<1>3. batch \in [1..size -> QueuedCallback]
  BY <1>1 DEF QueuedCallback
<1>4. batch \in Seq(QueuedCallback) /\ Len(batch) = size
  BY <1>3, SeqDef, LenProperties
<1>5. \A i \in 1..size : batch[i].seq = first + i - 1 /\ batch[i].id = id(i)
  BY <1>2
<1>6. Batch(all, size, c, first) = batch
  BY DEF Batch, id
<1>7. /\ \A i \in Suspends(all, size) : id(i) = IdOf(all, size, c, i)
      /\ \A i : i \notin Suspends(all, size) => id(i) = 0
  BY DEF id
<1> HIDE DEF batch
<1>8. BatchSound(batch, all, size, c, first)
  BY <1>4, <1>5, <1>7 DEF BatchSound
<1> QED
  BY <1>6, <1>8

\* A batch joins a queue: the numbers go on rising, the entries are there.
LEMMA JoinedFacts ==
  ASSUME NEW queue \in Seq(QueuedCallback), NEW batch \in Seq(QueuedCallback)
  PROVE  /\ queue \o batch \in Seq(QueuedCallback)
         /\ Len(queue \o batch) = Len(queue) + Len(batch)
         /\ Len(queue) \in Nat /\ Len(batch) \in Nat
         /\ \A i \in 1..Len(queue) : (queue \o batch)[i] = queue[i]
         /\ \A i \in 1..Len(batch) : (queue \o batch)[Len(queue) + i] = batch[i]
         /\ \A i \in 1..Len(queue \o batch) :
              i \in 1..Len(queue) \/ \E k \in 1..Len(batch) : i = Len(queue) + k
<1>1. /\ queue \o batch \in Seq(QueuedCallback)
      /\ Len(queue \o batch) = Len(queue) + Len(batch)
      /\ \A i \in 1..(Len(queue) + Len(batch)) :
           (queue \o batch)[i] = IF i <= Len(queue) THEN queue[i] ELSE batch[i - Len(queue)]
  BY ConcatProperties
<1>2. Len(queue) \in Nat /\ Len(batch) \in Nat
  BY LenProperties
<1>3. \A i \in 1..Len(queue) : (queue \o batch)[i] = queue[i]
  BY <1>1, <1>2
<1>4. ASSUME NEW i \in 1..Len(batch)
      PROVE  (queue \o batch)[Len(queue) + i] = batch[i]
  <2>1. /\ Len(queue) + i \in 1..(Len(queue) + Len(batch)) /\ ~(Len(queue) + i <= Len(queue))
        /\ Len(queue) + i - Len(queue) = i
    BY <1>2
  <2> QED
    BY <1>1, <2>1
<1>5. ASSUME NEW i \in 1..Len(queue \o batch)
      PROVE  i \in 1..Len(queue) \/ \E k \in 1..Len(batch) : i = Len(queue) + k
  <2>1. CASE i <= Len(queue)
    BY <1>1, <1>2, <2>1
  <2>2. CASE ~(i <= Len(queue))
    <3>1. i - Len(queue) \in 1..Len(batch) /\ i = Len(queue) + (i - Len(queue))
      BY <1>1, <1>2, <2>2
    <3> QED
      BY <3>1
  <2> QED
    BY <2>1, <2>2
<1> QED
  BY <1>1, <1>2, <1>3, <1>4, <1>5

LEMMA JoinedHeld ==
  ASSUME NEW queue \in Seq(QueuedCallback), NEW batch \in Seq(QueuedCallback), NEW t,
         NEW entries, Held(queue, t, entries), Held(batch, t, entries)
  PROVE  Held(queue \o batch, t, entries)
<1> DEFINE q == queue \o batch
<1>1. /\ \A i \in 1..Len(queue) : q[i] = queue[i]
      /\ \A i \in 1..Len(batch) : q[Len(queue) + i] = batch[i]
      /\ \A i \in 1..Len(q) : i \in 1..Len(queue) \/ \E k \in 1..Len(batch) : i = Len(queue) + k
  BY JoinedFacts
<1> HIDE DEF q
<1>2. ASSUME NEW i \in 1..Len(q), q[i].id # 0
      PROVE  \E p \in entries : p.id = q[i].id /\ p.tx = t
  <2>1. CASE i \in 1..Len(queue)
    BY <1>1, <1>2, <2>1 DEF Held
  <2>2. CASE i \notin 1..Len(queue)
    <3>1. PICK k \in 1..Len(batch) : i = Len(queue) + k
      BY <1>1, <2>2
    <3>2. q[i] = batch[k]
      BY <1>1, <3>1
    <3> QED
      BY <1>2, <3>2 DEF Held
  <2> QED
    BY <2>1, <2>2
<1>3. Held(q, t, entries)
  BY <1>2 DEF Held
<1> QED
  BY <1>3 DEF q

LEMMA JoinedRising ==
  ASSUME NEW queue \in Seq(QueuedCallback), NEW batch \in Seq(QueuedCallback),
         NEW low \in Nat, NEW high \in Nat, Rising(queue, low, high), low < high,
         \A i \in 1..Len(batch) : batch[i].seq = high + i - 1
  PROVE  Rising(queue \o batch, low, high + Len(batch))
<1> DEFINE q == queue \o batch
<1>1. /\ Len(queue) \in Nat /\ Len(batch) \in Nat
      /\ \A i \in 1..Len(queue) : q[i] = queue[i]
      /\ \A i \in 1..Len(batch) : q[Len(queue) + i] = batch[i]
      /\ \A i \in 1..Len(q) : i \in 1..Len(queue) \/ \E k \in 1..Len(batch) : i = Len(queue) + k
  BY JoinedFacts
<1>2. \A i \in 1..Len(queue) : queue[i].seq \in Nat
  <2> SUFFICES ASSUME NEW i \in 1..Len(queue) PROVE queue[i].seq \in Nat
    OBVIOUS
  <2>1. queue[i] \in QueuedCallback
    BY ElementOfSeq
  <2> QED
    BY <2>1 DEF QueuedCallback
<1> HIDE DEF q
<1>3. \A k \in 1..Len(batch) : q[Len(queue) + k].seq = high + k - 1
  BY <1>1
<1>4. ASSUME NEW i \in 1..Len(q)
      PROVE  low < q[i].seq /\ q[i].seq < high + Len(batch)
  <2>1. CASE i \in 1..Len(queue)
    <3>1. low < queue[i].seq /\ queue[i].seq < high /\ queue[i].seq \in Nat
      BY <1>2, <2>1 DEF Rising
    <3> QED
      BY <1>1, <2>1, <3>1
  <2>2. CASE i \notin 1..Len(queue)
    <3>1. PICK k \in 1..Len(batch) : i = Len(queue) + k
      BY <1>1, <2>2
    <3>2. q[i].seq = high + k - 1
      BY <1>3, <3>1
    <3> QED
      BY <1>1, <3>2
  <2> QED
    BY <2>1, <2>2
<1>5. ASSUME NEW i \in 1..Len(q), NEW j \in 1..Len(q), i < j
      PROVE  q[i].seq < q[j].seq
  <2>1. CASE j \in 1..Len(queue)
    <3>1. i \in 1..Len(queue)
      BY <1>1, <1>5, <2>1
    <3> QED
      BY <1>1, <1>5, <2>1, <3>1 DEF Rising
  <2>2. CASE j \notin 1..Len(queue)
    <3>1. PICK k \in 1..Len(batch) : j = Len(queue) + k
      BY <1>1, <2>2
    <3>2. q[j].seq = high + k - 1
      BY <1>3, <3>1
    <3>3. CASE i \in 1..Len(queue)
      <4>1. q[i].seq < high /\ q[i].seq \in Nat
        BY <1>1, <1>2, <3>3 DEF Rising
      <4> QED
        BY <1>1, <3>2, <4>1
    <3>4. CASE i \notin 1..Len(queue)
      <4>1. PICK l \in 1..Len(batch) : i = Len(queue) + l
        BY <1>1, <3>4
      <4>2. q[i].seq = high + l - 1 /\ l < k
        BY <1>1, <1>3, <1>5, <3>1, <4>1
      <4> QED
        BY <1>1, <3>2, <4>2
    <3> QED
      BY <3>3, <3>4
  <2> QED
    BY <2>1, <2>2
<1>6. Rising(q, low, high + Len(batch))
  BY <1>4, <1>5 DEF Rising
<1> QED
  BY <1>6 DEF q

LEMMA HeldGrows ==
  ASSUME NEW queue, NEW t, NEW entries, NEW more, entries \subseteq more,
         Held(queue, t, entries)
  PROVE  Held(queue, t, more)
  BY DEF Held

\* The entries of a batch: their ids are new, and the batch refers to them.
LEMMA EntriesFacts ==
  ASSUME NEW all, NEW size \in Nat, NEW c \in Nat \ {0}, NEW first \in Nat, NEW tx,
         NEW deadline, NEW entries, Identified(entries, c)
  PROVE  LET more == entries \cup NewEntries(all, size, c, tx, deadline) IN
         /\ Identified(more, c + Cardinality(Suspends(all, size)))
         /\ Held(Batch(all, size, c, first), tx, more)
<1> DEFINE S == Suspends(all, size)
           k == Cardinality(S)
           e(i) == Entry(all, size, c, tx, deadline, i)
           id(i) == IdOf(all, size, c, i)
           new == NewEntries(all, size, c, tx, deadline)
           more == entries \cup new
           batch == Batch(all, size, c, first)
<1>1. /\ k \in Nat
      /\ \A i \in S : id(i) \in Nat /\ id(i) \in c..(c + k - 1)
      /\ \A i, j \in S : id(i) = id(j) => i = j
  BY IdFacts
<1>2. \A i \in S : e(i).id = id(i) /\ e(i).tx = tx
  BY DEF Entry
<1>3. BatchSound(batch, all, size, c, first)
  BY BatchFacts
<1>4. \A i \in S : e(i) \in new
  BY DEF NewEntries
<1>5. \A p \in new : \E i \in S : p = e(i)
  BY DEF NewEntries
<1> HIDE DEF S, e, id, new, batch, k
<1>6. ASSUME NEW p \in more
      PROVE  p.id \in 1..(c + k - 1) /\ \A q \in more : p.id = q.id => p = q
  <2>1. \A q \in entries : q.id \in 1..(c - 1)
    BY DEF Identified
  <2>2. \A q \in new : q.id \in c..(c + k - 1)
    BY <1>1, <1>2, <1>5
  <2>3. p.id \in 1..(c + k - 1)
    BY <1>1, <2>1, <2>2
  <2>4. ASSUME NEW q \in more, p.id = q.id
        PROVE  p = q
    <3>1. CASE p \in entries /\ q \in entries
      BY <2>4, <3>1 DEF Identified
    <3>2. CASE p \in new /\ q \in new
      <4>1. PICK i \in S : p = e(i)
        BY <1>5, <3>2
      <4>2. PICK j \in S : q = e(j)
        BY <1>5, <3>2
      <4>3. i = j
        BY <1>1, <1>2, <2>4, <4>1, <4>2
      <4> QED
        BY <4>1, <4>2, <4>3
    <3>3. CASE p \in entries /\ q \in new
      BY <1>1, <2>1, <2>2, <2>4, <3>3
    <3>4. CASE p \in new /\ q \in entries
      BY <1>1, <2>1, <2>2, <2>4, <3>4
    <3> QED
      BY <3>1, <3>2, <3>3, <3>4
  <2> QED
    BY <2>3, <2>4
<1>7. Identified(more, c + k)
  <2>1. c + k - 1 = (c + k) - 1
    BY <1>1
  <2> HIDE DEF more
  <2> QED
    BY <1>6, <2>1 DEF Identified
<1>8. ASSUME NEW i \in 1..Len(batch), batch[i].id # 0
      PROVE  \E p \in more : p.id = batch[i].id /\ p.tx = tx
  <2>1. i \in S /\ batch[i].id = id(i)
    BY <1>3, <1>8 DEF BatchSound, S, id
  <2> QED
    BY <1>2, <1>4, <2>1
<1>9. Held(batch, tx, more)
  BY <1>8 DEF Held
<1> QED
  BY <1>7, <1>9 DEF S, e, new, batch, k

ExtendsBy(U, T, n, tx, batch, size, done) ==
  /\ Table(U, n) /\ DOMAIN U = DOMAIN T
  /\ U[tx].queue = T[tx].queue \o batch
  /\ U[tx].complete = (T[tx].complete \/ done)
  /\ \A t \in DOMAIN T : t # tx => U[t] = T[t]
  /\ Weight(U, tx) = Weight(T, tx) + size
  /\ \A t : t # tx => Weight(U, t) = Weight(T, t)

\* The batch joins the transaction's queue.
LEMMA ExtendedFacts ==
  ASSUME NEW n \in Nat, NEW T, Table(T, n), NEW tx \in DOMAIN T, NEW size \in Nat,
         NEW batch \in Seq(QueuedCallback), Len(batch) = size, NEW done \in BOOLEAN
  PROVE  ExtendsBy(Extended(T, tx, batch, size, done), T, n, tx, batch, size, done)
<1> DEFINE U == Extended(T, tx, batch, size, done)
           r == [queue |-> T[tx].queue \o batch, next |-> T[tx].next + size,
                 complete |-> T[tx].complete \/ done]
<1>1. U = [T EXCEPT ![tx] = r]
  BY DEF Extended
<1>2. /\ T[tx].queue \in Seq(QueuedCallback) /\ T[tx].next \in Nat
      /\ T[tx].complete \in BOOLEAN
  BY TransactionFacts
<1>3. /\ T[tx].queue \o batch \in Seq(QueuedCallback)
      /\ Len(T[tx].queue \o batch) = Len(T[tx].queue) + size
  BY <1>2, JoinedFacts
<1>4. r \in Transaction
  BY <1>2, <1>3 DEF Transaction
<1>5. r.queue = T[tx].queue \o batch /\ r.complete = (T[tx].complete \/ done)
  OBVIOUS
<1> HIDE DEF r, U
<1>6. /\ DOMAIN U = DOMAIN T /\ U[tx] = r
      /\ \A t \in DOMAIN T : t # tx => U[t] = T[t]
      /\ U \in [DOMAIN T -> Transaction]
  BY <1>1, <1>4 DEF Table
<1>7. Table(U, n)
  BY <1>6 DEF Table
<1>8. Weight(U, tx) = Weight(T, tx) + size
  BY <1>3, <1>5, <1>6 DEF Weight
<1>9. \A t : t # tx => Weight(U, t) = Weight(T, t)
  BY <1>6 DEF Weight
<1>10. ExtendsBy(U, T, n, tx, batch, size, done)
  BY <1>5, <1>6, <1>7, <1>8, <1>9 DEF ExtendsBy
<1> QED
  BY <1>10 DEF U

BatchKept(n, depth) ==
  /\ Books(pending', general', reactions', n, nextContinuation')
  /\ Rising(general', lastGeneral, nextSequence')
  /\ nextSequence' \in Nat \ {0} /\ lastGeneral < nextSequence'
  /\ nextContinuation' \in Nat \ {0}
  /\ count' = Depth(general', reactions') /\ count' = depth

\* A batch that leaves the core keeps the books.
LEMMA LeavesBooks ==
  ASSUME nextSequence \in Nat \ {0}, nextContinuation \in Nat \ {0}, lastGeneral \in Nat,
         lastGeneral < nextSequence, NEW n \in Nat, NEW entries, NEW queue, NEW T,
         Books(entries, queue, T, n, nextContinuation),
         Rising(queue, lastGeneral, nextSequence),
         NEW tx, tx = 0 \/ tx \in DOMAIN T, NEW all, NEW size \in Nat, NEW done \in BOOLEAN,
         Leaves(tx, all, size, entries, queue, T, Depth(queue, T), done)
  PROVE  BatchKept(n, Depth(queue, T) + size)
<1> DEFINE c == nextContinuation
           first == FirstSequence(tx, T)
           batch == Batch(all, size, c, first)
           new == NewEntries(all, size, c, tx, now + Timeout)
           k == Cardinality(Suspends(all, size))
<1>1. Table(T, n) /\ queue \in Seq(QueuedCallback) /\ Identified(entries, c)
  BY DEF Books
<1>2. 0 \notin DOMAIN T
  BY <1>1 DEF Table
<1>3. first \in Nat
  <2>1. CASE tx = 0
    BY <2>1 DEF FirstSequence
  <2>2. CASE tx # 0
    <3>1. tx \in DOMAIN T
      BY <2>2
    <3>2. T[tx].next \in Nat
      BY <1>1, <3>1, TransactionFacts
    <3> QED
      BY <2>2, <3>2 DEF FirstSequence
  <2> QED
    BY <2>1, <2>2
<1>4. /\ pending' = entries \cup new
      /\ nextContinuation' = c + k
      /\ general' = IF tx = 0 THEN queue \o batch ELSE queue
      /\ nextSequence' = IF tx = 0 THEN nextSequence + size ELSE nextSequence
      /\ reactions' = IF tx = 0 THEN T ELSE Extended(T, tx, batch, size, done)
      /\ count' = Depth(queue, T) + size
  BY DEF Leaves
<1>5. /\ Identified(pending', c + k) /\ Held(batch, tx, pending')
      /\ entries \subseteq pending'
  <2>1. entries \subseteq pending'
    BY <1>4
  <2>2. Identified(entries \cup new, c + k) /\ Held(batch, tx, entries \cup new)
    <3> HIDE DEF first
    <3> QED
      BY <1>1, <1>3, EntriesFacts
  <2> HIDE DEF batch, new, k
  <2> QED
    BY <1>4, <2>1, <2>2
<1>6. k \in Nat
  BY IdFacts
<1>7. /\ batch \in Seq(QueuedCallback) /\ Len(batch) = size
      /\ \A i \in 1..size : batch[i].seq = first + i - 1
  <2>1. BatchSound(batch, all, size, c, first)
    BY <1>3, BatchFacts
  <2> HIDE DEF batch, first
  <2> QED
    BY <2>1 DEF BatchSound
<1>8. Held(queue, 0, pending') /\ \A t \in DOMAIN T : Held(T[t].queue, t, pending')
  BY <1>5, HeldGrows DEF Books
<1>9. nextContinuation' \in Nat \ {0}
  BY <1>4, <1>6
<1> HIDE DEF batch, new, k
<1>10. CASE tx = 0
  <2>1. first = nextSequence
    BY <1>10 DEF FirstSequence
  <2>2. general' = queue \o batch /\ reactions' = T /\ nextSequence' = nextSequence + size
    BY <1>4, <1>10
  <2>3. queue \o batch \in Seq(QueuedCallback) /\ Len(queue \o batch) = Len(queue) + size
    BY <1>1, <1>7, JoinedFacts
  <2>4. Held(queue \o batch, 0, pending')
    BY <1>1, <1>5, <1>7, <1>8, <1>10, JoinedHeld
  <2>5. Rising(queue \o batch, lastGeneral, nextSequence + size)
    <3>1. \A i \in 1..Len(batch) : batch[i].seq = nextSequence + i - 1
      BY <1>7, <2>1
    <3> HIDE DEF first
    <3> QED
      BY <1>1, <1>7, <3>1, JoinedRising
  <2>6. Depth(queue \o batch, T) = Depth(queue, T) + size
    <3>1. Len(queue) \in Nat /\ Cardinality(Positions(T)) \in Nat
      BY <1>1, LenProperties, PositionsFinite
    <3> QED
      BY <2>3, <3>1 DEF Depth
  <2>7. Books(pending', general', reactions', n, nextContinuation')
    BY <1>1, <1>4, <1>5, <1>8, <2>2, <2>3, <2>4 DEF Books
  <2>8. nextSequence + size \in Nat \ {0} /\ lastGeneral < nextSequence + size
    OBVIOUS
  <2>9. /\ nextSequence' \in Nat \ {0} /\ lastGeneral < nextSequence'
        /\ Rising(general', lastGeneral, nextSequence')
    BY <2>2, <2>5, <2>8
  <2>10. count' = Depth(general', reactions') /\ count' = Depth(queue, T) + size
    BY <1>4, <2>2, <2>6
  <2> QED
    BY <1>9, <2>7, <2>9, <2>10 DEF BatchKept
<1>11. CASE tx # 0
  <2> DEFINE U == Extended(T, tx, batch, size, done)
  <2>1. tx \in DOMAIN T
    BY <1>11
  <2>2. general' = queue /\ reactions' = U /\ nextSequence' = nextSequence
    BY <1>4, <1>11
  <2>3. /\ Table(U, n) /\ DOMAIN U = DOMAIN T
        /\ U[tx].queue = T[tx].queue \o batch
        /\ \A t \in DOMAIN T : t # tx => U[t] = T[t]
        /\ Weight(U, tx) = Weight(T, tx) + size
        /\ \A t : t # tx => Weight(U, t) = Weight(T, t)
    <3>1. ExtendsBy(U, T, n, tx, batch, size, done)
      BY <1>1, <1>7, <2>1, ExtendedFacts
    <3> HIDE DEF U
    <3> QED
      BY <3>1 DEF ExtendsBy
  <2> HIDE DEF U
  <2>4. Depth(queue, U) = Depth(queue, T) + size
    BY <1>1, <2>3, DepthGrows
  <2>5. T[tx].queue \in Seq(QueuedCallback)
    BY <1>1, <2>1, TransactionFacts
  <2>6. Held(U[tx].queue, tx, pending')
    BY <1>5, <1>7, <1>8, <2>1, <2>3, <2>5, JoinedHeld
  <2>7. \A t \in DOMAIN U : Held(U[t].queue, t, pending')
    BY <1>8, <2>3, <2>6
  <2>8. Books(pending', general', reactions', n, nextContinuation')
    BY <1>1, <1>4, <1>5, <1>8, <2>2, <2>3, <2>7 DEF Books
  <2> QED
    BY <1>4, <1>9, <2>2, <2>4, <2>8 DEF BatchKept
<1> QED
  BY <1>10, <1>11

(***************************************************************************)
(* The queue invariant: what holds with any client.                        *)
(***************************************************************************)
IsSeq(s) == \E S : s \in Seq(S)

Numbered ==
  /\ nextSequence \in Nat \ {0} /\ nextContinuation \in Nat \ {0}
  /\ nextTransaction \in Nat \ {0} /\ lastGeneral \in Nat /\ lastGeneral < nextSequence
  /\ count \in Nat /\ count <= MaxCallbacks

QueueInv ==
  /\ IsSeq(events) /\ Numbered
  /\ Books(pending, general, reactions, nextTransaction, nextContinuation)
  /\ Rising(general, lastGeneral, nextSequence)
  /\ count = Depth(general, reactions)

LEMMA SeqFacts ==
  ASSUME NEW s, NEW t, IsSeq(s), IsSeq(t)
  PROVE  /\ IsSeq(s \o t) /\ Len(s \o t) = Len(s) + Len(t)
         /\ Len(s) \in Nat /\ Len(t) \in Nat
         /\ \A size \in 0..Len(s) : IsSeq(SubSeq(s, size + 1, Len(s)))
<1>1. PICK S : s \in Seq(S)
  BY DEF IsSeq
<1>2. PICK T : t \in Seq(T)
  BY DEF IsSeq
<1>3. s \in Seq(S \cup T) /\ t \in Seq(S \cup T)
  BY <1>1, <1>2, SeqMonotonic
<1>4. s \o t \in Seq(S \cup T) /\ Len(s \o t) = Len(s) + Len(t)
  BY <1>3, ConcatProperties
<1>5. Len(s) \in Nat /\ Len(t) \in Nat
  BY <1>1, <1>2, LenProperties
<1>6. ASSUME NEW size \in 0..Len(s)
      PROVE  IsSeq(SubSeq(s, size + 1, Len(s)))
  <2>1. \A i \in (size + 1)..Len(s) : s[i] \in S
    BY <1>1, <1>5, ElementOfSeq
  <2>2. SubSeq(s, size + 1, Len(s)) \in Seq(S)
    BY <1>1, <1>5, <2>1, SubSeqProperties
  <2> QED
    BY <2>2 DEF IsSeq
<1> QED
  BY <1>4, <1>5, <1>6 DEF IsSeq

\* The events of a reaction or a stage are a sequence.
LEMMA NewEvents ==
  ASSUME NEW n \in Nat, NEW c, NEW token
  PROVE  IsSeq(Plain(n)) /\ IsSeq(Plain(n) \o RunDmReaction(c, token)) /\ IsSeq(<<>>)
<1>1. Plain(n) \in Seq({PlainEvent})
  BY SeqDef DEF Plain
<1>2. RunDmReaction(c, token) \in Seq({[token |-> token, turf |-> c.turf, mixture |-> c.mixture]})
  BY DEF RunDmReaction
<1>3. <<>> \in Seq({PlainEvent})
  OBVIOUS
<1>4. IsSeq(Plain(n)) /\ IsSeq(RunDmReaction(c, token)) /\ IsSeq(<<>>)
  BY <1>1, <1>2, <1>3 DEF IsSeq
<1> QED
  BY <1>4, SeqFacts

\* What Publish leaves, whatever is published to whichever queue.
LEMMA Published ==
  ASSUME IsSeq(events), Numbered, NEW new, IsSeq(new), NEW n \in Nat \ {0}, NEW entries,
         NEW queue, NEW T, Books(entries, queue, T, n, nextContinuation),
         Rising(queue, lastGeneral, nextSequence), Depth(queue, T) <= count,
         NEW tx, tx = 0 \/ tx \in DOMAIN T, NEW done \in BOOLEAN,
         Publish(tx, new, EventLimit, entries, queue, T, Depth(queue, T), done),
         lastGeneral' = lastGeneral, nextTransaction' = n
  PROVE  QueueInv'
<1> DEFINE all == events \o new
           size == Smaller(Len(all), EventLimit)
           k == Depth(queue, T)
<1>1. IsSeq(all) /\ Len(all) \in Nat
  BY SeqFacts
<1>2. k \in Nat
  BY DepthIsNat DEF Books
<1>3. EventLimit \in Nat /\ EventLimit = MaxCallbacks - count
  BY ServiceAssumption DEF EventLimit, Numbered
<1> HIDE DEF all, k
<1>4. size \in 0..Len(all) /\ size \in Nat /\ size <= EventLimit
  BY <1>1, <1>3 DEF Smaller
<1> HIDE DEF size
<1>5. CASE Stays(all, entries, queue, T, k)
  <2>1. /\ events' = all /\ pending' = entries /\ general' = queue /\ reactions' = T
        /\ count' = k /\ nextSequence' = nextSequence /\ nextContinuation' = nextContinuation
    BY <1>5 DEF Stays
  <2>2. k <= MaxCallbacks
    BY <1>2, ServiceAssumption DEF Numbered, k
  <2>3. Numbered'
    BY <1>2, <2>1, <2>2 DEF Numbered
  <2>4. count' = Depth(general', reactions')
    BY <2>1 DEF k
  <2>5. /\ Books(pending', general', reactions', nextTransaction', nextContinuation')
        /\ Rising(general', lastGeneral', nextSequence')
    BY <2>1
  <2> QED
    BY <1>1, <2>1, <2>3, <2>4, <2>5 DEF QueueInv
<1>6. CASE Leaves(tx, all, size, entries, queue, T, k, done)
  <2>1. /\ Books(pending', general', reactions', n, nextContinuation')
        /\ Rising(general', lastGeneral, nextSequence')
        /\ nextSequence' \in Nat \ {0} /\ lastGeneral < nextSequence'
        /\ nextContinuation' \in Nat \ {0}
        /\ count' = Depth(general', reactions') /\ count' = k + size
    <3>1. /\ nextSequence \in Nat \ {0} /\ nextContinuation \in Nat \ {0}
          /\ lastGeneral \in Nat /\ lastGeneral < nextSequence
      BY DEF Numbered
    <3>2. BatchKept(n, k + size)
      BY <1>4, <1>6, <3>1, LeavesBooks DEF k
    <3> QED
      BY <3>2 DEF BatchKept
  <2>2. events' = SubSeq(all, size + 1, Len(all))
    BY <1>6 DEF Leaves
  <2>3. IsSeq(SubSeq(all, size + 1, Len(all)))
    BY <1>1, <1>4, SeqFacts
  <2>4. count' \in Nat /\ count' <= MaxCallbacks
    BY <1>2, <1>3, <1>4, <2>1, ServiceAssumption DEF Numbered, k
  <2>5. Numbered'
    BY <2>1, <2>4 DEF Numbered
  <2>6. /\ Books(pending', general', reactions', nextTransaction', nextContinuation')
        /\ Rising(general', lastGeneral', nextSequence')
    BY <2>1
  <2> QED
    BY <2>1, <2>2, <2>3, <2>5, <2>6 DEF QueueInv
<1> QED
  <2>1. IF Cardinality(entries) + Cardinality(Suspends(all, size)) > MaxContinuations
        THEN Stays(all, entries, queue, T, k)
        ELSE Leaves(tx, all, size, entries, queue, T, k, done)
    BY PublishCases DEF all, size, k
  <2> QED
    BY <1>5, <1>6, <2>1

\* What is left of the books when entries, callbacks and transactions went.
Keeps(entries, queue, T) ==
  /\ Books(entries, queue, T, nextTransaction, nextContinuation)
  /\ Rising(queue, lastGeneral, nextSequence)
  /\ Depth(queue, T) \in Nat /\ Depth(queue, T) <= count

LEMMA KeepsAll ==
  ASSUME QueueInv
  PROVE  Keeps(pending, general, reactions)
  BY DEF QueueInv, Numbered, Keeps

LEMMA KeepsRetained ==
  ASSUME QueueInv, NEW rest \in SUBSET pending
  PROVE  /\ Keeps(rest, Retained(general, Ids(rest)), RetainedAll(reactions, Ids(rest)))
         /\ DOMAIN RetainedAll(reactions, Ids(rest)) = DOMAIN reactions
<1> DEFINE left == Retained(general, Ids(rest))
           U == RetainedAll(reactions, Ids(rest))
           n == nextTransaction
           c == nextContinuation
<1>1. n \in Nat /\ Books(pending, general, reactions, n, c)
  BY DEF QueueInv, Numbered
<1>2. Books(rest, left, U, n, c) /\ Depth(left, U) <= Depth(general, reactions)
      /\ DOMAIN U = DOMAIN reactions
  BY <1>1, RetainedBooks
<1>3. Rising(left, lastGeneral, nextSequence)
  BY RetainedRising DEF QueueInv, Numbered, Books
<1> HIDE DEF left, U
<1>4. Depth(left, U) \in Nat
  BY <1>1, <1>2, DepthIsNat DEF Books
<1>5. Depth(left, U) <= count
  BY <1>2 DEF QueueInv
<1>6. Keeps(rest, left, U)
  BY <1>2, <1>3, <1>4, <1>5 DEF Keeps
<1> QED
  BY <1>2, <1>6 DEF left, U

LEMMA KeepsWithout ==
  ASSUME QueueInv, NEW entries, NEW queue, NEW T, Keeps(entries, queue, T), NEW gone
  PROVE  /\ Keeps(entries, queue, WithoutTransactions(T, gone))
         /\ DOMAIN WithoutTransactions(T, gone) \subseteq DOMAIN T
<1> DEFINE U == WithoutTransactions(T, gone)
           n == nextTransaction
           c == nextContinuation
<1>1. n \in Nat /\ Books(entries, queue, T, n, c)
  BY DEF Keeps, QueueInv, Numbered
<1> HIDE DEF n, c
<1>2. /\ Books(entries, queue, U, n, c) /\ Depth(queue, U) <= Depth(queue, T)
      /\ DOMAIN U = DOMAIN T \ gone
  BY <1>1, WithoutBooks
<1> HIDE DEF U
<1>3. Depth(queue, U) \in Nat
  BY <1>1, <1>2, DepthIsNat DEF Books
<1>4. Depth(queue, U) <= count
  BY <1>2, <1>3 DEF Keeps, QueueInv, Numbered
<1>5. Keeps(entries, queue, U)
  BY <1>2, <1>3, <1>4 DEF Keeps, n, c
<1> QED
  BY <1>2, <1>5 DEF U

\* A request that removes entries and recounts.
LEMMA Removed ==
  ASSUME QueueInv, NEW entries, NEW queue, NEW T, Keeps(entries, queue, T),
         pending' = entries, general' = queue, reactions' = T, count' = Depth(general', reactions'),
         UNCHANGED <<events, nextSequence, nextContinuation, nextTransaction, lastGeneral>>
  PROVE  QueueInv'
<1>1. Numbered'
  <2>1. count' \in Nat /\ count' <= MaxCallbacks
    BY ServiceAssumption DEF Keeps, QueueInv, Numbered
  <2> QED
    BY <2>1 DEF QueueInv, Numbered
<1>2. /\ Books(pending', general', reactions', nextTransaction', nextContinuation')
      /\ Rising(general', lastGeneral', nextSequence')
  BY DEF Keeps
<1>3. IsSeq(events')
  BY DEF QueueInv
<1> QED
  BY <1>1, <1>2, <1>3 DEF QueueInv

\* Transaction ids are only added.
LEMMA TableRoom ==
  ASSUME NEW m \in Nat, NEW n \in Nat, m <= n
  PROVE  1..(m - 1) \subseteq 1..(n - 1)
  OBVIOUS

\* A request that leaves the queues alone; at most a transaction id is spent.
LEMMA QueuesKept ==
  ASSUME QueueInv, UNCHANGED <<queueVars, lastGeneral>>,
         nextTransaction' \in {nextTransaction, nextTransaction + 1}
  PROVE  QueueInv'
<1>1. /\ events' = events /\ pending' = pending /\ general' = general /\ reactions' = reactions
      /\ count' = count /\ nextSequence' = nextSequence /\ nextContinuation' = nextContinuation
      /\ lastGeneral' = lastGeneral
  BY DEF queueVars
<1>2. Numbered'
  BY <1>1 DEF QueueInv, Numbered
<1>3. Table(reactions, nextTransaction')
  <2>0. nextTransaction \in Nat /\ nextTransaction <= nextTransaction' /\ nextTransaction' \in Nat
    BY DEF QueueInv, Numbered
  <2> DEFINE old == 1..(nextTransaction - 1)
             new == 1..(nextTransaction' - 1)
  <2>1. old \subseteq new
    BY <2>0, TableRoom
  <2>2. DOMAIN reactions \in SUBSET old /\ reactions \in [DOMAIN reactions -> Transaction]
    BY DEF QueueInv, Books, Table
  <2> HIDE DEF old, new
  <2>3. DOMAIN reactions \in SUBSET new
    BY <2>1, <2>2
  <2> QED
    BY <2>2, <2>3 DEF Table, new
<1>4. Books(pending', general', reactions', nextTransaction', nextContinuation')
  BY <1>1, <1>3 DEF QueueInv, Books
<1>5. Rising(general', lastGeneral', nextSequence') /\ count' = Depth(general', reactions')
      /\ IsSeq(events')
  BY <1>1 DEF QueueInv
<1> QED
  BY <1>2, <1>4, <1>5 DEF QueueInv

\* A request that publishes to a queue as it is.
LEMMA PublishedAsIs ==
  ASSUME QueueInv, NEW new, IsSeq(new), NEW done \in BOOLEAN,
         Publish(0, new, EventLimit, pending, general, reactions, count, done),
         UNCHANGED <<nextTransaction, lastGeneral>>
  PROVE  QueueInv'
<1>1. /\ IsSeq(events) /\ Numbered /\ count = Depth(general, reactions)
      /\ Books(pending, general, reactions, nextTransaction, nextContinuation)
      /\ Rising(general, lastGeneral, nextSequence)
      /\ nextTransaction \in Nat \ {0} /\ Depth(general, reactions) <= count
  BY DEF QueueInv, Numbered
<1>2. Publish(0, new, EventLimit, pending, general, reactions, Depth(general, reactions), done)
  BY <1>1
<1> QED
  BY <1>1, <1>2, Published

\* A drain first lets what has expired go.
LEMMA SurvivingKeeps ==
  ASSUME QueueInv
  PROVE  /\ Keeps(Surviving, SurvivingGeneral, SurvivingReactions)
         /\ (IF Expired = {} THEN count ELSE Depth(SurvivingGeneral, SurvivingReactions))
              = Depth(SurvivingGeneral, SurvivingReactions)
<1>1. CASE Expired = {}
  <2>1. Surviving = pending /\ SurvivingGeneral = general /\ SurvivingReactions = reactions
    BY <1>1 DEF Surviving, SurvivingGeneral, SurvivingReactions
  <2>2. Keeps(Surviving, SurvivingGeneral, SurvivingReactions)
    BY <2>1, KeepsAll
  <2>3. count = Depth(SurvivingGeneral, SurvivingReactions)
    BY <2>1 DEF QueueInv
  <2> QED
    BY <1>1, <2>2, <2>3
<1>2. CASE Expired # {}
  <2> DEFINE kept == RetainedAll(reactions, Ids(Surviving))
  <2>1. Surviving \in SUBSET pending
    BY DEF Surviving
  <2>2. SurvivingGeneral = Retained(general, Ids(Surviving))
    BY <1>2 DEF SurvivingGeneral
  <2>3. SurvivingReactions = WithoutTransactions(kept, Orphans(kept, Surviving))
    BY <1>2 DEF SurvivingReactions
  <2>4. Keeps(Surviving, SurvivingGeneral, kept)
    BY <2>1, <2>2, KeepsRetained
  <2>5. Keeps(Surviving, SurvivingGeneral, SurvivingReactions)
    BY <2>3, <2>4, KeepsWithout
  <2> QED
    BY <1>2, <2>5
<1> QED
  BY <1>1, <1>2

\* A drain of the general queue takes the first callbacks, in their order.
LEMMA DrainGeneralQueues ==
  ASSUME QueueInv, NEW max \in 1..MaxCallbacks, DrainGeneral(max)
  PROVE  QueueInv'
<1> DEFINE E == Surviving
           queue == SurvivingGeneral
           T == SurvivingReactions
           size == Smaller(Len(queue), max)
           left == SubSeq(queue, size + 1, Len(queue))
           last == IF size = 0 THEN lastGeneral ELSE queue[size].seq
           k == Depth(queue, T)
<1>1. /\ pending' = E /\ reactions' = T /\ general' = left /\ lastGeneral' = last
      /\ count' = (IF Expired = {} THEN count ELSE k) - size
      /\ UNCHANGED <<events, nextSequence, nextContinuation, nextTransaction>>
  BY DEF DrainGeneral
<1>2. Keeps(E, queue, T) /\ (IF Expired = {} THEN count ELSE k) = k
  BY SurvivingKeeps
<1> HIDE DEF E, queue, T
<1>3. /\ Books(E, queue, T, nextTransaction, nextContinuation)
      /\ Rising(queue, lastGeneral, nextSequence)
      /\ k \in Nat /\ k <= count
  BY <1>2 DEF Keeps
<1>4. /\ Identified(E, nextContinuation) /\ queue \in Seq(QueuedCallback)
      /\ Table(T, nextTransaction)
      /\ Held(queue, 0, E) /\ \A t \in DOMAIN T : Held(T[t].queue, t, E)
  BY <1>3 DEF Books
<1>5. size \in 0..Len(queue) /\ Len(queue) \in Nat
  BY <1>4, LenProperties, ServiceAssumption DEF Smaller
<1> HIDE DEF size
<1>6. left \in Seq(QueuedCallback) /\ Len(left) = Len(queue) - size
  BY <1>4, <1>5, CutFacts
<1>7. Held(left, 0, E)
  BY <1>4, <1>5, CutHeld
<1>8. last \in Nat /\ last < nextSequence /\ Rising(left, last, nextSequence)
  BY <1>3, <1>4, <1>5, CutRising DEF QueueInv, Numbered
<1> HIDE DEF left, last
<1>9. Depth(left, T) = k - size /\ Depth(left, T) \in Nat
  <2>1. Cardinality(Positions(T)) \in Nat
    BY <1>4, PositionsFinite DEF QueueInv, Numbered
  <2> QED
    BY <1>5, <1>6, <2>1 DEF Depth
<1>10. count' = Depth(general', reactions') /\ count' \in Nat /\ count' <= MaxCallbacks
  <2>1. count' = k - size /\ count' = Depth(general', reactions') /\ count' \in Nat
    BY <1>1, <1>2, <1>9
  <2> HIDE DEF k
  <2> QED
    BY <1>3, <1>5, <2>1, ServiceAssumption DEF QueueInv, Numbered
<1>11. Books(pending', general', reactions', nextTransaction', nextContinuation')
  BY <1>1, <1>4, <1>6, <1>7 DEF Books
<1>12. Rising(general', lastGeneral', nextSequence')
  BY <1>1, <1>8
<1>13. Numbered' /\ IsSeq(events')
  BY <1>1, <1>8, <1>10 DEF QueueInv, Numbered
<1> QED
  BY <1>10, <1>11, <1>12, <1>13 DEF QueueInv

\* A drain of a reaction queue takes its first callbacks, and the transaction with the
\* last of them when it is complete.
LEMMA DrainReactionQueues ==
  ASSUME QueueInv, NEW tx, NEW max \in 1..MaxCallbacks, DrainReaction(tx, max)
  PROVE  QueueInv'
<1> DEFINE E == Surviving
           queue == SurvivingGeneral
           T == SurvivingReactions
           q == T[tx].queue
           size == Smaller(Len(q), max)
           left == SubSeq(q, size + 1, Len(q))
           k == Depth(queue, T)
           U == IF T[tx].complete /\ left = <<>> THEN WithoutTransactions(T, {tx})
                ELSE [T EXCEPT ![tx].queue = left]
<1>1. /\ pending' = E /\ general' = queue /\ reactions' = U
      /\ count' = (IF Expired = {} THEN count ELSE k) - size
      /\ UNCHANGED <<events, nextSequence, nextContinuation, nextTransaction, lastGeneral>>
      /\ tx \in DOMAIN T
  BY DEF DrainReaction
<1>2. Keeps(E, queue, T) /\ (IF Expired = {} THEN count ELSE k) = k
  BY SurvivingKeeps
<1> HIDE DEF E, queue, T
<1>3. /\ Books(E, queue, T, nextTransaction, nextContinuation)
      /\ Rising(queue, lastGeneral, nextSequence)
      /\ k \in Nat /\ k <= count
  BY <1>2 DEF Keeps
<1>4. /\ Identified(E, nextContinuation) /\ queue \in Seq(QueuedCallback)
      /\ Table(T, nextTransaction)
      /\ Held(queue, 0, E) /\ \A t \in DOMAIN T : Held(T[t].queue, t, E)
  BY <1>3 DEF Books
<1>5. T[tx] \in Transaction /\ q \in Seq(QueuedCallback) /\ Len(q) \in Nat
  BY <1>1, <1>4, TransactionFacts
<1> HIDE DEF q
<1>6. size \in 0..Len(q)
  BY <1>5, ServiceAssumption DEF Smaller
<1> HIDE DEF size
<1>7. left \in Seq(QueuedCallback) /\ Len(left) = Len(q) - size
  BY <1>5, <1>6, CutFacts
<1>8. Held(left, tx, E)
  BY <1>1, <1>4, <1>5, <1>6, CutHeld DEF q
<1> HIDE DEF left
<1>9. /\ Table(U, nextTransaction) /\ \A t \in DOMAIN U : Held(U[t].queue, t, E)
      /\ Weight(T, tx) = Weight(U, tx) + size
      /\ \A t : t # tx => Weight(T, t) = Weight(U, t)
  <2>1. Weight(T, tx) = Len(q)
    BY <1>1 DEF Weight, q
  <2>2. CASE T[tx].complete /\ left = <<>>
    <3>1. U = WithoutTransactions(T, {tx})
      BY <2>2
    <3>2. DOMAIN U = DOMAIN T \ {tx} /\ \A t \in DOMAIN U : U[t] = T[t]
      BY <3>1 DEF WithoutTransactions
    <3>3. Table(U, nextTransaction)
      BY <1>4, <3>1 DEF WithoutTransactions, Table
    <3> HIDE DEF U
    <3>4. \A t \in DOMAIN U : Held(U[t].queue, t, E)
      BY <1>4, <3>2
    <3>5. Len(left) = 0 /\ size \in Nat
      BY <1>5, <1>6, <2>2
    <3>6. Weight(U, tx) = 0 /\ size = Len(q)
      BY <1>5, <1>6, <1>7, <3>2, <3>5 DEF Weight
    <3>7. \A t : t # tx => Weight(T, t) = Weight(U, t)
      BY <3>2 DEF Weight
    <3> QED
      BY <1>5, <2>1, <3>3, <3>4, <3>6, <3>7
  <2>3. CASE ~(T[tx].complete /\ left = <<>>)
    <3> DEFINE r == [T[tx] EXCEPT !.queue = left]
    <3>1. U = [T EXCEPT ![tx] = r]
      BY <2>3
    <3>2. r \in Transaction /\ r.queue = left
      BY <1>5, <1>7 DEF Transaction
    <3> HIDE DEF U, r
    <3>3. /\ DOMAIN U = DOMAIN T /\ U[tx] = r
          /\ \A t \in DOMAIN T : t # tx => U[t] = T[t]
          /\ U \in [DOMAIN T -> Transaction]
      BY <1>1, <1>4, <3>1, <3>2 DEF Table
    <3>4. Table(U, nextTransaction)
      BY <1>4, <3>3 DEF Table
    <3>5. \A t \in DOMAIN U : Held(U[t].queue, t, E)
      BY <1>4, <1>8, <3>2, <3>3
    <3>6. Weight(U, tx) = Len(left)
      BY <1>1, <3>2, <3>3 DEF Weight
    <3>7. \A t : t # tx => Weight(T, t) = Weight(U, t)
      BY <3>3 DEF Weight
    <3>8. Len(q) = Len(left) + size
      BY <1>5, <1>6, <1>7
    <3> QED
      BY <2>1, <3>4, <3>5, <3>6, <3>7, <3>8
  <2> QED
    BY <2>2, <2>3
<1> HIDE DEF U
<1>10. k = Depth(queue, U) + size
  BY <1>4, <1>5, <1>6, <1>9, DepthGrows DEF QueueInv, Numbered
<1>11. Depth(queue, U) \in Nat
  BY <1>4, <1>9, DepthIsNat DEF QueueInv, Numbered
<1>12. count' = Depth(general', reactions') /\ count' \in Nat /\ count' <= MaxCallbacks
  <2> DEFINE d == Depth(queue, U)
  <2>1. count' = k - size /\ d = Depth(general', reactions')
    BY <1>1, <1>2
  <2> HIDE DEF k, d
  <2>2. size \in Nat
    BY <1>5, <1>6
  <2>3. count' = d /\ count' \in Nat /\ count' <= k
    BY <1>3, <1>10, <1>11, <2>1, <2>2 DEF d
  <2> QED
    BY <1>3, <2>1, <2>3, ServiceAssumption DEF QueueInv, Numbered
<1>13. Books(pending', general', reactions', nextTransaction', nextContinuation')
  BY <1>1, <1>4, <1>9 DEF Books
<1>14. Rising(general', lastGeneral', nextSequence')
  BY <1>1, <1>3
<1>15. Numbered' /\ IsSeq(events')
  BY <1>1, <1>12 DEF QueueInv, Numbered
<1> QED
  BY <1>12, <1>13, <1>14, <1>15 DEF QueueInv

\* A React command opens a transaction and publishes to it.
LEMMA ReactQueues ==
  ASSUME QueueInv, NEW m, NEW n \in Nat, NEW dm, ReactCommand(m, n, dm)
  PROVE  QueueInv'
<1> DEFINE tx == nextTransaction
           entry == [queue |-> <<>>, next |-> 1, complete |-> FALSE]
           T == [t \in DOMAIN reactions \cup {tx} |-> IF t = tx THEN entry ELSE reactions[t]]
<1>1. /\ IsSeq(events) /\ Numbered /\ count = Depth(general, reactions)
      /\ Books(pending, general, reactions, tx, nextContinuation)
      /\ Rising(general, lastGeneral, nextSequence)
      /\ tx \in Nat \ {0} /\ count \in Nat
  BY DEF QueueInv, Numbered
<1>2. Table(reactions, tx) /\ tx \notin DOMAIN reactions
  <2>1. Table(reactions, tx)
    BY <1>1 DEF Books
  <2> QED
    BY <1>1, <2>1 DEF Table
<1>3. entry \in Transaction /\ Len(entry.queue) = 0
  BY DEF Transaction
<1>4. /\ nextTransaction' = tx + 1 /\ lastGeneral' = lastGeneral
      /\ \/ Publish(tx, Plain(n) \o RunDmReaction([turf |-> None, mixture |-> m], NextToken),
                    EventLimit, pending, general, T, count, FALSE)
         \/ Publish(tx, Plain(n), EventLimit, pending, general, T, count, TRUE)
  BY DEF ReactCommand, clientVars
<1> HIDE DEF entry
<1>5. /\ DOMAIN T = DOMAIN reactions \cup {tx} /\ T[tx] = entry
      /\ \A t \in DOMAIN reactions : T[t] = reactions[t]
  BY <1>2
<1> HIDE DEF T
<1>6. Table(T, tx + 1)
  <2>1. DOMAIN T \in SUBSET (1..((tx + 1) - 1))
    <3>1. \A t \in DOMAIN reactions : t \in 1..(tx - 1)
      BY <1>2 DEF Table
    <3>2. \A t \in DOMAIN T : t \in 1..((tx + 1) - 1)
      BY <1>1, <1>5, <3>1
    <3> QED
      BY <3>2
  <2>2. T \in [DOMAIN T -> Transaction]
    <3>1. \A t \in DOMAIN T : T[t] \in Transaction
      BY <1>2, <1>3, <1>5 DEF Table
    <3>2. T = [t \in DOMAIN T |-> T[t]]
      BY DEF T
    <3> QED
      BY <3>1, <3>2
  <2> QED
    BY <2>1, <2>2 DEF Table
<1>7. \A t : Weight(T, t) = Weight(reactions, t)
  BY <1>2, <1>3, <1>5 DEF Weight
<1>8. Depth(general, T) = count
  BY <1>1, <1>2, <1>6, <1>7, DepthSame
<1>9. \A t \in DOMAIN T : Held(T[t].queue, t, pending)
  <2>1. Held(entry.queue, tx, pending)
    BY <1>3 DEF Held
  <2>2. \A t \in DOMAIN reactions : Held(reactions[t].queue, t, pending)
    BY <1>1 DEF Books
  <2> QED
    BY <1>5, <2>1, <2>2
<1>10. Books(pending, general, T, tx + 1, nextContinuation)
  BY <1>1, <1>6, <1>9 DEF Books
<1>11. tx + 1 \in Nat \ {0} /\ tx \in DOMAIN T /\ Depth(general, T) <= count
  BY <1>1, <1>5, <1>8
<1>12. CASE Publish(tx, Plain(n) \o RunDmReaction([turf |-> None, mixture |-> m], NextToken),
                    EventLimit, pending, general, T, count, FALSE)
  <2> DEFINE new == Plain(n) \o RunDmReaction([turf |-> None, mixture |-> m], NextToken)
  <2>1. IsSeq(new)
    BY NewEvents
  <2>2. Publish(tx, new, EventLimit, pending, general, T, Depth(general, T), FALSE)
    BY <1>8, <1>12
  <2> HIDE DEF new
  <2> QED
    BY <1>1, <1>4, <1>10, <1>11, <2>1, <2>2, Published
<1>13. CASE Publish(tx, Plain(n), EventLimit, pending, general, T, count, TRUE)
  <2> DEFINE new == Plain(n)
  <2>1. IsSeq(new)
    BY NewEvents
  <2>2. Publish(tx, new, EventLimit, pending, general, T, Depth(general, T), TRUE)
    BY <1>8, <1>13
  <2> HIDE DEF new
  <2> QED
    BY <1>1, <1>4, <1>10, <1>11, <2>1, <2>2, Published
<1> QED
  BY <1>4, <1>12, <1>13

\* A resumed reaction gives up its entry and publishes what follows.
LEMMA ResumeQueues ==
  ASSUME QueueInv, NEW p \in pending, NEW n \in Nat, NEW dm \in BOOLEAN,
         ResumeCommand(p, n, dm)
  PROVE  QueueInv'
<1> DEFINE rest == pending \ {p}
           queue == Retained(general, Ids(rest))
           T == RetainedAll(reactions, Ids(rest))
           c == slots[p.token[1]].held
           next == <<p.token[1], p.token[2] + 1>>
           new == Plain(n) \o (IF dm THEN RunDmReaction(c, next) ELSE <<>>)
<1>1. /\ p.tx # 0 => p.tx \in DOMAIN reactions
      /\ Publish(p.tx, new, EventLimit, rest, queue, T, Depth(queue, T), ~dm)
      /\ nextTransaction' = nextTransaction /\ lastGeneral' = lastGeneral
  BY DEF ResumeCommand, clientVars
<1>2. IsSeq(new)
  <2>1. IsSeq(Plain(n)) /\ IsSeq(<<>>) /\ IsSeq(Plain(n) \o RunDmReaction(c, next))
    BY NewEvents
  <2>2. CASE dm
    BY <2>1, <2>2
  <2>3. CASE ~dm
    <3>1. IsSeq(Plain(n) \o <<>>)
      BY <2>1, SeqFacts
    <3> QED
      BY <2>3, <3>1
  <2> QED
    BY <2>2, <2>3
<1>3. Keeps(rest, queue, T) /\ DOMAIN T = DOMAIN reactions
  <2>1. rest \in SUBSET pending
    OBVIOUS
  <2> HIDE DEF rest
  <2> QED
    BY <2>1, KeepsRetained
<1> HIDE DEF rest, queue, T, new
<1>4. /\ IsSeq(events) /\ Numbered /\ nextTransaction \in Nat \ {0}
      /\ Books(rest, queue, T, nextTransaction, nextContinuation)
      /\ Rising(queue, lastGeneral, nextSequence) /\ Depth(queue, T) <= count
  BY <1>3 DEF QueueInv, Numbered, Keeps
<1>5. (p.tx = 0 \/ p.tx \in DOMAIN T) /\ (~dm) \in BOOLEAN
  BY <1>1, <1>3
<1> QED
  BY <1>1, <1>2, <1>4, <1>5, Published

\* Expired or cancelled: the entry goes, its callback and its transaction with it.
LEMMA DroppedQueues ==
  ASSUME QueueInv, NEW p \in pending, UseExpired(p) \/ CancelCommand(p)
  PROVE  QueueInv'
<1> DEFINE rest == pending \ {p}
           queue == Retained(general, Ids(rest))
           kept == RetainedAll(reactions, Ids(rest))
           T == WithoutTransactions(kept, {p.tx})
<1>1. /\ pending' = rest /\ general' = queue /\ reactions' = T
      /\ count' = Depth(general', reactions')
      /\ UNCHANGED <<events, nextSequence, nextContinuation, nextTransaction, lastGeneral>>
  BY DEF UseExpired, CancelCommand, clientVars
<1>2. rest \in SUBSET pending
  OBVIOUS
<1> HIDE DEF rest
<1>3. Keeps(rest, queue, kept)
  BY <1>2, KeepsRetained
<1> HIDE DEF queue, kept
<1>4. Keeps(rest, queue, T)
  BY <1>3, KeepsWithout
<1> HIDE DEF T
<1> QED
  BY <1>1, <1>4, Removed

\* What a lifecycle request drops.
LEMMA PruneQueues ==
  ASSUME QueueInv, NEW gone, Prune(gone)
  PROVE  QueueInv'
<1> DEFINE rest == pending \ gone
           queue == Retained(general, Ids(rest))
           kept == RetainedAll(reactions, Ids(rest))
           T == WithoutTransactions(kept, Orphans(kept, rest))
<1>1. /\ pending' = rest /\ general' = queue /\ reactions' = T
      /\ count' = Depth(general', reactions')
      /\ UNCHANGED <<events, nextSequence, nextContinuation, nextTransaction, lastGeneral>>
  BY DEF Prune
<1>2. rest \in SUBSET pending
  OBVIOUS
<1> HIDE DEF rest
<1>3. Keeps(rest, queue, kept)
  BY <1>2, KeepsRetained
<1> HIDE DEF queue, kept
<1>4. Keeps(rest, queue, T)
  BY <1>3, KeepsWithout
<1> HIDE DEF T
<1> QED
  BY <1>1, <1>4, Removed

\* The chunks of a stage publish to the general queue.
LEMMA StageQueues ==
  ASSUME QueueInv, NEW t, NEW n \in Nat,
         StageStarts(t) \/ StageSuspends(n) \/ StageFinishes(n)
  PROVE  QueueInv'
<1>1. \E new : /\ IsSeq(new)
               /\ Publish(0, new, EventLimit, pending, general, reactions, count, FALSE)
               /\ UNCHANGED <<nextTransaction, lastGeneral>>
  <2>1. CASE StageStarts(t)
    <3>1. IsSeq(<<>>)
      BY NewEvents
    <3> QED
      BY <2>1, <3>1 DEF StageStarts, clientVars
  <2>2. CASE StageSuspends(n)
    <3> DEFINE new == Plain(n) \o RunDmReaction(stage, NextToken)
    <3>1. IsSeq(new)
      BY NewEvents
    <3>2. /\ Publish(0, new, EventLimit, pending, general, reactions, count, FALSE)
          /\ UNCHANGED <<nextTransaction, lastGeneral>>
      BY <2>2 DEF StageSuspends, clientVars
    <3> QED
      BY <3>1, <3>2
  <2>3. CASE StageFinishes(n)
    <3> DEFINE new == Plain(n)
    <3>1. IsSeq(new)
      BY NewEvents
    <3>2. /\ Publish(0, new, EventLimit, pending, general, reactions, count, FALSE)
          /\ UNCHANGED <<nextTransaction, lastGeneral>>
      BY <2>3 DEF StageFinishes, clientVars
    <3> QED
      BY <3>1, <3>2
  <2> QED
    BY <2>1, <2>2, <2>3
<1> QED
  BY <1>1, PublishedAsIs

LEMMA QueueInit ==
  ASSUME ServiceInit
  PROVE  QueueInv
<1>1. /\ events = <<>> /\ pending = {} /\ general = <<>> /\ reactions = <<>> /\ count = 0
      /\ nextSequence = 1 /\ nextContinuation = 1 /\ nextTransaction = 1 /\ lastGeneral = 0
  BY DEF ServiceInit
<1>2. IsSeq(<<>>)
  BY NewEvents
<1>3. Numbered
  BY <1>1, ServiceAssumption DEF Numbered
<1>4. DOMAIN reactions = {} /\ general \in Seq(QueuedCallback) /\ Len(general) = 0
  BY <1>1
<1>5. Table(reactions, nextTransaction)
  BY <1>1, <1>4 DEF Table
<1>6. Books(pending, general, reactions, nextTransaction, nextContinuation)
  BY <1>1, <1>4, <1>5 DEF Books, Identified, Held
<1>7. Rising(general, lastGeneral, nextSequence)
  BY <1>4 DEF Rising
<1>8. Depth(general, reactions) = 0
  <2>1. Positions(reactions) = {}
    BY <1>4 DEF Positions
  <2>2. Cardinality({}) = 0
    BY FS_EmptySet
  <2> QED
    BY <1>4, <2>1, <2>2 DEF Depth
<1> QED
  BY <1>1, <1>2, <1>3, <1>6, <1>7, <1>8 DEF QueueInv

LEMMA QueueStep ==
  ASSUME QueueInv, [ServiceNext]_vars
  PROVE  QueueInv'
<1>0. 0..MaxNative \subseteq Nat
  BY ServiceAssumption
<1>1. ASSUME NEW m \in MixtureHandle, NEW n \in 0..MaxNative, NEW dm \in BOOLEAN,
             ReactCommand(m, n, dm)
      PROVE  QueueInv'
  BY <1>0, <1>1, ReactQueues
<1>2. CASE ReactCommandRejected
  BY <1>2, QueuesKept DEF ReactCommandRejected, clientVars
<1>3. ASSUME NEW t \in Turfs, StageStarts(t)
      PROVE  QueueInv'
  <2>1. 0 \in Nat
    OBVIOUS
  <2> QED
    BY <1>3, <2>1, StageQueues
<1>4. ASSUME NEW n \in 0..MaxNative, StageSuspends(n) \/ StageFinishes(n)
      PROVE  QueueInv'
  BY <1>0, <1>4, StageQueues
<1>5. CASE StageRejected
  BY <1>5, QueuesKept DEF StageRejected, clientVars
<1>6. ASSUME NEW p \in pending, UseExpired(p) \/ CancelCommand(p)
      PROVE  QueueInv'
  BY <1>6, DroppedQueues
<1>7. ASSUME NEW p \in pending, NEW n \in 0..MaxNative, NEW dm \in BOOLEAN,
             ResumeCommand(p, n, dm)
      PROVE  QueueInv'
  BY <1>0, <1>7, ResumeQueues
<1>8. CASE Draining
  BY <1>8, DrainGeneralQueues, DrainReactionQueues DEF Draining
<1>9. CASE DrainFails
  BY <1>9, QueuesKept DEF DrainFails, clientVars
<1>10. CASE ServiceLifecycle
  <2>1. \E gone : Prune(gone)
    BY <1>10 DEF ServiceLifecycle
  <2> QED
    BY <2>1, PruneQueues
<1>11. CASE Tick
  BY <1>11, QueuesKept DEF Tick, clientVars
<1>12. CASE UNCHANGED vars
  BY <1>12, QueuesKept DEF vars, clientVars
<1> QED
  BY <1>1, <1>2, <1>3, <1>4, <1>5, <1>6, <1>7, <1>8, <1>9, <1>10, <1>11, <1>12 DEF ServiceNext

\* The numbers of the service, the books of its queues and the depth counter, with any
\* client.
THEOREM QueueInvariant == ServiceSpec => []QueueInv
<1>1. ServiceInit => QueueInv
  BY QueueInit
<1>2. QueueInv /\ [ServiceNext]_vars => QueueInv'
  BY QueueStep
<1> QED
  BY <1>1, <1>2, PTL DEF ServiceSpec

\* pending_callback_count, kept by increments, decrements and recounts on different
\* paths, is what the queues hold and never more than was negotiated, and whoever drains
\* a continuation event finds its entry: with any client and for all bounds.
THEOREM QueuesTheorem == ServiceSpec => []QueuesExact
<1>1. QueueInv => QueuesExact
  <2> SUFFICES ASSUME QueueInv PROVE QueuesExact
    OBVIOUS
  <2>1. CountExact
    BY DEF QueueInv, Numbered, CountExact
  <2>2. /\ general \in Seq(QueuedCallback) /\ Table(reactions, nextTransaction)
        /\ Held(general, 0, pending)
        /\ \A t \in DOMAIN reactions : Held(reactions[t].queue, t, pending)
    BY DEF QueueInv, Books
  <2>3. DOMAIN general = 1..Len(general)
    BY <2>2, LenProperties
  <2>4. \A t \in DOMAIN reactions : DOMAIN reactions[t].queue = 1..Len(reactions[t].queue)
    BY <2>2, TransactionFacts
  <2>5. QueuedTokensPending
    BY <2>2, <2>3, <2>4 DEF QueuedTokensPending, Held
  <2> QED
    BY <2>1, <2>5 DEF QueuesExact
<1> QED
  BY <1>1, QueueInvariant, PTL

\* The callbacks of the general queue are numbered in the order they were published, and
\* what is still queued comes after everything that was drained.
THEOREM OrderTheorem == ServiceSpec => []GeneralInOrder
<1>1. QueueInv => GeneralInOrder
  <2> SUFFICES ASSUME QueueInv PROVE GeneralInOrder
    OBVIOUS
  <2>1. general \in Seq(QueuedCallback) /\ Rising(general, lastGeneral, nextSequence)
    BY DEF QueueInv, Books
  <2>2. DOMAIN general = 1..Len(general)
    BY <2>1, LenProperties
  <2> QED
    BY <2>1, <2>2 DEF GeneralInOrder, Rising
<1> QED
  BY <1>1, QueueInvariant, PTL

(***************************************************************************)
(* Service and core: what is suspended in the core has one entry.          *)
(***************************************************************************)
LiveIn(S) == {s \in DOMAIN S : S[s].held # None}

EntryOf(p, S, I) ==
  /\ p.token \in I /\ p.token[1] \in LiveIn(S) /\ S[p.token[1]].generation = p.token[2]
  /\ S[p.token[1]].held.turf = p.turf /\ S[p.token[1]].held.mixture = p.mixture

\* The entries E are those of the slots in use in table S; I are the tokens issued.
Matched(E, S, I) ==
  /\ \A p \in E : EntryOf(p, S, I)
  /\ \A p, q \in E : p.token[1] = q.token[1] => p = q
  /\ \A s \in LiveIn(S) : \E p \in E : p.token[1] = s

\* What a step of the core may do to the slots in use: empty some, use one, or move one
\* to its next token.
Empties(S, U, R) ==
  LiveIn(U) = LiveIn(S) \ R /\ \A s \in LiveIn(U) : U[s] = S[s]

Uses(S, U, token, c) ==
  /\ token[1] \notin LiveIn(S) /\ LiveIn(U) = LiveIn(S) \cup {token[1]}
  /\ U[token[1]] = [generation |-> token[2], held |-> c]
  /\ \A s \in LiveIn(S) : U[s] = S[s]

Moves(S, U, token) ==
  /\ LiveIn(U) = LiveIn(S)
  /\ U[token[1]].generation = token[2] + 1 /\ U[token[1]].held = S[token[1]].held
  /\ \A s \in LiveIn(S) : s # token[1] => U[s] = S[s]

\* An entry that is made for a token.
EntryFor(e, token, c) == e.token = token /\ e.turf = c.turf /\ e.mixture = c.mixture

LEMMA MatchedWithout ==
  ASSUME NEW E, NEW S, NEW I, Matched(E, S, I), NEW U, NEW R, Empties(S, U, R),
         NEW J, I \subseteq J, NEW F \in SUBSET E,
         \A p \in E : p \in F <=> p.token[1] \notin R
  PROVE  Matched(F, U, J)
<1>1. \A p \in F : EntryOf(p, U, J)
  BY DEF Matched, EntryOf, Empties
<1>2. \A p, q \in F : p.token[1] = q.token[1] => p = q
  BY DEF Matched
<1>3. \A s \in LiveIn(U) : \E p \in F : p.token[1] = s
  BY DEF Matched, Empties
<1> QED
  BY <1>1, <1>2, <1>3 DEF Matched

LEMMA MatchedWith ==
  ASSUME NEW E, NEW S, NEW I, Matched(E, S, I), NEW U, NEW token, NEW c, c # None,
         Uses(S, U, token, c), NEW J, I \subseteq J, token \in J, NEW e, EntryFor(e, token, c)
  PROVE  Matched(E \cup {e}, U, J)
<1>1. \A p \in E : EntryOf(p, U, J) /\ p.token[1] # token[1]
  BY DEF Matched, EntryOf, Uses
<1>2. EntryOf(e, U, J)
  <2>1. U[token[1]].generation = token[2] /\ U[token[1]].held = c
    BY DEF Uses
  <2> QED
    BY <2>1 DEF EntryOf, EntryFor, Uses
<1>3. \A p, q \in E \cup {e} : p.token[1] = q.token[1] => p = q
  BY <1>1 DEF Matched, EntryFor
<1>4. \A s \in LiveIn(U) : \E p \in E \cup {e} : p.token[1] = s
  BY DEF Matched, Uses, EntryFor
<1> QED
  BY <1>1, <1>2, <1>3, <1>4 DEF Matched

LEMMA MatchedMoved ==
  ASSUME NEW E, NEW S, NEW I, Matched(E, S, I), NEW p \in E, NEW U, Moves(S, U, p.token),
         NEW J, I \subseteq J, NEW next, next = <<p.token[1], p.token[2] + 1>>, next \in J,
         NEW e, EntryFor(e, next, S[p.token[1]].held)
  PROVE  Matched((E \ {p}) \cup {e}, U, J)
<1> DEFINE s == p.token[1]
           F == E \ {p}
<1>1. EntryOf(p, S, I) /\ s \in LiveIn(S)
  BY DEF Matched, EntryOf
<1>2. \A q \in F : q.token[1] # s /\ EntryOf(q, S, I)
  BY DEF Matched
<1>3. \A q \in F : EntryOf(q, U, J)
  BY <1>2 DEF EntryOf, Moves
<1>4. next[1] = s /\ next[2] = p.token[2] + 1
  OBVIOUS
<1>5. e.token = next /\ e.turf = S[s].held.turf /\ e.mixture = S[s].held.mixture
  BY DEF EntryFor
<1>6. s \in LiveIn(U) /\ U[s].generation = next[2] /\ U[s].held = S[s].held
  BY <1>1, <1>4 DEF Moves
<1>7. EntryOf(e, U, J)
  BY <1>4, <1>5, <1>6 DEF EntryOf
<1>8. e.token[1] = s
  BY <1>4, <1>5
<1> HIDE DEF s
<1>9. \A q, r \in F \cup {e} : q.token[1] = r.token[1] => q = r
  BY <1>2, <1>8 DEF Matched
<1>10. \A u \in LiveIn(U) : \E q \in F \cup {e} : q.token[1] = u
  <2> SUFFICES ASSUME NEW u \in LiveIn(U) PROVE \E q \in F \cup {e} : q.token[1] = u
    OBVIOUS
  <2>1. CASE u = s
    BY <1>8, <2>1
  <2>2. CASE u # s
    <3>1. PICK q \in E : q.token[1] = u
      BY DEF Matched, Moves
    <3> QED
      BY <2>2, <3>1 DEF s
  <2> QED
    BY <2>1, <2>2
<1> QED
  BY <1>3, <1>7, <1>9, <1>10 DEF Matched

\* There are no more entries than slots in use.
LEMMA MatchedSize ==
  ASSUME NEW E, NEW S, NEW I, Matched(E, S, I), IsFiniteSet(LiveIn(S))
  PROVE  IsFiniteSet(E) /\ Cardinality(E) <= Cardinality(LiveIn(S))
         /\ Cardinality(E) \in Nat /\ Cardinality(LiveIn(S)) \in Nat
<1> DEFINE f == [p \in E |-> p.token[1]]
           L == LiveIn(S)
<1>1. \A p \in E : p.token[1] \in L
  BY DEF Matched, EntryOf
<1>2. f \in [E -> L]
  BY <1>1
<1>3. f \in Injection(E, L)
  BY <1>2 DEF Matched, Injection, IsInjective
<1>4. IsFiniteSet(E) /\ Cardinality(E) <= Cardinality(L)
  BY <1>3, FS_Injection
<1> QED
  BY <1>4, FS_CardinalityType

(***************************************************************************)
(* What the operations on the slot table do to the slots in use            *)
(***************************************************************************)
LEMMA AllocateEffect ==
  ASSUME TableInv, NEW c \in Continuation, AllocateContinuation(c)
  PROVE  /\ Uses(slots, slots', NextToken, c)
         /\ issued' = issued \cup {NextToken} /\ NextToken \in Nat \X Nat
<1>0. c # None
  BY NoneAssumption
<1>1. issued' = issued \cup {NextToken}
  BY DEF AllocateContinuation
<1>2. CASE free # <<>>
  <2> DEFINE s == Last(free)
             r == [generation |-> slots[s].generation + 1, held |-> c]
  <2>1. s \in DOMAIN slots /\ slots[s].held = None
    <3>1. Len(free) \in DOMAIN free
      BY <1>2, PoppedFacts DEF TableInv, TableType
    <3> QED
      BY <3>1 DEF TableInv, FreeListSound, Last
  <2>2. slots' = [slots EXCEPT ![s] = r] /\ NextToken = <<s, slots[s].generation + 1>>
    BY <1>2 DEF AllocateContinuation, NextToken
  <2>3. s \in Nat /\ slots[s].generation \in Nat
    BY <2>1, SlotFacts DEF TableInv
  <2>4. /\ DOMAIN slots' = DOMAIN slots /\ slots'[s] = r
        /\ \A u \in DOMAIN slots : u # s => slots'[u] = slots[u]
    BY <2>1, <2>2
  <2>5. NextToken[1] = s /\ NextToken[2] = slots[s].generation + 1 /\ NextToken \in Nat \X Nat
    BY <2>2, <2>3
  <2>6. r.held = c
    OBVIOUS
  <2>7. /\ s \notin LiveIn(slots) /\ LiveIn(slots') = LiveIn(slots) \cup {s}
        /\ \A u \in LiveIn(slots) : slots'[u] = slots[u]
    BY <1>0, <2>1, <2>4, <2>6 DEF LiveIn
  <2>8. Uses(slots, slots', NextToken, c)
    BY <2>4, <2>5, <2>7 DEF Uses
  <2> QED
    BY <1>1, <2>5, <2>8
<1>3. CASE free = <<>>
  <2> DEFINE r == [generation |-> 1, held |-> c]
             n == Len(slots) + 1
  <2>1. r \in SlotRecord
    BY BoundsAssumption DEF SlotRecord
  <2>2. slots' = Append(slots, r) /\ NextToken = <<n, 1>>
    BY <1>3 DEF AllocateContinuation, NextToken
  <2>3. /\ Len(slots) \in Nat /\ DOMAIN slots = 1..Len(slots)
        /\ DOMAIN slots' = 1..n
        /\ \A u \in DOMAIN slots : slots'[u] = slots[u]
        /\ slots'[n] = r
    BY <2>1, <2>2, PushedFacts DEF TableInv, TableType
  <2>4. NextToken[1] = n /\ NextToken[2] = 1 /\ NextToken \in Nat \X Nat
    BY <2>2, <2>3
  <2>5. r.held = c
    OBVIOUS
  <2>6. /\ n \notin LiveIn(slots) /\ LiveIn(slots') = LiveIn(slots) \cup {n}
        /\ \A u \in LiveIn(slots) : slots'[u] = slots[u]
    BY <1>0, <2>3, <2>5 DEF LiveIn
  <2>7. Uses(slots, slots', NextToken, c)
    BY <2>3, <2>4, <2>6 DEF Uses
  <2> QED
    BY <1>1, <2>4, <2>7
<1> QED
  BY <1>2, <1>3

LEMMA CompleteEffect ==
  ASSUME TableInv, NEW token, CompleteContinuation(token)
  PROVE  Empties(slots, slots', {token[1]}) /\ issued' = issued
<1> DEFINE s == token[1]
<1>1. s \in DOMAIN slots /\ slots[s] \in SlotRecord
  BY SlotFacts DEF CompleteContinuation, TokenLive, TableInv
<1>2. /\ DOMAIN slots' = DOMAIN slots
      /\ slots'[s].held = None
      /\ \A u \in DOMAIN slots : u # s => slots'[u] = slots[u]
  BY <1>1 DEF CompleteContinuation, SlotRecord
<1>3. Empties(slots, slots', {s})
  BY <1>1, <1>2 DEF Empties, LiveIn
<1> QED
  BY <1>3 DEF CompleteContinuation

LEMMA RotateEffect ==
  ASSUME TableInv, NEW token, RotateContinuation(token)
  PROVE  /\ Moves(slots, slots', token)
         /\ issued' = issued \cup {<<token[1], token[2] + 1>>}
<1> DEFINE s == token[1]
<1>1. s \in DOMAIN slots /\ slots[s] \in SlotRecord /\ slots[s].generation = token[2]
  BY SlotFacts DEF RotateContinuation, TokenLive, TableInv
<1>2. /\ DOMAIN slots' = DOMAIN slots
      /\ slots'[s].held = slots[s].held /\ slots'[s].generation = slots[s].generation + 1
      /\ \A u \in DOMAIN slots : u # s => slots'[u] = slots[u]
  BY <1>1 DEF RotateContinuation, SlotRecord
<1>3. Moves(slots, slots', token)
  BY <1>1, <1>2 DEF Moves, LiveIn
<1> QED
  BY <1>3 DEF RotateContinuation

LEMMA FreedEffect ==
  ASSUME TableInv, NEW matching, NEW list, Freed(matching, list)
  PROVE  Empties(slots, slots', matching) /\ issued' = issued
<1>1. /\ DOMAIN slots' = DOMAIN slots
      /\ \A s \in DOMAIN slots : s \in matching => slots'[s] = [slots[s] EXCEPT !.held = None]
      /\ \A s \in DOMAIN slots : s \notin matching => slots'[s] = slots[s]
  BY DEF Freed
<1>2. \A s \in DOMAIN slots : s \in matching => slots'[s].held = None
  <2> SUFFICES ASSUME NEW s \in DOMAIN slots, s \in matching PROVE slots'[s].held = None
    OBVIOUS
  <2>1. slots[s] \in SlotRecord
    BY SlotFacts DEF TableInv
  <2> QED
    BY <1>1, <2>1 DEF SlotRecord
<1>3. Empties(slots, slots', matching)
  BY <1>1, <1>2 DEF Empties, LiveIn
<1> QED
  BY <1>3 DEF Freed

LEMMA InvalidateEffect ==
  ASSUME TableInv, NEW matching, Invalidate(matching)
  PROVE  Empties(slots, slots', matching) /\ issued' = issued
<1>1. PICK list \in Ascending(matching) : free' = free \o list
  BY DEF Invalidate
<1>2. Freed(matching, list)
  BY <1>1 DEF Freed, Invalidate
<1> QED
  BY <1>2, FreedEffect

\* A conflict or an overflow leaves the slots in use alone.
LEMMA IdleEffect ==
  ASSUME TableInv, StageConflict \/ AllocationOverflow \/ UNCHANGED <<slots, issued>>
  PROVE  Empties(slots, slots', {}) /\ issued \subseteq issued'
<1>1. CASE AllocationOverflow \/ UNCHANGED <<slots, issued>>
  BY <1>1 DEF AllocationOverflow, Empties, LiveIn
<1>2. CASE StageConflict /\ free # <<>>
  <2> DEFINE s == Last(free)
  <2>1. s \in DOMAIN slots /\ slots[s].held = None
    <3>1. Len(free) \in DOMAIN free
      BY <1>2, PoppedFacts DEF TableInv, TableType
    <3> QED
      BY <3>1 DEF TableInv, FreeListSound, Last
  <2>2. slots[s] \in SlotRecord
    BY <2>1, SlotFacts DEF TableInv
  <2>3. slots' = [slots EXCEPT ![s] = [slots[s] EXCEPT !.generation = slots[s].generation + 1]]
        /\ issued \subseteq issued'
    BY <1>2, <2>1 DEF StageConflict
  <2>4. /\ DOMAIN slots' = DOMAIN slots /\ slots'[s].held = None
        /\ \A u \in DOMAIN slots : u # s => slots'[u] = slots[u]
    BY <2>1, <2>2, <2>3 DEF SlotRecord
  <2>5. Empties(slots, slots', {})
    BY <2>1, <2>4 DEF Empties, LiveIn
  <2> QED
    BY <2>3, <2>5
<1>3. CASE StageConflict /\ free = <<>>
  <2> DEFINE r == [generation |-> 1, held |-> None]
             n == Len(slots) + 1
  <2>1. r \in SlotRecord /\ r.held = None
    BY BoundsAssumption DEF SlotRecord
  <2>2. slots' = Append(slots, r) /\ issued \subseteq issued'
    BY <1>3 DEF StageConflict
  <2>3. /\ Len(slots) \in Nat /\ DOMAIN slots = 1..Len(slots) /\ DOMAIN slots' = 1..n
        /\ \A u \in DOMAIN slots : slots'[u] = slots[u]
        /\ slots'[n] = r
    BY <2>1, <2>2, PushedFacts DEF TableInv, TableType
  <2>4. Empties(slots, slots', {})
    BY <2>1, <2>3 DEF Empties, LiveIn
  <2> QED
    BY <2>2, <2>4
<1> QED
  BY <1>1, <1>2, <1>3

(***************************************************************************)
(* Publishing with nothing left behind                                     *)
(***************************************************************************)
\* The open transactions, those in spared aside, wait for a continuation.
Waiting(T, entries, spared) ==
  \A t \in DOMAIN T \ spared : ~T[t].complete => \E p \in entries : p.tx = t

LEMMA PlainFacts ==
  ASSUME NEW n \in Nat
  PROVE  Len(Plain(n)) = n /\ Suspends(Plain(n), n) = {}
<1>1. Plain(n) = [i \in 1..n |-> PlainEvent]
  BY DEF Plain
<1>2. Plain(n) \in [1..n -> {PlainEvent}]
  <2> DEFINE e == PlainEvent
  <2>1. [i \in 1..n |-> e] \in [1..n -> {e}]
    OBVIOUS
  <2> QED
    BY <1>1, <2>1
<1>3. Plain(n) \in Seq({PlainEvent})
  BY <1>2, SeqDef
<1>4. DOMAIN Plain(n) = 1..n
  BY <1>1
<1>5. Len(Plain(n)) = n
  BY <1>3, <1>4, LenProperties
<1>6. \A i \in 1..n : Plain(n)[i].token = None
  BY <1>1 DEF PlainEvent
<1> QED
  BY <1>5, <1>6 DEF Suspends

\* The last of n + 1 events suspends a reaction, the others are plain.
EndsSuspended(new, n, c, token) ==
  /\ Len(new) = n + 1 /\ Suspends(new, n + 1) = {n + 1}
  /\ new[n + 1] = [token |-> token, turf |-> c.turf, mixture |-> c.mixture]

LEMMA OneFacts ==
  ASSUME NEW n \in Nat, NEW c, NEW token, token # None
  PROVE  EndsSuspended(Plain(n) \o RunDmReaction(c, token), n, c, token)
<1> DEFINE r == [token |-> token, turf |-> c.turf, mixture |-> c.mixture]
           S == {PlainEvent, r}
           one == RunDmReaction(c, token)
           new == Plain(n) \o one
<1>1. Plain(n) = [i \in 1..n |-> PlainEvent]
  BY DEF Plain
<1>2. \A i \in 1..n : Plain(n)[i] = PlainEvent
  BY <1>1
<1>3. Plain(n) \in Seq(S)
  <2>1. Plain(n) \in [1..n -> S]
    BY <1>1
  <2> QED
    BY <2>1, SeqDef
<1>4. one \in Seq(S) /\ Len(one) = 1 /\ one[1] = r
  BY DEF RunDmReaction
<1>5. Len(Plain(n)) = n
  BY PlainFacts
<1> HIDE DEF S, one
<1>6. /\ Len(new) = n + 1
      /\ \A i \in 1..(n + 1) : new[i] = IF i <= n THEN Plain(n)[i] ELSE one[i - n]
  <2> DEFINE a == Plain(n)
  <2>1. a \in Seq(S) /\ one \in Seq(S) /\ Len(a) = n /\ Len(one) = 1
    BY <1>3, <1>4, <1>5
  <2> HIDE DEF a
  <2>2. /\ Len(a \o one) = Len(a) + Len(one)
        /\ \A i \in 1..(Len(a) + Len(one)) :
             (a \o one)[i] = IF i <= Len(a) THEN a[i] ELSE one[i - Len(a)]
    BY <2>1, ConcatProperties
  <2>3. /\ Len(a \o one) = n + 1
        /\ \A i \in 1..(n + 1) : (a \o one)[i] = IF i <= n THEN a[i] ELSE one[i - n]
    BY <2>1, <2>2
  <2> QED
    BY <2>3 DEF a
<1> HIDE DEF new
<1>7. \A i \in 1..n : new[i] = PlainEvent
  BY <1>2, <1>6
<1>8. new[n + 1] = r
  <2>1. n + 1 \in 1..(n + 1) /\ ~(n + 1 <= n) /\ n + 1 - n = 1
    OBVIOUS
  <2> QED
    BY <1>4, <1>6, <2>1
<1>9. Suspends(new, n + 1) = {n + 1}
  <2>1. \A i \in 1..n : new[i].token = None
    BY <1>7 DEF PlainEvent
  <2>2. new[n + 1].token # None
    BY <1>8
  <2>3. \A i \in 1..(n + 1) : i \in 1..n \/ i = n + 1
    OBVIOUS
  <2> QED
    BY <2>1, <2>2, <2>3 DEF Suspends
<1> QED
  BY <1>6, <1>8, <1>9 DEF new, one, EndsSuspended

\* Everything leaves when it fits.
LEMMA PublishAll ==
  ASSUME events = <<>>, EventLimit \in Nat, MaxContinuations \in Nat, NEW new, IsSeq(new),
         Len(new) <= EventLimit, NEW tx, NEW entries, NEW queue, NEW T, NEW depth, NEW done,
         Cardinality(entries) + Cardinality(Suspends(new, Len(new))) <= MaxContinuations,
         Cardinality(entries) \in Nat, Cardinality(Suspends(new, Len(new))) \in Nat,
         tx = 0 \/ tx \in DOMAIN T,
         Publish(tx, new, EventLimit, entries, queue, T, depth, done)
  PROVE  Leaves(tx, new, Len(new), entries, queue, T, depth, done) /\ events' = <<>>
<1>1. PICK S : new \in Seq(S)
  BY DEF IsSeq
<1>2. events \o new = new
  BY <1>1, ConcatEmptySeq
<1>3. Len(new) \in Nat
  BY <1>1, LenProperties
<1>4. Smaller(Len(new), EventLimit) = Len(new)
  BY <1>3 DEF Smaller
<1>5. Leaves(tx, new, Len(new), entries, queue, T, depth, done)
  <2>1. IF Cardinality(entries) + Cardinality(Suspends(new, Len(new))) > MaxContinuations
        THEN Stays(new, entries, queue, T, depth)
        ELSE Leaves(tx, new, Len(new), entries, queue, T, depth, done)
    BY <1>2, <1>4, PublishCases
  <2>2. ~(Cardinality(entries) + Cardinality(Suspends(new, Len(new))) > MaxContinuations)
    OBVIOUS
  <2> QED
    BY <2>1, <2>2
<1>6. SubSeq(new, Len(new) + 1, Len(new)) = <<>>
  BY <1>1, <1>3, SubSeqEmpty
<1> QED
  BY <1>5, <1>6 DEF Leaves

\* A spared transaction is completed by the batch, or waits for an entry of it.
LEMMA LeavesWaiting ==
  ASSUME NEW tx, NEW all, NEW size, NEW entries, NEW queue, NEW T, NEW depth,
         NEW done \in BOOLEAN, Leaves(tx, all, size, entries, queue, T, depth, done),
         tx = 0 \/ tx \in DOMAIN T, 0 \notin DOMAIN T,
         \A t \in DOMAIN T : T[t].complete \in BOOLEAN,
         NEW spared, Waiting(T, entries, spared), spared \subseteq {tx},
         spared # {} => done \/ \E p \in pending' : p.tx = tx
  PROVE  Waiting(reactions', pending', {})
<1> DEFINE batch == Batch(all, size, nextContinuation, FirstSequence(tx, T))
<1>1. /\ entries \subseteq pending'
      /\ reactions' = IF tx = 0 THEN T ELSE Extended(T, tx, batch, size, done)
  BY DEF Leaves
<1>2. ASSUME NEW t \in DOMAIN T, ~T[t].complete, t \notin spared
      PROVE  \E p \in pending' : p.tx = t
  BY <1>1, <1>2 DEF Waiting
<1> HIDE DEF batch
<1>3. CASE tx = 0
  <2>1. reactions' = T /\ \A t \in DOMAIN T : t \notin spared
    BY <1>1, <1>3
  <2> QED
    BY <1>2, <2>1 DEF Waiting
<1>4. CASE tx # 0
  <2> DEFINE U == Extended(T, tx, batch, size, done)
  <2>1. DOMAIN U = DOMAIN T /\ \A t \in DOMAIN T : t # tx => U[t] = T[t]
    BY DEF Extended
  <2>2. U[tx].complete = (T[tx].complete \/ done)
    BY <1>4 DEF Extended
  <2>3. reactions' = U
    BY <1>1, <1>4
  <2> HIDE DEF U
  <2>4. ASSUME NEW t \in DOMAIN U, ~U[t].complete
        PROVE  \E p \in pending' : p.tx = t
    <3>1. CASE t # tx
      BY <1>2, <2>1, <2>4, <3>1
    <3>2. CASE t = tx
      <4>1. ~T[tx].complete /\ ~done
        BY <2>1, <2>2, <2>4, <3>2
      <4> QED
        BY <1>2, <2>1, <3>2, <4>1
    <3> QED
      BY <3>1, <3>2
  <2> QED
    BY <2>3, <2>4 DEF Waiting
<1> QED
  BY <1>3, <1>4

\* The table of transactions as far as publishing is concerned.
Open(T, tx) ==
  /\ tx = 0 \/ tx \in DOMAIN T
  /\ 0 \notin DOMAIN T /\ \A t \in DOMAIN T : T[t].complete \in BOOLEAN

PublishesPlain(tx, n, entries, queue, T, depth, done) ==
  Publish(tx, Plain(n), EventLimit, entries, queue, T, depth, done)

PublishesOne(tx, n, c, token, entries, queue, T, depth, done) ==
  Publish(tx, Plain(n) \o RunDmReaction(c, token), EventLimit, entries, queue, T, depth, done)

LEMMA PublishPlain ==
  ASSUME events = <<>>, EventLimit \in Nat, NEW n \in Nat, n <= EventLimit,
         MaxContinuations \in Nat, NEW entries, Cardinality(entries) \in Nat,
         Cardinality(entries) <= MaxContinuations,
         NEW tx, NEW queue, NEW T, Open(T, tx), NEW depth, NEW done \in BOOLEAN,
         Waiting(T, entries, {}) \/ (done /\ Waiting(T, entries, {tx})),
         PublishesPlain(tx, n, entries, queue, T, depth, done)
  PROVE  events' = <<>> /\ pending' = entries /\ Waiting(reactions', pending', {})
<1> DEFINE new == Plain(n)
<1>1. IsSeq(new) /\ Len(new) = n /\ Suspends(new, n) = {}
  BY NewEvents, PlainFacts
<1>2. Cardinality({}) = 0
  BY FS_EmptySet
<1> HIDE DEF new
<1>3. /\ Cardinality(Suspends(new, Len(new))) = 0 /\ Len(new) <= EventLimit
      /\ Cardinality(entries) + Cardinality(Suspends(new, Len(new))) <= MaxContinuations
      /\ Cardinality(Suspends(new, Len(new))) \in Nat
  BY <1>1, <1>2
<1>4. tx = 0 \/ tx \in DOMAIN T
  BY DEF Open
<1>5. Publish(tx, new, EventLimit, entries, queue, T, depth, done)
  BY DEF new, PublishesPlain
<1>6. Leaves(tx, new, Len(new), entries, queue, T, depth, done) /\ events' = <<>>
  BY <1>1, <1>3, <1>4, <1>5, PublishAll
<1>7. pending' = entries
  <2>1. NewEntries(new, Len(new), nextContinuation, tx, now + Timeout) = {}
    BY <1>1 DEF NewEntries
  <2>2. pending' = entries
                    \cup NewEntries(new, Len(new), nextContinuation, tx, now + Timeout)
    BY <1>6 DEF Leaves
  <2> QED
    BY <2>1, <2>2
<1>8. PICK spared : /\ Waiting(T, entries, spared) /\ spared \subseteq {tx}
                    /\ spared # {} => done
  OBVIOUS
<1>9. Waiting(reactions', pending', {})
  BY <1>6, <1>8, LeavesWaiting DEF Open
<1> QED
  BY <1>6, <1>7, <1>9

LEMMA PublishOne ==
  ASSUME events = <<>>, EventLimit \in Nat, NEW n \in Nat, n + 1 <= EventLimit,
         MaxContinuations \in Nat, NEW entries, Cardinality(entries) \in Nat,
         Cardinality(entries) + 1 <= MaxContinuations, NEW token, token # None, NEW c,
         NEW tx, NEW queue, NEW T, Open(T, tx), NEW depth, NEW done \in BOOLEAN,
         Waiting(T, entries, {tx}),
         PublishesOne(tx, n, c, token, entries, queue, T, depth, done)
  PROVE  /\ events' = <<>> /\ Waiting(reactions', pending', {})
         /\ \E e : EntryFor(e, token, c) /\ pending' = entries \cup {e}
<1> DEFINE new == Plain(n) \o RunDmReaction(c, token)
<1>1. /\ IsSeq(new) /\ Len(new) = n + 1 /\ Suspends(new, n + 1) = {n + 1}
      /\ new[n + 1] = [token |-> token, turf |-> c.turf, mixture |-> c.mixture]
  <2>1. IsSeq(new)
    BY NewEvents
  <2>2. /\ Len(new) = n + 1 /\ Suspends(new, n + 1) = {n + 1}
        /\ new[n + 1] = [token |-> token, turf |-> c.turf, mixture |-> c.mixture]
    <3>1. EndsSuspended(new, n, c, token)
      BY OneFacts
    <3> HIDE DEF new
    <3> QED
      BY <3>1 DEF EndsSuspended
  <2> HIDE DEF new
  <2> QED
    BY <2>1, <2>2
<1>2. Cardinality({n + 1}) = 1
  BY FS_Singleton
<1>3. Publish(tx, new, EventLimit, entries, queue, T, depth, done)
  BY DEF PublishesOne
<1> HIDE DEF new
<1>4. /\ Cardinality(Suspends(new, Len(new))) = 1 /\ Len(new) <= EventLimit
      /\ Cardinality(entries) + Cardinality(Suspends(new, Len(new))) <= MaxContinuations
      /\ Cardinality(Suspends(new, Len(new))) \in Nat
  <2>1. Cardinality(Suspends(new, Len(new))) = 1
    BY <1>1, <1>2
  <2>2. Len(new) <= EventLimit
    BY <1>1
  <2> QED
    BY <2>1, <2>2
<1>5. tx = 0 \/ tx \in DOMAIN T
  BY DEF Open
<1>6. Leaves(tx, new, Len(new), entries, queue, T, depth, done) /\ events' = <<>>
  BY <1>1, <1>3, <1>4, <1>5, PublishAll
<1> DEFINE e == Entry(new, n + 1, nextContinuation, tx, now + Timeout, n + 1)
<1>7. EntryFor(e, token, c) /\ e.tx = tx
  BY <1>1 DEF EntryFor, Entry
<1>8. pending' = entries \cup {e}
  <2>1. NewEntries(new, Len(new), nextContinuation, tx, now + Timeout) = {e}
    BY <1>1 DEF NewEntries
  <2>2. pending' = entries
                    \cup NewEntries(new, Len(new), nextContinuation, tx, now + Timeout)
    BY <1>6 DEF Leaves
  <2> QED
    BY <2>1, <2>2
<1> HIDE DEF e
<1>9. \E p \in pending' : p.tx = tx
  BY <1>7, <1>8
<1>10. Waiting(reactions', pending', {})
  <2> DEFINE spared == {tx}
  <2>1. spared \subseteq {tx} /\ Waiting(T, entries, spared)
    OBVIOUS
  <2> HIDE DEF spared
  <2> QED
    BY <1>6, <1>9, <2>1, LeavesWaiting DEF Open
<1> QED
  BY <1>6, <1>7, <1>8, <1>10

(***************************************************************************)
(* The agreement of service and core                                       *)
(***************************************************************************)
Agreed ==
  /\ ContinuationsInv /\ CapacityHeld /\ events = <<>>
  /\ Matched(pending, slots, issued) /\ Waiting(reactions, pending, {})

LEMMA LiveInFinite ==
  ASSUME NEW S \in Seq(SlotRecord)
  PROVE  IsFiniteSet(LiveIn(S)) /\ Cardinality(LiveIn(S)) \in Nat
<1>1. DOMAIN S = 1..Len(S) /\ Len(S) \in Nat
  BY LenProperties
<1>2. LiveIn(S) \in SUBSET (1..Len(S))
  BY <1>1 DEF LiveIn
<1>3. IsFiniteSet(1..Len(S))
  BY <1>1, FS_Interval
<1>4. IsFiniteSet(LiveIn(S))
  BY <1>2, <1>3, FS_Subset
<1> QED
  BY <1>4, FS_CardinalityType

\* The entries fit the capacity of the core.
LEMMA RoomNow ==
  ASSUME Agreed
  PROVE  /\ IsFiniteSet(pending) /\ Cardinality(pending) \in Nat
         /\ Cardinality(pending) <= MaxContinuations /\ MaxContinuations \in Nat
<1>1. slots \in Seq(SlotRecord) /\ free \in Seq(Nat)
  BY DEF Agreed, ContinuationsInv, TableInv, TableType
<1>2. /\ IsFiniteSet(pending) /\ Cardinality(pending) <= Cardinality(LiveIn(slots))
      /\ Cardinality(pending) \in Nat /\ Cardinality(LiveIn(slots)) \in Nat
  BY <1>1, LiveInFinite, MatchedSize DEF Agreed
<1>3. LiveIn(slots) = LiveSlots
  BY DEF LiveIn, LiveSlots
<1>4. Len(free) \in Nat
  BY <1>1, LenProperties
<1>5. Cardinality(LiveSlots) + Len(free) <= MaxContinuations
  BY DEF Agreed, CapacityHeld
<1> HIDE DEF Agreed
<1> QED
  BY <1>2, <1>3, <1>4, <1>5, BoundsAssumption

\* The core had room for one more, so has the service.
LEMMA RoomForOne ==
  ASSUME Agreed, ContinuationsInv', CapacityHeld', NEW token, NEW c,
         Uses(slots, slots', token, c)
  PROVE  Cardinality(pending) + 1 <= MaxContinuations
<1>1. slots \in Seq(SlotRecord) /\ slots' \in Seq(SlotRecord) /\ free' \in Seq(Nat)
  BY DEF Agreed, ContinuationsInv, TableInv, TableType
<1>2. /\ Cardinality(pending) <= Cardinality(LiveIn(slots))
      /\ Cardinality(pending) \in Nat /\ Cardinality(LiveIn(slots)) \in Nat
      /\ IsFiniteSet(LiveIn(slots))
  BY <1>1, LiveInFinite, MatchedSize DEF Agreed
<1>3. Cardinality(LiveIn(slots')) = Cardinality(LiveIn(slots)) + 1
  <2>1. LiveIn(slots') = LiveIn(slots) \cup {token[1]} /\ token[1] \notin LiveIn(slots)
    BY DEF Uses
  <2> QED
    BY <1>2, <2>1, FS_AddElement
<1>4. Len(free') \in Nat
  BY <1>1, LenProperties
<1>5. Cardinality(LiveIn(slots')) + Len(free') <= MaxContinuations
  BY DEF CapacityHeld, LiveSlots, LiveIn
<1> QED
  BY <1>2, <1>3, <1>4, <1>5, BoundsAssumption

LEMMA FitsFacts ==
  ASSUME QueueInv, events = <<>>, NEW n \in Nat, Fits(n)
  PROVE  n <= EventLimit
<1>1. EventLimit \in Nat /\ MaxCallbacks \in Nat
  BY ServiceAssumption DEF EventLimit, QueueInv, Numbered
<1>2. Len(events) = 0
  OBVIOUS
<1>3. Len(events) + n <= Smaller(MaxCallbacks, EventLimit)
  BY DEF Fits
<1> HIDE DEF EventLimit
<1> QED
  BY <1>1, <1>2, <1>3 DEF Smaller

LEMMA LimitIsNat ==
  ASSUME QueueInv
  PROVE  EventLimit \in Nat
  BY ServiceAssumption DEF EventLimit, QueueInv, Numbered

\* The transactions of the service, and what is left of them when callbacks go.
LEMMA OpenFacts ==
  ASSUME QueueInv, NEW ids
  PROVE  /\ 0 \notin DOMAIN reactions /\ nextTransaction \notin DOMAIN reactions
         /\ \A t \in DOMAIN reactions : reactions[t].complete \in BOOLEAN
         /\ DOMAIN RetainedAll(reactions, ids) = DOMAIN reactions
         /\ \A t \in DOMAIN reactions :
              RetainedAll(reactions, ids)[t].complete = reactions[t].complete
<1>1. Table(reactions, nextTransaction) /\ nextTransaction \in Nat
  BY DEF QueueInv, Numbered, Books
<1>2. \A t \in DOMAIN reactions : reactions[t] \in Transaction
  BY <1>1, TransactionFacts
<1>3. \A t \in DOMAIN reactions : reactions[t].complete \in BOOLEAN
  BY <1>2 DEF Transaction
<1>4. 0 \notin DOMAIN reactions /\ nextTransaction \notin DOMAIN reactions
  BY <1>1 DEF Table
<1>5. DOMAIN RetainedAll(reactions, ids) = DOMAIN reactions
  BY DEF RetainedAll
<1>6. ASSUME NEW t \in DOMAIN reactions
      PROVE  RetainedAll(reactions, ids)[t].complete = reactions[t].complete
  <2>1. RetainedAll(reactions, ids)[t]
          = [reactions[t] EXCEPT !.queue = Retained(reactions[t].queue, ids)]
    BY DEF RetainedAll
  <2> QED
    BY <1>2, <2>1 DEF Transaction
<1> QED
  BY <1>3, <1>4, <1>5, <1>6

LEMMA CoreStep ==
  ASSUME Agreed, [Next]_coreVars
  PROVE  ContinuationsInv' /\ CapacityHeld'
<1>1. ContinuationsInv'
  BY InvStep DEF Agreed
<1>2. CapacityHeld'
  BY CapacityStep DEF Agreed, ContinuationsInv
<1> QED
  BY <1>1, <1>2

\* A request that leaves the queues and the slots in use alone.
LEMMA AgreedKept ==
  ASSUME Agreed, UNCHANGED queueVars, [Next]_coreVars, Empties(slots, slots', {}),
         issued \subseteq issued'
  PROVE  Agreed'
<1>1. ContinuationsInv' /\ CapacityHeld'
  BY CoreStep
<1>2. events' = events /\ pending' = pending /\ reactions' = reactions
  BY DEF queueVars
<1>3. Matched(pending, slots', issued')
  <2>1. \A p \in pending : p \in pending <=> p.token[1] \notin {}
    OBVIOUS
  <2> QED
    BY <2>1, MatchedWithout DEF Agreed
<1> QED
  BY <1>1, <1>2, <1>3 DEF Agreed

\* A React command that suspends gets its entry; one that does not is complete.
LEMMA ReactAgrees ==
  ASSUME QueueInv, Agreed, NEW m \in MixtureHandle, NEW n \in Nat, NEW dm \in BOOLEAN,
         ReactCommand(m, n, dm)
  PROVE  Agreed'
<1> DEFINE tx == nextTransaction
           entry == [queue |-> <<>>, next |-> 1, complete |-> FALSE]
           T == [t \in DOMAIN reactions \cup {tx} |-> IF t = tx THEN entry ELSE reactions[t]]
           c == [turf |-> None, mixture |-> m]
<1>1. /\ Fits(n + (IF dm THEN 1 ELSE 0))
      /\ \/ /\ dm /\ React(m)
            /\ PublishesOne(tx, n, c, NextToken, pending, general, T, count, FALSE)
         \/ /\ ~dm /\ UNCHANGED coreVars
            /\ PublishesPlain(tx, n, pending, general, T, count, TRUE)
  BY DEF ReactCommand, PublishesPlain, PublishesOne
<1>2. /\ tx \in Nat \ {0} /\ 0 \notin DOMAIN reactions /\ tx \notin DOMAIN reactions
      /\ \A t \in DOMAIN reactions : reactions[t].complete \in BOOLEAN
  BY OpenFacts DEF QueueInv, Numbered
<1>3. DOMAIN T = DOMAIN reactions \cup {tx} /\ T[tx].complete = FALSE
      /\ \A t \in DOMAIN reactions : T[t] = reactions[t]
  BY <1>2
<1> HIDE DEF T
<1>4. Open(T, tx)
  BY <1>2, <1>3 DEF Open
<1>5. Waiting(T, pending, {tx})
  BY <1>3 DEF Waiting, Agreed
<1>6. EventLimit \in Nat /\ events = <<>>
  BY LimitIsNat DEF Agreed
<1>7. Cardinality(pending) \in Nat /\ Cardinality(pending) <= MaxContinuations
      /\ MaxContinuations \in Nat
  BY RoomNow
<1>8. TableInv
  BY DEF Agreed, ContinuationsInv
<1>9. ASSUME dm, React(m), PublishesOne(tx, n, c, NextToken, pending, general, T, count, FALSE)
      PROVE  Agreed'
  <2>1. [Next]_coreVars
    BY <1>9 DEF Next, Reactions
  <2>2. ContinuationsInv' /\ CapacityHeld'
    BY <2>1, CoreStep
  <2>3. c \in Continuation /\ c # None
    BY NoneAssumption DEF Continuation
  <2>4. AllocateContinuation(c)
    BY <1>9 DEF React
  <2> HIDE DEF c
  <2>5. /\ Uses(slots, slots', NextToken, c)
        /\ issued' = issued \cup {NextToken} /\ NextToken \in Nat \X Nat
    BY <1>8, <2>3, <2>4, AllocateEffect
  <2>6. Cardinality(pending) + 1 <= MaxContinuations
    BY <2>2, <2>5, RoomForOne
  <2>7. n + 1 <= EventLimit
    <3>1. Fits(n + 1) /\ n + 1 \in Nat
      BY <1>1, <1>9
    <3> QED
      BY <1>6, <3>1, FitsFacts
  <2>8. /\ events' = <<>> /\ Waiting(reactions', pending', {})
        /\ \E e : EntryFor(e, NextToken, c) /\ pending' = pending \cup {e}
    <3>1. FALSE \in BOOLEAN /\ PublishesOne(tx, n, c, NextToken, pending, general, T, count, FALSE)
      BY <1>9
    <3>2. NextToken # None
      BY <2>5, TokenAssumption
    <3> HIDE DEF tx
    <3> QED
      BY <1>4, <1>5, <1>6, <1>7, <3>2, <2>6, <2>7, <3>1, PublishOne
  <2>9. PICK e : EntryFor(e, NextToken, c) /\ pending' = pending \cup {e}
    BY <2>8
  <2>10. Matched(pending \cup {e}, slots', issued')
    BY <2>3, <2>5, <2>9, MatchedWith DEF Agreed
  <2> QED
    BY <2>2, <2>8, <2>9, <2>10 DEF Agreed
<1>10. ASSUME ~dm, UNCHANGED coreVars, PublishesPlain(tx, n, pending, general, T, count, TRUE)
       PROVE  Agreed'
  <2>1. [Next]_coreVars
    BY <1>10
  <2>2. ContinuationsInv' /\ CapacityHeld'
    BY <2>1, CoreStep
  <2>3. n <= EventLimit
    <3>1. Fits(n)
      BY <1>1, <1>10
    <3> QED
      BY <1>6, <3>1, FitsFacts
  <2>4. events' = <<>> /\ pending' = pending /\ Waiting(reactions', pending', {})
    <3>1. TRUE \in BOOLEAN /\ PublishesPlain(tx, n, pending, general, T, count, TRUE)
      BY <1>10
    <3> HIDE DEF tx
    <3> QED
      BY <1>4, <1>5, <1>6, <1>7, <2>3, <3>1, PublishPlain
  <2>5. slots' = slots /\ issued' = issued
    BY <1>10 DEF coreVars
  <2> QED
    BY <2>2, <2>4, <2>5 DEF Agreed
<1> QED
  BY <1>1, <1>9, <1>10

\* The chunks of a stage.
LEMMA StageAgrees ==
  ASSUME QueueInv, Agreed, NEW n \in Nat, (\E t \in Turfs : StageStarts(t)) \/ StageFinishes(n)
  PROVE  Agreed'
<1>1. [Next]_coreVars /\ slots' = slots /\ issued' = issued
  <2>1. CASE \E t \in Turfs : StageStarts(t)
    BY <2>1 DEF StageStarts, StageBegin, Next, Reactions
  <2>2. CASE StageFinishes(n)
    BY <2>2 DEF StageFinishes, StageEnd, Next, Reactions
  <2> QED
    BY <2>1, <2>2
<1>2. ContinuationsInv' /\ CapacityHeld'
  BY <1>1, CoreStep
<1>3. EventLimit \in Nat /\ events = <<>>
  BY LimitIsNat DEF Agreed
<1>4. Cardinality(pending) \in Nat /\ Cardinality(pending) <= MaxContinuations
      /\ MaxContinuations \in Nat
  BY RoomNow
<1>5. \E k \in Nat : k <= EventLimit
                     /\ PublishesPlain(0, k, pending, general, reactions, count, FALSE)
  <2>1. CASE \E t \in Turfs : StageStarts(t)
    <3>1. IsSeq(Plain(0)) /\ Len(Plain(0)) = 0
      BY NewEvents, PlainFacts
    <3>2. Plain(0) = <<>>
      BY <3>1, EmptySeq DEF IsSeq
    <3>3. Publish(0, <<>>, EventLimit, pending, general, reactions, count, FALSE)
      BY <2>1 DEF StageStarts
    <3>4. PublishesPlain(0, 0, pending, general, reactions, count, FALSE)
      BY <3>2, <3>3 DEF PublishesPlain
    <3>5. 0 \in Nat /\ 0 <= EventLimit
      BY <1>3
    <3> QED
      BY <3>4, <3>5
  <2>2. CASE StageFinishes(n)
    <3>1. Fits(n) /\ PublishesPlain(0, n, pending, general, reactions, count, FALSE)
      BY <2>2 DEF StageFinishes, PublishesPlain
    <3>2. n <= EventLimit
      BY <1>3, <3>1, FitsFacts
    <3> QED
      BY <3>1, <3>2
  <2> QED
    BY <2>1, <2>2
<1>6. PICK k \in Nat :
        k <= EventLimit
        /\ PublishesPlain(0, k, pending, general, reactions, count, FALSE)
  BY <1>5
<1>7. Open(reactions, 0) /\ Waiting(reactions, pending, {})
  BY OpenFacts DEF Open, Agreed
<1>8. events' = <<>> /\ pending' = pending /\ Waiting(reactions', pending', {})
  <2>1. FALSE \in BOOLEAN
    OBVIOUS
  <2> QED
    BY <1>3, <1>4, <1>6, <1>7, <2>1, PublishPlain
<1> QED
  BY <1>1, <1>2, <1>8 DEF Agreed

LEMMA SuspendAgrees ==
  ASSUME QueueInv, Agreed, NEW n \in Nat, StageSuspends(n)
  PROVE  Agreed'
<1> DEFINE c == stage
<1>1. [Next]_coreVars
  BY DEF StageSuspends, Next, Reactions
<1>2. ContinuationsInv' /\ CapacityHeld'
  BY <1>1, CoreStep
<1>3. EventLimit \in Nat /\ events = <<>> /\ TableInv
  BY LimitIsNat DEF Agreed, ContinuationsInv
<1>4. Cardinality(pending) \in Nat /\ MaxContinuations \in Nat
  BY RoomNow
<1>5. c \in Continuation /\ c # None /\ AllocateContinuation(c)
  BY DEF StageSuspends, StageCommit, Agreed, ContinuationsInv, WorldType
<1>6. /\ Fits(n + 1)
      /\ PublishesOne(0, n, c, NextToken, pending, general, reactions, count, FALSE)
  BY DEF StageSuspends, PublishesOne
<1> HIDE DEF c
<1>7. /\ Uses(slots, slots', NextToken, c)
      /\ issued' = issued \cup {NextToken} /\ NextToken \in Nat \X Nat
  BY <1>3, <1>5, AllocateEffect
<1>8. Cardinality(pending) + 1 <= MaxContinuations
  BY <1>2, <1>7, RoomForOne
<1>9. n + 1 <= EventLimit
  <2>1. n + 1 \in Nat
    OBVIOUS
  <2> QED
    BY <1>3, <1>6, <2>1, FitsFacts
<1>10. Open(reactions, 0) /\ Waiting(reactions, pending, {0})
  <2>1. 0 \notin DOMAIN reactions /\ \A t \in DOMAIN reactions : reactions[t].complete \in BOOLEAN
    BY OpenFacts
  <2>2. Waiting(reactions, pending, {})
    BY DEF Agreed
  <2> QED
    BY <2>1, <2>2 DEF Open, Waiting
<1>11. /\ events' = <<>> /\ Waiting(reactions', pending', {})
       /\ \E e : EntryFor(e, NextToken, c) /\ pending' = pending \cup {e}
  <2>1. FALSE \in BOOLEAN /\ NextToken # None
    BY <1>7, TokenAssumption
  <2> QED
    BY <1>3, <1>4, <1>6, <1>8, <1>9, <1>10, <2>1, PublishOne
<1>12. PICK e : EntryFor(e, NextToken, c) /\ pending' = pending \cup {e}
  BY <1>11
<1>13. Matched(pending \cup {e}, slots', issued')
  BY <1>5, <1>7, <1>12, MatchedWith DEF Agreed
<1> QED
  BY <1>2, <1>11, <1>12, <1>13 DEF Agreed

\* A command or a drained chunk that is rejected, the clock, and a drain that fails.
LEMMA IdleAgrees ==
  ASSUME Agreed,
         ReactCommandRejected \/ StageRejected \/ DrainFails \/ Tick \/ UNCHANGED vars
  PROVE  Agreed'
<1>1. UNCHANGED queueVars
  BY DEF ReactCommandRejected, StageRejected, DrainFails, Tick, vars
<1>2. TableInv
  BY DEF Agreed, ContinuationsInv
<1>3. CASE UNCHANGED coreVars
  <2>1. [Next]_coreVars /\ UNCHANGED <<slots, issued>>
    BY <1>3 DEF coreVars
  <2> QED
    BY <1>1, <1>2, <2>1, IdleEffect, AgreedKept
<1>4. ASSUME NEW m \in MixtureHandle, ReactOverflows(m)
      PROVE  Agreed'
  <2>1. [Next]_coreVars /\ AllocationOverflow
    BY <1>4 DEF Next, Reactions, ReactOverflows
  <2> QED
    BY <1>1, <1>2, <2>1, IdleEffect, AgreedKept
<1>5. CASE StageEnd \/ StageConflict \/ StageOverflows
  <2>1. [Next]_coreVars
    BY <1>5 DEF Next, Reactions
  <2>2. StageConflict \/ AllocationOverflow \/ UNCHANGED <<slots, issued>>
    BY <1>5 DEF StageEnd, StageOverflows
  <2> QED
    BY <1>1, <1>2, <2>1, <2>2, IdleEffect, AgreedKept
<1>6. UNCHANGED coreVars \/ (\E m \in MixtureHandle : ReactOverflows(m))
      \/ StageEnd \/ StageConflict \/ StageOverflows
  BY DEF ReactCommandRejected, StageRejected, DrainFails, Tick, vars
<1> QED
  BY <1>3, <1>4, <1>5, <1>6

\* The pending entry of a continuation holds a live token.
LEMMA PendingLive ==
  ASSUME Agreed, NEW p \in pending
  PROVE  /\ TokenLive(p.token) /\ p.token \in issued /\ p.token \in Nat \X Nat
         /\ EntryOf(p, slots, issued)
<1>1. EntryOf(p, slots, issued)
  BY DEF Agreed, Matched
<1>2. issued \in SUBSET (Nat \X (1..MaxGeneration))
  BY DEF Agreed, ContinuationsInv, TableInv, TableType
<1>3. p.token \in Nat \X Nat
  BY <1>1, <1>2, BoundsAssumption DEF EntryOf
<1> QED
  BY <1>1, <1>3 DEF EntryOf, LiveIn, TokenLive

\* What is left of the transactions when one entry goes: its own is spared.
LEMMA RestWaiting ==
  ASSUME QueueInv, Agreed, NEW p \in pending, NEW ids
  PROVE  Waiting(RetainedAll(reactions, ids), pending \ {p}, {p.tx})
<1> DEFINE T == RetainedAll(reactions, ids)
<1>1. DOMAIN T = DOMAIN reactions
      /\ \A t \in DOMAIN reactions : T[t].complete = reactions[t].complete
  BY OpenFacts
<1> HIDE DEF T
<1>2. ASSUME NEW t \in DOMAIN T \ {p.tx}, ~T[t].complete
      PROVE  \E q \in pending \ {p} : q.tx = t
  <2>1. t \in DOMAIN reactions /\ ~reactions[t].complete
    BY <1>1, <1>2
  <2>2. PICK q \in pending : q.tx = t
    BY <2>1 DEF Agreed, Waiting
  <2> QED
    BY <2>2
<1> QED
  BY <1>2 DEF Waiting, T

\* Expired or cancelled: the core forgets what the service forgets.
LEMMA DroppedAgrees ==
  ASSUME QueueInv, Agreed, NEW p \in pending, UseExpired(p) \/ CancelCommand(p)
  PROVE  Agreed'
<1> DEFINE rest == pending \ {p}
           kept == RetainedAll(reactions, Ids(rest))
<1>1. TokenLive(p.token) /\ p.token \in issued
  BY PendingLive
<1>2. /\ Cancel(p.token) /\ pending' = rest /\ events' = events
      /\ reactions' = WithoutTransactions(kept, {p.tx})
  BY <1>1 DEF UseExpired, CancelCommand
<1>3. ContinuationsInv' /\ CapacityHeld'
  <2>1. [Next]_coreVars
    BY <1>1, <1>2 DEF Next, Reactions
  <2> QED
    BY <2>1, CoreStep
<1>4. Empties(slots, slots', {p.token[1]}) /\ issued \subseteq issued'
  <2>1. TableInv /\ CompleteContinuation(p.token)
    BY <1>2 DEF Agreed, ContinuationsInv, Cancel
  <2> QED
    BY <2>1, CompleteEffect
<1>5. Matched(rest, slots', issued')
  <2>1. Matched(pending, slots, issued)
    BY DEF Agreed
  <2>2. \A q \in pending : q \in rest <=> q.token[1] \notin {p.token[1]}
    BY <2>1 DEF Matched
  <2>3. rest \in SUBSET pending
    OBVIOUS
  <2> HIDE DEF rest
  <2> QED
    BY <1>4, <2>1, <2>2, <2>3, MatchedWithout
<1>6. Waiting(kept, rest, {p.tx})
  BY RestWaiting
<1> HIDE DEF rest, kept
<1>7. Waiting(reactions', pending', {})
  BY <1>2, <1>6 DEF Waiting, WithoutTransactions
<1> QED
  BY <1>2, <1>3, <1>5, <1>7 DEF Agreed

\* A resumed reaction that suspends again, or one that ends.
LEMMA ResumeAgrees ==
  ASSUME QueueInv, Agreed, NEW p \in pending, NEW n \in Nat, NEW dm \in BOOLEAN,
         ResumeCommand(p, n, dm)
  PROVE  Agreed'
<1> DEFINE rest == pending \ {p}
           queue == Retained(general, Ids(rest))
           T == RetainedAll(reactions, Ids(rest))
           depth == Depth(queue, T)
           c == slots[p.token[1]].held
           next == <<p.token[1], p.token[2] + 1>>
           tx == p.tx
<1>1. /\ tx # 0 => tx \in DOMAIN reactions
      /\ dm => Fits(n + 1) /\ ResumeAgain(p.token)
               /\ PublishesOne(tx, n, c, next, rest, queue, T, depth, FALSE)
      /\ ~dm => Fits(n) /\ ResumeToEnd(p.token)
                /\ Publish(tx, Plain(n) \o <<>>, EventLimit, rest, queue, T, depth, TRUE)
  <2>1. CASE dm
    <3>1. (IF dm THEN RunDmReaction(c, next) ELSE <<>>) = RunDmReaction(c, next)
          /\ (IF dm THEN 1 ELSE 0) = 1 /\ (~dm) = FALSE
      BY <2>1
    <3> QED
      BY <2>1, <3>1 DEF ResumeCommand, PublishesOne
  <2>2. CASE ~dm
    <3>1. (IF dm THEN RunDmReaction(c, next) ELSE <<>>) = <<>>
          /\ (IF dm THEN 1 ELSE 0) = 0 /\ (~dm) = TRUE /\ n + 0 = n
      BY <2>2
    <3> QED
      BY <2>2, <3>1 DEF ResumeCommand
  <2> QED
    BY <2>1, <2>2
<1>2. Waiting(T, rest, {tx}) /\ Open(T, tx)
  <2>1. Waiting(T, rest, {tx})
    BY RestWaiting
  <2>2. /\ 0 \notin DOMAIN reactions /\ DOMAIN T = DOMAIN reactions
        /\ \A t \in DOMAIN reactions :
             T[t].complete = reactions[t].complete /\ reactions[t].complete \in BOOLEAN
    BY OpenFacts
  <2> HIDE DEF T
  <2>3. Open(T, tx)
    BY <1>1, <2>2 DEF Open
  <2> QED
    BY <2>1, <2>3
<1>3. /\ TokenLive(p.token) /\ p.token \in issued /\ p.token \in Nat \X Nat
      /\ Matched(pending, slots, issued) /\ TableInv
  BY PendingLive DEF Agreed, ContinuationsInv
<1>4. EventLimit \in Nat /\ events = <<>>
  BY LimitIsNat DEF Agreed
<1>5. /\ Cardinality(rest) \in Nat /\ Cardinality(rest) + 1 <= MaxContinuations
      /\ Cardinality(rest) <= MaxContinuations /\ MaxContinuations \in Nat
  <2>1. /\ IsFiniteSet(pending) /\ Cardinality(pending) \in Nat
        /\ Cardinality(pending) <= MaxContinuations /\ MaxContinuations \in Nat
    BY RoomNow
  <2>2. IsFiniteSet(rest) /\ Cardinality(rest) = Cardinality(pending) - 1
    BY <2>1, FS_RemoveElement
  <2>3. Cardinality(rest) \in Nat
    BY <2>2, FS_CardinalityType
  <2> HIDE DEF rest
  <2> QED
    BY <2>1, <2>2, <2>3
<1>6. c # None
  BY <1>3 DEF TokenLive
<1>7. CASE dm
  <2>1. /\ Fits(n + 1) /\ ResumeAgain(p.token) /\ FALSE \in BOOLEAN
        /\ PublishesOne(tx, n, c, next, rest, queue, T, depth, FALSE)
    BY <1>1, <1>7
  <2>2. ContinuationsInv' /\ CapacityHeld'
    <3>1. [Next]_coreVars
      BY <1>3, <2>1 DEF Next, Reactions
    <3> QED
      BY <3>1, CoreStep
  <2>3. Moves(slots, slots', p.token) /\ issued' = issued \cup {next}
    <3>1. RotateContinuation(p.token)
      BY <2>1 DEF ResumeAgain
    <3> QED
      BY <1>3, <3>1, RotateEffect
  <2>4. next # None
    <3>1. next \in Nat \X Nat
      BY <1>3
    <3> QED
      BY <3>1, TokenAssumption
  <2>5. n + 1 <= EventLimit
    <3>1. n + 1 \in Nat
      OBVIOUS
    <3> QED
      BY <1>4, <2>1, <3>1, FitsFacts
  <2>6. /\ events' = <<>> /\ Waiting(reactions', pending', {})
        /\ \E e : EntryFor(e, next, c) /\ pending' = rest \cup {e}
    <3> HIDE DEF rest, queue, T, depth, c, next, tx
    <3> QED
      BY <1>2, <1>4, <1>5, <2>1, <2>4, <2>5, PublishOne
  <2>7. PICK e : EntryFor(e, next, c) /\ pending' = rest \cup {e}
    BY <2>6
  <2>8. Matched(rest \cup {e}, slots', issued')
    <3>1. issued \subseteq issued' /\ next \in issued' /\ next = <<p.token[1], p.token[2] + 1>>
          /\ EntryFor(e, next, slots[p.token[1]].held)
      BY <2>3, <2>7
    <3> HIDE DEF next
    <3> QED
      BY <1>3, <2>3, <3>1, MatchedMoved
  <2> HIDE DEF rest
  <2> QED
    BY <2>2, <2>6, <2>7, <2>8 DEF Agreed
<1>8. CASE ~dm
  <2>1. /\ Fits(n) /\ ResumeToEnd(p.token) /\ TRUE \in BOOLEAN
        /\ Publish(tx, Plain(n) \o <<>>, EventLimit, rest, queue, T, depth, TRUE)
    BY <1>1, <1>8
  <2>2. ContinuationsInv' /\ CapacityHeld'
    <3>1. [Next]_coreVars
      BY <1>3, <2>1 DEF Next, Reactions
    <3> QED
      BY <3>1, CoreStep
  <2>3. Empties(slots, slots', {p.token[1]}) /\ issued \subseteq issued'
    <3>1. CompleteContinuation(p.token)
      BY <2>1 DEF ResumeToEnd
    <3> QED
      BY <1>3, <3>1, CompleteEffect
  <2>4. PublishesPlain(tx, n, rest, queue, T, depth, TRUE)
    <3>1. IsSeq(Plain(n))
      BY NewEvents
    <3>2. Plain(n) \o <<>> = Plain(n)
      BY <3>1, ConcatEmptySeq DEF IsSeq
    <3> QED
      BY <2>1, <3>2 DEF PublishesPlain
  <2>5. n <= EventLimit
    BY <1>4, <2>1, FitsFacts
  <2>6. events' = <<>> /\ pending' = rest /\ Waiting(reactions', pending', {})
    <3> HIDE DEF rest, queue, T, depth, c, next, tx
    <3> QED
      BY <1>2, <1>4, <1>5, <2>1, <2>4, <2>5, PublishPlain
  <2>7. Matched(rest, slots', issued')
    <3>1. \A q \in pending : q \in rest <=> q.token[1] \notin {p.token[1]}
      BY <1>3 DEF Matched
    <3>2. rest \in SUBSET pending
      OBVIOUS
    <3> HIDE DEF rest
    <3> QED
      BY <1>3, <2>3, <3>1, <3>2, MatchedWithout
  <2> HIDE DEF rest
  <2> QED
    BY <2>2, <2>6, <2>7 DEF Agreed
<1> QED
  BY <1>7, <1>8

(***************************************************************************)
(* Expiry and drains                                                       *)
(***************************************************************************)
ExpiredSlots == {p.token[1] : p \in Expired}

\* Each expired continuation frees its own slot, in the order of the ids.
LEMMA ExpireFrees ==
  ASSUME QueueInv, Agreed, ExpireInCore
  PROVE  \E list : Enumerates(list, ExpiredSlots) /\ Freed(ExpiredSlots, list)
<1>1. Expired \in SUBSET pending /\ IsFiniteSet(Expired)
  <2>1. Expired \in SUBSET pending
    BY DEF Expired
  <2> QED
    BY <2>1, RoomNow, FS_Subset
<1>2. \A p, q \in Expired : p.token[1] = q.token[1] => p = q
  BY <1>1 DEF Agreed, Matched
<1>3. \A p \in Expired : p.id \in Nat /\ \A q \in Expired : p.id = q.id => p = q
  <2>1. Identified(pending, nextContinuation) /\ nextContinuation \in Nat
    BY DEF QueueInv, Books, Numbered
  <2> QED
    BY <1>1, <2>1 DEF Identified
<1>4. Cardinality(ExpiredSlots) = Cardinality(Expired)
  <2> DEFINE f == [p \in Expired |-> p.token[1]]
  <2>1. f \in [Expired -> ExpiredSlots]
    BY DEF ExpiredSlots
  <2>2. f \in Bijection(Expired, ExpiredSlots)
    <3>1. f \in Injection(Expired, ExpiredSlots)
      BY <1>2, <2>1 DEF Injection, IsInjective
    <3>2. \A s \in ExpiredSlots : \E p \in Expired : f[p] = s
      BY DEF ExpiredSlots
    <3>3. f \in Surjection(Expired, ExpiredSlots)
      BY <2>1, <3>2 DEF Surjection
    <3> QED
      BY <3>1, <3>3 DEF Bijection
  <2>3. ExistsBijection(Expired, ExpiredSlots)
    BY <2>2 DEF ExistsBijection
  <2> QED
    BY <1>1, <2>3, FS_Bijection
<1>5. PICK list \in [1..Cardinality(Expired) -> Expired] :
        /\ \A i, j \in DOMAIN list : i < j => list[i].id < list[j].id
        /\ free' = free \o [i \in DOMAIN list |-> list[i].token[1]]
  BY DEF ExpireInCore
<1> DEFINE n == Cardinality(Expired)
           at == [i \in DOMAIN list |-> list[i].token[1]]
<1>6. n \in Nat /\ DOMAIN list = 1..n /\ \A i \in 1..n : list[i] \in Expired
  BY <1>1, <1>5, FS_CardinalityType
<1>7. \A i, j \in 1..n : list[i].id = list[j].id => i = j
  <2> DEFINE key == [i \in 1..n |-> list[i].id]
  <2>1. /\ \A i \in 1..n : key[i] \in Nat
        /\ \A i, j \in 1..n : i < j => key[i] < key[j]
    BY <1>3, <1>5, <1>6
  <2>2. \A i \in 1..n : key[i] = list[i].id
    OBVIOUS
  <2> HIDE DEF key, n
  <2>3. \A i, j \in 1..n : key[i] = key[j] => i = j
    BY <1>6, <2>1, RisingEnumerates
  <2> QED
    BY <2>2, <2>3
<1> HIDE DEF n
<1>8. Enumerates(at, ExpiredSlots)
  <2>1. /\ DOMAIN at = 1..n /\ \A i \in 1..n : at[i] = list[i].token[1]
        /\ at = [i \in DOMAIN at |-> at[i]]
    BY <1>6
  <2>2. \A i \in 1..n : at[i] \in ExpiredSlots
    BY <1>6, <2>1 DEF ExpiredSlots
  <2> HIDE DEF at
  <2>3. at \in [1..n -> ExpiredSlots]
    BY <2>1, <2>2
  <2>4. \A i, j \in 1..n : at[i] = at[j] => i = j
    BY <1>2, <1>6, <1>7, <2>1
  <2> QED
    BY <1>4, <2>1, <2>3, <2>4 DEF Enumerates, n
<1>9. Freed(ExpiredSlots, at)
  BY <1>5 DEF Freed, ExpireInCore, ExpiredSlots
<1> QED
  BY <1>8, <1>9

\* What has expired goes from the core and from the service.
LEMMA ExpireAgrees ==
  ASSUME QueueInv, Agreed, ExpireInCore
  PROVE  ContinuationsInv' /\ CapacityHeld' /\ Matched(Surviving, slots', issued')
<1>1. PICK list : Enumerates(list, ExpiredSlots) /\ Freed(ExpiredSlots, list)
  BY ExpireFrees
<1>2. Expired \in SUBSET pending /\ \A p \in pending : p.token[1] \in LiveIn(slots)
  BY PendingLive DEF Expired, EntryOf
<1>3. ExpiredSlots \in SUBSET LiveSlots
  BY <1>2 DEF ExpiredSlots, LiveIn, LiveSlots
<1>4. TableInv /\ CapacityHeld /\ ContinuationsInv
  BY DEF Agreed, ContinuationsInv
<1>5. /\ TableInv' /\ OnlyAdds(None) /\ LiveSlots' = LiveSlots \ ExpiredSlots
      /\ Len(free') = Len(free) + Cardinality(ExpiredSlots)
  BY <1>1, <1>3, <1>4, FreedStep
<1>6. CapacityHeld'
  BY <1>3, <1>4, <1>5, FreedCapacity
<1>7. WorldType' /\ ContinuationsCurrent' /\ StageCurrent'
  <2>1. UNCHANGED <<mixtures, turfs>> /\ (stage' = stage \/ stage' = None)
    BY DEF ExpireInCore
  <2>2. None # None => Current(None)
    OBVIOUS
  <2> QED
    BY <1>4, <1>5, <2>1, <2>2, QuietStep
<1>8. Matched(Surviving, slots', issued')
  <2>1. Empties(slots, slots', ExpiredSlots) /\ issued \subseteq issued'
    BY <1>1, <1>4, FreedEffect
  <2>2. Surviving \in SUBSET pending
    BY DEF Surviving
  <2>3. Matched(pending, slots, issued)
    BY DEF Agreed
  <2>4. \A p \in pending : p \in Surviving <=> p.token[1] \notin ExpiredSlots
    BY <1>2, <2>3 DEF Matched, Surviving, ExpiredSlots
  <2> QED
    BY <2>1, <2>2, <2>3, <2>4, MatchedWithout
<1> QED
  BY <1>5, <1>6, <1>7, <1>8 DEF ContinuationsInv

\* Without the orphans every open transaction waits.
LEMMA NoOrphanWaits ==
  ASSUME NEW T, NEW entries
  PROVE  Waiting(WithoutTransactions(T, Orphans(T, entries)), entries, {})
  BY DEF Waiting, WithoutTransactions, Orphans

LEMMA SurvivingWait ==
  ASSUME Agreed
  PROVE  Waiting(SurvivingReactions, Surviving, {})
<1>1. CASE Expired = {}
  BY <1>1 DEF Surviving, SurvivingReactions, Agreed
<1>2. CASE Expired # {}
  <2> DEFINE kept == RetainedAll(reactions, Ids(Surviving))
  <2>1. SurvivingReactions = WithoutTransactions(kept, Orphans(kept, Surviving))
    BY <1>2 DEF SurvivingReactions
  <2> HIDE DEF kept
  <2> QED
    BY <2>1, NoOrphanWaits
<1> QED
  BY <1>1, <1>2

\* A drain takes callbacks; with the last of them it may take a complete transaction.
LEMMA DrainAgrees ==
  ASSUME QueueInv, Agreed, NEW tx, NEW max \in 1..MaxCallbacks,
         DrainGeneral(max) \/ DrainReaction(tx, max)
  PROVE  Agreed'
<1>1. ExpireInCore /\ pending' = Surviving /\ events' = events
  BY DEF DrainGeneral, DrainReaction
<1>2. ContinuationsInv' /\ CapacityHeld' /\ Matched(Surviving, slots', issued')
  BY <1>1, ExpireAgrees
<1>3. Waiting(SurvivingReactions, Surviving, {})
  BY SurvivingWait
<1>4. Waiting(reactions', Surviving, {})
  <2>1. CASE DrainGeneral(max)
    BY <1>3, <2>1 DEF DrainGeneral
  <2>2. CASE DrainReaction(tx, max)
    <3> DEFINE T == SurvivingReactions
               size == Smaller(Len(T[tx].queue), max)
               left == SubSeq(T[tx].queue, size + 1, Len(T[tx].queue))
    <3>1. /\ tx \in DOMAIN T
          /\ reactions' = IF T[tx].complete /\ left = <<>> THEN WithoutTransactions(T, {tx})
                          ELSE [T EXCEPT ![tx].queue = left]
      BY <2>2 DEF DrainReaction
    <3>2. T[tx] \in Transaction
      <4>1. Table(T, nextTransaction)
        BY SurvivingKeeps DEF Keeps, Books
      <4> QED
        BY <3>1, <4>1, TransactionFacts
    <3> HIDE DEF T, left
    <3>3. CASE reactions' = WithoutTransactions(T, {tx})
      BY <1>3, <3>3 DEF Waiting, WithoutTransactions, T
    <3>4. CASE reactions' = [T EXCEPT ![tx].queue = left]
      <4> DEFINE r == [T[tx] EXCEPT !.queue = left]
      <4>1. r.complete = T[tx].complete
        BY <3>2 DEF Transaction
      <4>2. reactions' = [T EXCEPT ![tx] = r]
        BY <3>4
      <4> HIDE DEF r
      <4>3. /\ DOMAIN reactions' = DOMAIN T
            /\ \A t \in DOMAIN T : reactions'[t].complete = T[t].complete
        BY <3>1, <4>1, <4>2
      <4> QED
        BY <1>3, <4>3 DEF Waiting, T
    <3> QED
      BY <3>1, <3>3, <3>4
  <2> QED
    BY <2>1, <2>2
<1> QED
  BY <1>1, <1>2, <1>4 DEF Agreed

(***************************************************************************)
(* Lifecycle requests                                                      *)
(***************************************************************************)
\* The service forgets the entries whose slots the core empties.
LEMMA PruneAgrees ==
  ASSUME QueueInv, Agreed, [Next]_coreVars, NEW gone, Prune(gone),
         NEW R, Empties(slots, slots', R), issued \subseteq issued',
         \A p \in pending : p \in gone <=> p.token[1] \in R
  PROVE  Agreed'
<1> DEFINE rest == pending \ gone
           kept == RetainedAll(reactions, Ids(rest))
<1>1. /\ pending' = rest /\ events' = events
      /\ reactions' = WithoutTransactions(kept, Orphans(kept, rest))
  BY DEF Prune
<1>2. ContinuationsInv' /\ CapacityHeld'
  BY CoreStep
<1>3. Matched(rest, slots', issued')
  <2>1. rest \in SUBSET pending /\ \A p \in pending : p \in rest <=> p.token[1] \notin R
    OBVIOUS
  <2> HIDE DEF rest
  <2> QED
    BY <2>1, MatchedWithout DEF Agreed
<1> HIDE DEF rest, kept
<1>4. Waiting(reactions', pending', {})
  BY <1>1, NoOrphanWaits
<1> QED
  BY <1>1, <1>2, <1>3, <1>4 DEF Agreed

\* A request that registers a slot empties none in use, unless it replaces a live one.
LEMMA ReplacingAgrees ==
  ASSUME QueueInv, Agreed, [Next]_coreVars, Prune({}), NEW R, NEW live,
         Empties(slots, slots', R), issued \subseteq issued',
         ~live => R \cap LiveIn(slots) = {}, ~replaced', Replaces(live)
  PROVE  Agreed'
<1>1. ~(live /\ LiveSlots' # LiveSlots)
  BY DEF Replaces
<1>2. LiveIn(slots') = LiveIn(slots)
  <2>1. CASE live
    BY <1>1, <2>1 DEF LiveIn, LiveSlots
  <2>2. CASE ~live
    BY <2>2 DEF Empties
  <2> QED
    BY <2>1, <2>2
<1>3. Empties(slots, slots', {})
  BY <1>2 DEF Empties
<1>4. \A p \in pending : p \in {} <=> p.token[1] \in {}
  OBVIOUS
<1> DEFINE none == {}
<1>5. Prune(none) /\ Empties(slots, slots', none)
      /\ \A p \in pending : p \in none <=> p.token[1] \in none
  BY <1>3, <1>4
<1> HIDE DEF none
<1> QED
  BY <1>5, PruneAgrees

LEMMA LifecycleAgrees ==
  ASSUME QueueInv, Agreed, ServiceLifecycle, ~replaced'
  PROVE  Agreed'
<1>1. TableInv /\ ContinuationsCurrent
  BY DEF Agreed, ContinuationsInv
<1>2. \A s \in LiveSlots : slots[s].held \in Continuation
  <2> SUFFICES ASSUME NEW s \in LiveSlots PROVE slots[s].held \in Continuation
    OBVIOUS
  <2>1. s \in DOMAIN slots /\ slots[s].held # None
    BY DEF LiveSlots
  <2> QED
    BY <1>1, <2>1, SlotFacts DEF TableInv
<1>3. ASSUME NEW m \in Mixtures, NEW g \in Generations, RegisterMixture(m, g), Prune({}),
             Replaces(mixtures[m].live)
      PROVE  Agreed'
  <2>1. [Next]_coreVars
    BY <1>3 DEF Next, Lifecycle
  <2>2. Empties(slots, slots', OfMixture(m)) /\ issued' = issued
    <3>1. Invalidate(OfMixture(m))
      BY <1>3 DEF RegisterMixture
    <3> QED
      BY <1>1, <3>1, InvalidateEffect
  <2>3. ~mixtures[m].live => OfMixture(m) = {}
    BY <1>1 DEF OfMixture, ContinuationsCurrent, MixtureLive
  <2> QED
    BY <1>3, <2>1, <2>2, <2>3, ReplacingAgrees
<1>4. ASSUME NEW m \in Mixtures, UnregisterMixture(m),
             Prune({p \in pending : p.mixture[1] = m})
      PROVE  Agreed'
  <2> DEFINE gone == {p \in pending : p.mixture[1] = m}
  <2>1. [Next]_coreVars /\ Prune(gone)
    BY <1>4 DEF Next, Lifecycle
  <2>2. Empties(slots, slots', OfMixture(m)) /\ issued' = issued
    <3>1. Invalidate(OfMixture(m))
      BY <1>4 DEF UnregisterMixture
    <3> QED
      BY <1>1, <3>1, InvalidateEffect
  <2>3. \A p \in pending : p \in gone <=> p.token[1] \in OfMixture(m)
    BY PendingLive DEF EntryOf, OfMixture, LiveSlots, LiveIn
  <2> HIDE DEF gone
  <2> QED
    BY <2>1, <2>2, <2>3, PruneAgrees
<1>5. ASSUME NEW t \in Turfs, NEW g \in Generations, NEW m \in MixtureHandle \cup {None},
             RegisterTurf(t, g, m), Prune({}), Replaces(turfs[t].live)
      PROVE  Agreed'
  <2> DEFINE same == turfs[t].live /\ turfs[t].generation = g /\ turfs[t].mixture = m
             R == IF same THEN {} ELSE OfTurf(t)
  <2>1. [Next]_coreVars
    BY <1>5 DEF Next, Lifecycle
  <2>2. Empties(slots, slots', R) /\ issued' = issued
    <3>1. Invalidate(R)
      BY <1>5 DEF RegisterTurf
    <3> QED
      BY <1>1, <3>1, InvalidateEffect
  <2>3. ~turfs[t].live => OfTurf(t) = {}
    BY <1>1 DEF OfTurf, ContinuationsCurrent, TurfCarries
  <2>4. ~turfs[t].live => R \cap LiveIn(slots) = {}
    BY <2>3
  <2> HIDE DEF R
  <2> QED
    BY <1>5, <2>1, <2>2, <2>4, ReplacingAgrees
<1>6. ASSUME NEW t \in Turfs, UnregisterTurf(t),
             Prune({p \in pending : p.turf # None /\ p.turf[1] = t})
      PROVE  Agreed'
  <2> DEFINE gone == {p \in pending : p.turf # None /\ p.turf[1] = t}
  <2>1. [Next]_coreVars /\ Prune(gone)
    BY <1>6 DEF Next, Lifecycle
  <2>2. Empties(slots, slots', OfTurf(t)) /\ issued' = issued
    <3>1. Invalidate(OfTurf(t))
      BY <1>6 DEF UnregisterTurf
    <3> QED
      BY <1>1, <3>1, InvalidateEffect
  <2>3. \A p \in pending : p \in gone <=> p.token[1] \in OfTurf(t)
    BY PendingLive DEF EntryOf, OfTurf, LiveSlots, LiveIn
  <2> HIDE DEF gone
  <2> QED
    BY <2>1, <2>2, <2>3, PruneAgrees
<1> QED
  BY <1>3, <1>4, <1>5, <1>6 DEF ServiceLifecycle

(***************************************************************************)
(* The theorem                                                             *)
(***************************************************************************)
AgreeInv == ~replaced => Agreed

LEMMA AgreeInit ==
  ASSUME ServiceInit
  PROVE  Agreed
<1>1. Init /\ events = <<>> /\ pending = {} /\ reactions = <<>>
  BY DEF ServiceInit
<1>2. ContinuationsInv
  BY <1>1, InvInit
<1>3. LiveSlots = {} /\ LiveIn(slots) = {} /\ Len(free) = 0
  BY <1>1 DEF Init, LiveSlots, LiveIn
<1>4. CapacityHeld
  BY <1>3, FS_EmptySet, BoundsAssumption DEF CapacityHeld
<1>5. Matched(pending, slots, issued)
  BY <1>1, <1>3 DEF Matched
<1>6. Waiting(reactions, pending, {})
  BY <1>1 DEF Waiting
<1> QED
  BY <1>1, <1>2, <1>4, <1>5, <1>6 DEF Agreed

\* What was replaced stays on record.
LEMMA ReplacedStays ==
  ASSUME [ServiceNext]_vars, ~replaced'
  PROVE  ~replaced
<1>1. ASSUME NEW m \in MixtureHandle, NEW n \in 0..MaxNative, NEW dm \in BOOLEAN,
             ReactCommand(m, n, dm)
      PROVE  replaced' = replaced
  BY <1>1 DEF ReactCommand, clientVars
<1>2. CASE ReactCommandRejected \/ StageRejected \/ DrainFails \/ Tick \/ UNCHANGED vars
  BY <1>2 DEF ReactCommandRejected, StageRejected, DrainFails, Tick, vars, clientVars
<1>3. ASSUME NEW t \in Turfs, StageStarts(t)
      PROVE  replaced' = replaced
  BY <1>3 DEF StageStarts, clientVars
<1>4. ASSUME NEW n \in 0..MaxNative, StageSuspends(n) \/ StageFinishes(n)
      PROVE  replaced' = replaced
  BY <1>4 DEF StageSuspends, StageFinishes, clientVars
<1>5. ASSUME NEW p \in pending, UseExpired(p) \/ CancelCommand(p)
      PROVE  replaced' = replaced
  BY <1>5 DEF UseExpired, CancelCommand, clientVars
<1>6. ASSUME NEW p \in pending, NEW n \in 0..MaxNative, NEW dm \in BOOLEAN,
             ResumeCommand(p, n, dm)
      PROVE  replaced' = replaced
  BY <1>6 DEF ResumeCommand, clientVars
<1>7. CASE Draining
  BY <1>7 DEF Draining, DrainGeneral, DrainReaction
<1>8. CASE ServiceLifecycle
  BY <1>8 DEF ServiceLifecycle, Replaces
<1> QED
  BY <1>1, <1>2, <1>3, <1>4, <1>5, <1>6, <1>7, <1>8 DEF ServiceNext

LEMMA AgreeStep ==
  ASSUME QueueInv, AgreeInv, [ServiceNext]_vars
  PROVE  AgreeInv'
<1> SUFFICES ASSUME ~replaced' PROVE Agreed'
  BY DEF AgreeInv
<1>0. Agreed /\ 0..MaxNative \subseteq Nat
  BY ReplacedStays, ServiceAssumption DEF AgreeInv
<1>1. ASSUME NEW m \in MixtureHandle, NEW n \in 0..MaxNative, NEW dm \in BOOLEAN,
             ReactCommand(m, n, dm)
      PROVE  Agreed'
  BY <1>0, <1>1, ReactAgrees
<1>2. CASE ReactCommandRejected \/ StageRejected \/ DrainFails \/ Tick \/ UNCHANGED vars
  BY <1>0, <1>2, IdleAgrees
<1>3. ASSUME NEW t \in Turfs, StageStarts(t)
      PROVE  Agreed'
  <2>1. 0 \in Nat
    OBVIOUS
  <2> QED
    BY <1>0, <1>3, <2>1, StageAgrees
<1>4. ASSUME NEW n \in 0..MaxNative, StageSuspends(n)
      PROVE  Agreed'
  BY <1>0, <1>4, SuspendAgrees
<1>5. ASSUME NEW n \in 0..MaxNative, StageFinishes(n)
      PROVE  Agreed'
  BY <1>0, <1>5, StageAgrees
<1>6. ASSUME NEW p \in pending, UseExpired(p) \/ CancelCommand(p)
      PROVE  Agreed'
  BY <1>0, <1>6, DroppedAgrees
<1>7. ASSUME NEW p \in pending, NEW n \in 0..MaxNative, NEW dm \in BOOLEAN,
             ResumeCommand(p, n, dm)
      PROVE  Agreed'
  BY <1>0, <1>7, ResumeAgrees
<1>8. CASE Draining
  <2>1. ASSUME NEW max \in 1..MaxCallbacks, DrainGeneral(max)
        PROVE  Agreed'
    BY <1>0, <2>1, DrainAgrees
  <2>2. ASSUME NEW tx, NEW max \in 1..MaxCallbacks, DrainReaction(tx, max)
        PROVE  Agreed'
    BY <1>0, <2>2, DrainAgrees
  <2> QED
    BY <1>8, <2>1, <2>2 DEF Draining
<1>9. CASE ServiceLifecycle
  BY <1>0, <1>9, LifecycleAgrees
<1> QED
  BY <1>1, <1>2, <1>3, <1>4, <1>5, <1>6, <1>7, <1>8, <1>9 DEF ServiceNext

\* Until a live slot is registered again under a suspended reaction, the pending entries
\* are the suspended reactions of the core, no event is left behind in the core, and
\* every open transaction waits for a continuation: whatever expires, is resumed,
\* cancelled, unregistered or drained, in whatever order.
THEOREM AgreementTheorem == ServiceSpec => []ServiceAgrees
<1>1. ServiceInit => AgreeInv
  BY AgreeInit DEF AgreeInv
<1>2. QueueInv /\ AgreeInv /\ [ServiceNext]_vars => AgreeInv'
  BY AgreeStep
<1>3. AgreeInv => ServiceAgrees
  <2> SUFFICES ASSUME Agreed
               PROVE  NothingStranded /\ ContinuationsAgree /\ IncompleteHasContinuation
    BY DEF AgreeInv, ServiceAgrees
  <2>1. NothingStranded
    BY DEF Agreed, NothingStranded
  <2>2. IncompleteHasContinuation
    BY DEF Agreed, Waiting, IncompleteHasContinuation
  <2>3. \A p \in pending : TokenLive(p.token)
    BY PendingLive
  <2>4. ASSUME NEW s \in LiveSlots
        PROVE  \E p \in pending : p.token = <<s, slots[s].generation>>
    <3>1. PICK p \in pending : p.token[1] = s
      BY DEF Agreed, Matched, LiveSlots, LiveIn
    <3>2. p.token \in Nat \X Nat /\ slots[s].generation = p.token[2]
      BY <3>1, PendingLive DEF EntryOf
    <3> QED
      BY <3>1, <3>2
  <2> QED
    BY <2>1, <2>2, <2>3, <2>4 DEF ContinuationsAgree
<1> QED
  BY <1>1, <1>2, <1>3, QueueInvariant, PTL DEF ServiceSpec
=============================================================================
