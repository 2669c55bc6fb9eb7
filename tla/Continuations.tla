---------------------------- MODULE Continuations ----------------------------
(***************************************************************************)
(* Reaction continuations of dogmos-core (world.rs).  A reaction sequence  *)
(* that reaches a DM reaction is suspended in a generation-checked slot;   *)
(* the slot's token is resumed, rotated to the next DM reaction, cancelled *)
(* or invalidated when its mixture or its turf goes away.  Mixture and     *)
(* turf lifecycle and the two-step React stage are modelled as far as they *)
(* touch continuations.                                                    *)
(*                                                                         *)
(* Slots are numbered from 1, a handle is <<slot, generation>>, generation *)
(* 0 means never registered.  A rejected request changes nothing, so it is *)
(* the absence of a step, except where a rejection does change state.      *)
(***************************************************************************)
EXTENDS Integers, Sequences, FiniteSets

CONSTANTS
  Mixtures,           \* mixture slot numbers
  Turfs,              \* turf slot numbers
  Generations,        \* handle generations a client uses
  MaxContinuations,   \* max_continuations of the world
  MaxGeneration,      \* bound: largest continuation generation (u32::MAX in the code)
  MaxSlots,           \* bound: longest slot table (2^32 in the code)
  None                \* Option::None

ASSUME BoundsAssumption == /\ MaxContinuations \in Nat
                           /\ MaxGeneration \in Nat \ {0}
                           /\ MaxSlots \in Nat
                           /\ Generations \subseteq Nat \ {0}

VARIABLES
  mixtures,   \* mixture slot -> its generation and whether it is registered
  turfs,      \* turf slot -> generation, registered, mixture handle or None
  slots,      \* continuations: generation and suspended reaction or None
  free,       \* free_continuations, a stack of slot numbers
  stage,      \* None, or the React stage's captured target
  issued      \* history: every token ever handed out

coreVars == <<mixtures, turfs, slots, free, stage, issued>>

MixtureHandle == Mixtures \X Generations
TurfHandle == Turfs \X Generations

\* ReactionContinuation: the turf is None for a reaction on a bare mixture.
Continuation == [turf : TurfHandle \cup {None}, mixture : MixtureHandle]

ASSUME NoneAssumption == None \notin MixtureHandle \cup TurfHandle \cup Continuation

MixtureLive(h) == mixtures[h[1]].live /\ mixtures[h[1]].generation = h[2]

\* The turf handle is live and still carries the mixture.
TurfCarries(t, m) == /\ turfs[t[1]].live
                     /\ turfs[t[1]].generation = t[2]
                     /\ turfs[t[1]].mixture = m

(***************************************************************************)
(* The slot table                                                          *)
(***************************************************************************)

LiveSlots == {s \in DOMAIN slots : slots[s].held # None}

Last(list) == list[Len(list)]

Popped(list) == SubSeq(list, 1, Len(list) - 1)

\* require_continuation
TokenLive(token) == /\ token[1] \in DOMAIN slots
                    /\ slots[token[1]].generation = token[2]
                    /\ slots[token[1]].held # None

\* The token allocate_continuation would return: the last freed slot with the next
\* generation, or a fresh slot.
NextToken == IF free # <<>> THEN <<Last(free), slots[Last(free)].generation + 1>>
             ELSE <<Len(slots) + 1, 1>>

\* A fresh slot is pushed only below the capacity; a freed slot is reused as long
\* as its generation can be incremented.
CanAllocate == IF free # <<>> THEN slots[Last(free)].generation < MaxGeneration
               ELSE Cardinality(LiveSlots) < MaxContinuations /\ Len(slots) < MaxSlots

\* Mutant: a reused slot keeps its generation.
AllocateContinuationSameGeneration(c) ==
  /\ CanAllocate
  /\ IF free # <<>>
     THEN /\ slots' = [slots EXCEPT ![Last(free)].held = c]
          /\ issued' = issued \cup {<<Last(free), slots[Last(free)].generation>>}
          /\ free' = Popped(free)
     ELSE /\ slots' = Append(slots, [generation |-> 1, held |-> c])
          /\ issued' = issued \cup {NextToken}
          /\ UNCHANGED free

\* allocate_continuation
AllocateContinuation(c) ==
  /\ CanAllocate
  /\ issued' = issued \cup {NextToken}
  /\ IF free # <<>>
     THEN /\ slots' = [slots EXCEPT ![Last(free)] = [generation |-> @.generation + 1, held |-> c]]
          /\ free' = Popped(free)
     ELSE /\ slots' = Append(slots, [generation |-> 1, held |-> c])
          /\ UNCHANGED free

\* The generation overflows after the pop: an error, and the slot is lost.
AllocationOverflow ==
  /\ free # <<>>
  /\ slots[Last(free)].generation = MaxGeneration
  /\ free' = Popped(free)
  /\ UNCHANGED <<slots, issued>>

\* Mutant: complete_continuation does not ask whether the token is still live.
CompleteContinuationUnchecked(token) ==
  /\ token[1] \in DOMAIN slots
  /\ slots' = [slots EXCEPT ![token[1]].held = None]
  /\ free' = Append(free, token[1])
  /\ UNCHANGED issued

\* complete_continuation
CompleteContinuation(token) ==
  /\ TokenLive(token)
  /\ slots' = [slots EXCEPT ![token[1]].held = None]
  /\ free' = Append(free, token[1])
  /\ UNCHANGED issued

\* Mutant: the generation is incremented without the overflow check.
RotateContinuationUnchecked(token) ==
  /\ TokenLive(token)
  /\ slots' = [slots EXCEPT ![token[1]].generation = @ + 1]
  /\ issued' = issued \cup {<<token[1], token[2] + 1>>}
  /\ UNCHANGED free

\* rotate_continuation keeps the slot and moves to the next generation.
RotateContinuation(token) ==
  /\ TokenLive(token)
  /\ token[2] < MaxGeneration
  /\ slots' = [slots EXCEPT ![token[1]].generation = @ + 1]
  /\ issued' = issued \cup {<<token[1], token[2] + 1>>}
  /\ UNCHANGED free

\* The slots of a set in ascending order: the order a scan of the table frees them.
Ascending(set) ==
  {list \in [1..Cardinality(set) -> set] :
     /\ \A i, j \in DOMAIN list : i < j => list[i] < list[j]
     /\ {list[i] : i \in DOMAIN list} = set}

\* invalidate_continuations_for_*_slot: every matching slot is emptied and freed.
Invalidate(matching) ==
  /\ slots' = [s \in DOMAIN slots |->
                 IF s \in matching THEN [slots[s] EXCEPT !.held = None] ELSE slots[s]]
  /\ \E list \in Ascending(matching) : free' = free \o list
  /\ UNCHANGED issued

OfMixture(m) == {s \in LiveSlots : slots[s].held.mixture[1] = m}

OfTurf(t) == {s \in LiveSlots : slots[s].held.turf # None /\ slots[s].held.turf[1] = t}

(***************************************************************************)
(* Lifecycle                                                               *)
(***************************************************************************)

\* apply_lifecycle, Register.  A registered mixture may be replaced by a newer
\* generation, but not under an active stage; the same generation again is a no-op.
RegisterMixture(m, g) ==
  /\ g > mixtures[m].generation
  /\ mixtures[m].live => stage = None
  /\ mixtures' = [mixtures EXCEPT ![m] = [generation |-> g, live |-> TRUE]]
  /\ Invalidate(OfMixture(m))
  /\ UNCHANGED <<turfs, stage>>

\* apply_lifecycle, Unregister: turfs that carry the mixture lose it.
UnregisterMixture(m) ==
  LET handle == <<m, mixtures[m].generation>> IN
  /\ mixtures[m].live
  /\ stage = None
  /\ mixtures' = [mixtures EXCEPT ![m].live = FALSE]
  /\ turfs' = [t \in Turfs |-> IF turfs[t].mixture = handle
                               THEN [turfs[t] EXCEPT !.mixture = None] ELSE turfs[t]]
  /\ Invalidate(OfMixture(m))
  /\ UNCHANGED stage

\* Mutant: only a new generation counts as a change, another mixture does not.
RegisterTurfKeepsContinuations(t, g, mixture) ==
  /\ stage = None
  /\ mixture # None => MixtureLive(mixture)
  /\ g >= turfs[t].generation
  /\ ~turfs[t].live => g # turfs[t].generation
  /\ turfs' = [turfs EXCEPT ![t] = [generation |-> g, live |-> TRUE, mixture |-> mixture]]
  /\ Invalidate(IF turfs[t].generation = g THEN {} ELSE OfTurf(t))
  /\ UNCHANGED <<mixtures, stage>>

\* apply_turf_lifecycle, Register: a newer generation, or the same turf again with
\* another mixture.  Only a change invalidates the turf's continuations.
RegisterTurf(t, g, mixture) ==
  LET same == turfs[t].live /\ turfs[t].generation = g /\ turfs[t].mixture = mixture IN
  /\ stage = None
  /\ mixture # None => MixtureLive(mixture)
  /\ g >= turfs[t].generation
  /\ ~turfs[t].live => g # turfs[t].generation
  /\ turfs' = [turfs EXCEPT ![t] = [generation |-> g, live |-> TRUE, mixture |-> mixture]]
  /\ Invalidate(IF same THEN {} ELSE OfTurf(t))
  /\ UNCHANGED <<mixtures, stage>>

UnregisterTurf(t) ==
  /\ stage = None
  /\ turfs[t].live
  /\ turfs' = [turfs EXCEPT ![t].live = FALSE, ![t].mixture = None]
  /\ Invalidate(OfTurf(t))
  /\ UNCHANGED <<mixtures, stage>>

(***************************************************************************)
(* Reactions                                                               *)
(***************************************************************************)

\* react_mixture_with_event_limit on a live mixture, up to a DM reaction.
React(m) ==
  /\ MixtureLive(m)
  /\ AllocateContinuation([turf |-> None, mixture |-> m])
  /\ UNCHANGED <<mixtures, turfs, stage>>

ReactOverflows(m) ==
  /\ MixtureLive(m)
  /\ AllocationOverflow
  /\ UNCHANGED <<mixtures, turfs, stage>>

\* The React stage captures its targets: live turfs whose mixture had no suspended
\* reaction when the stage began.  Evaluation stops at the first DM reaction, so at
\* most one target is suspended.
StageBegin(t) ==
  LET turf == <<t, turfs[t].generation>> IN
  /\ stage = None
  /\ turfs[t].live
  /\ turfs[t].mixture # None
  /\ MixtureLive(turfs[t].mixture)
  /\ \A s \in LiveSlots : slots[s].held.mixture # turfs[t].mixture
  /\ stage' = [turf |-> turf, mixture |-> turfs[t].mixture]
  /\ UNCHANGED <<mixtures, turfs, slots, free, issued>>

\* commit_stage_reactions suspends the captured target.
StageCommit ==
  /\ stage # None
  /\ AllocateContinuation(stage)
  /\ stage' = None
  /\ UNCHANGED <<mixtures, turfs>>

\* A stage that reached no DM reaction, was rejected, or whose publication lost to a
\* concurrent write (the new continuation is completed again).
StageEnd ==
  /\ stage # None
  /\ stage' = None
  /\ UNCHANGED <<mixtures, turfs, slots, free, issued>>

StageConflict ==
  /\ stage # None
  /\ CanAllocate
  /\ stage' = None
  /\ issued' = issued \cup {NextToken}
  /\ IF free # <<>>
     THEN /\ slots' = [slots EXCEPT ![Last(free)].generation = @ + 1]
          /\ UNCHANGED free
     ELSE /\ slots' = Append(slots, [generation |-> 1, held |-> None])
          /\ free' = Append(free, Len(slots) + 1)
  /\ UNCHANGED <<mixtures, turfs>>

\* The commit's allocation overflows: the stage is aborted and the slot lost.
StageOverflows ==
  /\ stage # None
  /\ AllocationOverflow
  /\ stage' = None
  /\ UNCHANGED <<mixtures, turfs>>

\* resume_reaction_inner: the mixture must be live and the turf, if any, still carry it.
Resumable(token) ==
  LET c == slots[token[1]].held IN
  /\ TokenLive(token)
  /\ MixtureLive(c.mixture)
  /\ c.turf # None => TurfCarries(c.turf, c.mixture)

\* A resumed sequence reaches another DM reaction, or stops or ends.
ResumeAgain(token) ==
  /\ Resumable(token)
  /\ RotateContinuation(token)
  /\ UNCHANGED <<mixtures, turfs, stage>>

ResumeToEnd(token) ==
  /\ Resumable(token)
  /\ CompleteContinuation(token)
  /\ UNCHANGED <<mixtures, turfs, stage>>

\* cancel_reaction asks nothing of the mixture or the turf.
Cancel(token) ==
  /\ CompleteContinuation(token)
  /\ UNCHANGED <<mixtures, turfs, stage>>

(***************************************************************************)
(* The specification                                                       *)
(***************************************************************************)

Init ==
  /\ mixtures = [m \in Mixtures |-> [generation |-> 0, live |-> FALSE]]
  /\ turfs = [t \in Turfs |-> [generation |-> 0, live |-> FALSE, mixture |-> None]]
  /\ slots = <<>>
  /\ free = <<>>
  /\ stage = None
  /\ issued = {}

Lifecycle ==
  \/ \E m \in Mixtures, g \in Generations : RegisterMixture(m, g)
  \/ \E m \in Mixtures : UnregisterMixture(m)
  \/ \E t \in Turfs, g \in Generations, m \in MixtureHandle \cup {None} : RegisterTurf(t, g, m)
  \/ \E t \in Turfs : UnregisterTurf(t)

Reactions ==
  \/ \E m \in MixtureHandle : React(m) \/ ReactOverflows(m)
  \/ \E t \in Turfs : StageBegin(t)
  \/ StageCommit
  \/ StageEnd
  \/ StageConflict
  \/ StageOverflows
  \/ \E token \in issued : ResumeAgain(token) \/ ResumeToEnd(token) \/ Cancel(token)

Next == Lifecycle \/ Reactions

Spec == Init /\ [][Next]_coreVars

(***************************************************************************)
(* Properties                                                              *)
(***************************************************************************)

\* Every variable has its type; a continuation generation never passes the largest
\* one, although reuse and rotation both increment it.
TypeOK ==
  /\ mixtures \in [Mixtures -> [generation : Nat, live : BOOLEAN]]
  /\ turfs \in [Turfs -> [generation : Nat, live : BOOLEAN,
                          mixture : MixtureHandle \cup {None}]]
  /\ \A t \in Turfs : turfs[t].live => turfs[t].generation \in Generations
  /\ slots \in Seq([generation : 1..MaxGeneration, held : Continuation \cup {None}])
  /\ free \in Seq(Nat)
  /\ stage \in Continuation \cup {None}
  /\ issued \in SUBSET (Nat \X (1..MaxGeneration))

\* The free stack names empty slots of the table, each at most once: no slot is ever
\* handed to two suspended reactions, whatever mix of completions, rotations and
\* invalidations freed it.
FreeListSound ==
  /\ \A i \in DOMAIN free : free[i] \in DOMAIN slots /\ slots[free[i]].held = None
  /\ \A i, j \in DOMAIN free : free[i] = free[j] => i = j

\* Suspended reactions and reusable slots together never exceed max_continuations,
\* although a reused slot is not counted and an overflowing one is lost.
CapacityHeld == Cardinality(LiveSlots) + Len(free) <= MaxContinuations

\* The slot table: a free stack of distinct empty slots, within the capacity.
TableSound == FreeListSound /\ CapacityHeld

\* A suspended reaction always refers to the current mixture and, if it has a turf,
\* to a turf that still carries that mixture: everything that could make it stale
\* invalidates it.  (resume_reaction_inner checks it again and can only pass.)
ContinuationsCurrent ==
  \A s \in LiveSlots :
    LET c == slots[s].held IN
    /\ MixtureLive(c.mixture)
    /\ c.turf # None => TurfCarries(c.turf, c.mixture)

\* A token that stopped being live never becomes live again: a stale token kept by
\* the client cannot resume another reaction (single use).
TokensSingleUse ==
  [][\A token \in issued : ~TokenLive(token) => ~TokenLive(token)']_coreVars
=============================================================================
