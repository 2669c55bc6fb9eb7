-------------------------- MODULE StagePublication --------------------------
(***************************************************************************)
(* The resumable gas stages of DogmosWorld (world.rs, world/component.rs,  *)
(* world/scratch.rs): ProcessTurfs, React, and the component stages        *)
(* Equalize and ExcitedGroups.  A stage runs in chunks; between two chunks *)
(* mixture commands read and write the same records.  One StageItem here   *)
(* is one work item of a chunk, together with the commit that the same     *)
(* call performs when no work is left: a chunk may hold any number of      *)
(* items, so a command may come between any two of them, and between none  *)
(* other.                                                                  *)
(*                                                                         *)
(* Gas amounts, temperatures and energies are abstracted to the set of     *)
(* changes a mixture's contents are made of.  Turfs, their mixtures and    *)
(* the gas edges are constants: the requests that change them are refused  *)
(* while a stage is active (module Lifecycle).                             *)
(***************************************************************************)
EXTENDS Versioned, FiniteSets, SequencesExt

CONSTANTS
  Mixtures,        (* the registered mixtures *)
  Immutable,       (* those with the immutable flag *)
  NoMixture,       (* no mixture *)
  Home,            (* turf -> its mixture *)
  GasNeighbors,    (* turf -> the turfs it shares a gas edge with *)
  Frontiers,       (* the committed frontiers a stage may be asked to walk *)
  Kinds,           (* the stages of this instance *)
  MaxTokens,       (* bound: publications used *)
  MaxCommands,     (* bound: mixture commands *)
  MaxRevision,     (* the u32::MAX of revisions *)
  MaxEvents,       (* max_events of the world *)
  MaxContinuations (* capacity of the continuation pool *)

StageConstants ==
  /\ Immutable \subseteq Mixtures /\ NoMixture \notin Mixtures
  /\ IsFiniteSet(DOMAIN Home) /\ Frontiers \subseteq Seq(DOMAIN Home)
  /\ \A t \in DOMAIN Home :
       Home[t] \in Mixtures /\ GasNeighbors[t] \subseteq DOMAIN Home
  /\ \A t \in DOMAIN Home, u \in DOMAIN Home :
       u \in GasNeighbors[t] <=> t \in GasNeighbors[u]
  /\ Kinds \subseteq {"ProcessTurfs", "React", "Equalize", "ExcitedGroups"}
  /\ MaxTokens \in Nat /\ MaxCommands \in Nat /\ MaxRevision \in Nat \ {0}
  /\ MaxEvents \in Nat /\ MaxContinuations \in Nat

Turfs == DOMAIN Home
Tokens == 1..MaxTokens
Slots == 1..MaxContinuations

VARIABLES
  mem,        (* the versioned mixture records: [rev, made] values *)
  used,       (* publications created so far *)
  stage,      (* the stage cursor and its state, or NoStage *)
  suspended,  (* slot of the continuation pool -> its mixture, or NoMixture *)
  events,     (* world events not yet drained *)
  log,        (* history: the changes in the order they became visible *)
  held        (* history: mixtures suspended ever since the stage began *)

vars == <<mem, used, stage, suspended, events, log, held>>

Vis(m) == Visible(mem, m)

Suspended == {m \in Mixtures : \E c \in Slots : suspended[c] = m}
FreeSlots == {c \in Slots : suspended[c] = NoMixture}

NoStage == [kind |-> "none"]

(* Mutant: the suspended mixtures are not captured when a stage begins. *)
NewStageForgetsSuspended(kind, f) ==
  [kind |-> kind, frontier |-> f, token |-> used + 1, next |-> 1,
   nodes |-> <<>>, done |-> 0, input |-> <<>>, seenMixtures |-> {},
   staged |-> 0, active |-> {}, visited |-> {}, queue |-> <<>>,
   computed |-> FALSE, entries |-> <<>>, entered |-> 0,
   publishedMixtures |-> {}]

(* The cursor and the state of a new stage.  nodes is the work list in     *)
(* capture order and done how far it is processed; input is what was       *)
(* captured for each mixture.  active belongs to React; visited, queue,    *)
(* entries, computed and entered to the component at hand.                 *)
NewStage(kind, f) ==
  [kind |-> kind, frontier |-> f, token |-> used + 1, next |-> 1,
   nodes |-> <<>>, done |-> 0, input |-> <<>>, seenMixtures |-> {},
   staged |-> 0, active |-> IF kind = "React" THEN Suspended ELSE {},
   visited |-> {}, queue |-> <<>>, computed |-> FALSE, entries |-> <<>>,
   entered |-> 0, publishedMixtures |-> {}]

Init ==
  /\ mem = NewMemory([m \in Mixtures |-> [rev |-> 1, made |-> {}]], Tokens)
  /\ used = 0 /\ stage = NoStage /\ events = 0 /\ log = <<>>
  /\ suspended = [c \in Slots |-> NoMixture] /\ held = {}

(***************************************************************************)
(* Endings of a work item.                                                 *)
(***************************************************************************)
Continue(s) ==
  /\ stage' = s /\ used' = s.token
  /\ held' = IF stage = NoStage THEN Suspended ELSE held

End(s) == stage' = NoStage /\ held' = {} /\ used' = s.token

(* Any error of a chunk aborts the stage: the cursor and the stage state   *)
(* go, the candidates stay in the records under a token nobody will        *)
(* publish, because clear() replaces the publication.                      *)
AbortStage(s) == End(s) /\ UNCHANGED <<suspended, events, log>>

(* An item that leaves work to do. *)
Proceed(s, m2) == mem' = m2 /\ Continue(s) /\ UNCHANGED <<suspended, events, log>>

(* A commit checks the event capacity, publishes and appends the events.   *)
CommitFails(s, m2, newEvents) ==
  events + newEvents > MaxEvents \/ ~Publishable(m2, s.token)

Publish(s, m2, newEvents) ==
  /\ mem' = Published(m2, s.token)
  /\ events' = events + newEvents
  /\ log' = Append(log, <<"stage", s.token>>)

(***************************************************************************)
(* ProcessTurfs: capture every frontier turf and its neighbours, then      *)
(* compute node by node from the captured inputs.                          *)
(***************************************************************************)
IsNode(s, t) == t \in ToSet(s.nodes)

(* append_stage_diffusion_turf for a turf and its neighbours. *)
Fresh(s, t) == {u \in {t} \union GasNeighbors[t] : ~IsNode(s, u)}

DuplicateMutable(s, new) ==
  \E u \in new : /\ Home[u] \notin Immutable
                 /\ \/ Home[u] \in s.seenMixtures
                    \/ \E v \in new \ {u} : Home[v] = Home[u]

RevisionsLeft(new) ==
  \A u \in new : Home[u] \in Immutable \/ Vis(Home[u]).rev < MaxRevision

Capture(s, new) ==
  LET ms == {Home[u] : u \in new} IN
  [s EXCEPT !.nodes = @ \o SetToSeq(new),
            !.seenMixtures = @ \union (ms \ Immutable),
            !.input = [m \in DOMAIN @ \union ms |->
                         IF m \in ms THEN Vis(m) ELSE @[m]]]

(* compute_stage_diffusion_node: the node's own share and that of every    *)
(* neighbour among the nodes.                                              *)
Diffused(s, t) ==
  [rev  |-> Vis(Home[t]).rev + 1,
   made |-> {<<"stage", s.token>>} \union
            UNION {s.input[Home[u]].made :
                     u \in {t} \union {x \in GasNeighbors[t] : IsNode(s, x)}}]

CommitDiffusion(s, m2) ==
  IF CommitFails(s, m2, 0) THEN mem' = m2 /\ AbortStage(s)
    ELSE Publish(s, m2, 0) /\ End(s) /\ UNCHANGED suspended

WalkDiffusion(s) ==
  LET new == Fresh(s, s.frontier[s.next]) IN
  /\ s.kind = "ProcessTurfs" /\ s.next <= Len(s.frontier)
  /\ IF DuplicateMutable(s, new) \/ ~RevisionsLeft(new)
       THEN UNCHANGED mem /\ AbortStage(s)
       ELSE Proceed([Capture(s, new) EXCEPT !.next = @ + 1],
                    Prepared(mem, {Home[u] : u \in new}, s.token))

(* The last node's computation and the commit are one call.  An immutable  *)
(* mixture keeps the candidate it was prepared with.                       *)
DiffusionNode(s) ==
  LET t  == s.nodes[s.done + 1]
      m2 == IF Home[t] \in Immutable THEN mem
              ELSE Staged(mem, [m \in {Home[t]} |-> Diffused(s, t)], s.token)
  IN
  /\ s.kind = "ProcessTurfs" /\ s.next > Len(s.frontier)
  /\ s.done < Len(s.nodes)
  /\ IF s.done + 1 = Len(s.nodes)
       THEN CommitDiffusion(s, m2)
       ELSE Proceed([s EXCEPT !.done = @ + 1], m2)

(***************************************************************************)
(* React: collect the targets, react them one by one, stop at the first    *)
(* reaction that needs DM.                                                 *)
(***************************************************************************)
WalkReactions(s) ==
  /\ s.kind = "React" /\ s.next <= Len(s.frontier)
  /\ Proceed([s EXCEPT !.next = @ + 1,
                       !.nodes = Append(@, s.frontier[s.next])], mem)

Reacted(m, change) == [rev |-> Vis(m).rev + 1, made |-> Vis(m).made \union {change}]

(* commit_stage_reactions: events, then the continuation, then the         *)
(* publication; a conflict gives the continuation back.                    *)
CommitReactions(s, m2, pending) ==
  LET newEvents == s.staged + Cardinality(pending) IN
  IF CommitFails(s, m2, newEvents)
       \/ (pending # {} /\ FreeSlots = {})
    THEN mem' = m2 /\ AbortStage(s)
    ELSE /\ Publish(s, m2, newEvents) /\ End(s)
         /\ \/ pending = {} /\ UNCHANGED suspended
            \/ \E c \in FreeSlots, m \in pending : suspended' = [suspended EXCEPT ![c] = m]

ReactionDone(s, m2, pending) ==
  IF pending # {} \/ s.done = Len(s.nodes)
    THEN CommitReactions(s, m2, pending)
    ELSE Proceed(s, m2)

(* evaluate_reaction_sequence on one target: every native reaction emits   *)
(* an event, any of them makes the contents a candidate, a DM reaction     *)
(* ends the sequence.  Immutable mixtures do not react.                    *)
ReactTarget(s) ==
  LET m  == Home[s.nodes[s.done + 1]]
      s2 == [s EXCEPT !.done = @ + 1, !.seenMixtures = @ \union {m}]
  IN
  /\ s.kind = "React" /\ s.next > Len(s.frontier) /\ s.done < Len(s.nodes)
  /\ IF m \in s.seenMixtures \union s.active \union Immutable
       THEN ReactionDone(s2, mem, {})
       ELSE \E native \in 0..1, pending \in SUBSET {m} :
              IF native = 1 /\ Vis(m).rev = MaxRevision
                THEN UNCHANGED mem /\ AbortStage(s)
                ELSE ReactionDone([s2 EXCEPT !.staged = @ + native],
                       IF native = 0 THEN mem
                         ELSE Staged(mem,
                                [x \in {m} |-> Reacted(m, <<"stage", s.token>>)],
                                s.token),
                       pending)

(***************************************************************************)
(* Equalize and ExcitedGroups: discover a connected component of the       *)
(* targets, capture its turfs one by one, compute privately, stage the     *)
(* entries one by one, publish, and go on to the next component.           *)
(***************************************************************************)
ComponentKind(s) == s.kind \in {"Equalize", "ExcitedGroups"}

WalkComponents(s) ==
  /\ ComponentKind(s) /\ s.next <= Len(s.frontier)
  /\ Proceed([s EXCEPT !.next = @ + 1,
                       !.nodes = Append(@, s.frontier[s.next])], mem)

Unvisited(s) == ToSet(s.nodes) \ s.visited

(* Breadth-first search over the gas edges between targets. *)
ComponentOf(s, seed) ==
  LET closed(C) == \A x \in C : GasNeighbors[x] \intersect ToSet(s.nodes) \subseteq C
  IN  {u \in ToSet(s.nodes) :
         \A C \in SUBSET ToSet(s.nodes) : (seed \in C /\ closed(C)) => u \in C}

DiscoverComponent(s) ==
  /\ ComponentKind(s) /\ s.next > Len(s.frontier) /\ s.queue = <<>>
  /\ IF Unvisited(s) = {}
       THEN End(s) /\ UNCHANGED <<mem, suspended, events, log>>
       ELSE LET i == CHOOSE i \in DOMAIN s.nodes :
                       /\ s.nodes[i] \in Unvisited(s)
                       /\ \A j \in 1..(i - 1) : s.nodes[j] \in s.visited
                C == ComponentOf(s, s.nodes[i])
            IN  Proceed([s EXCEPT !.visited = @ \union C, !.queue = SetToSeq(C),
                                  !.done = 0, !.input = <<>>], mem)

(* Mutant: the count of prepared turfs does not move. *)
CaptureTurfAgain(s) ==
  LET m == Home[s.queue[s.done + 1]] IN
  /\ ComponentKind(s) /\ ~s.computed /\ s.done < Len(s.queue)
  /\ Proceed([s EXCEPT !.input = [x \in DOMAIN @ \union {m} |->
                                    IF x = m THEN Vis(m) ELSE @[x]]], mem)

(* ComponentKernel::capture copies the record as it is visible now. *)
CaptureTurf(s) ==
  LET m == Home[s.queue[s.done + 1]] IN
  /\ ComponentKind(s) /\ ~s.computed /\ s.done < Len(s.queue)
  /\ Proceed([s EXCEPT !.done = @ + 1,
                       !.input = [x \in DOMAIN @ \union {m} |->
                                    IF x = m THEN Vis(m) ELSE @[x]]], mem)

MutableTurfs(s) == {t \in ToSet(s.queue) : Home[t] \notin Immutable}

(* What the kernel may leave in the transaction: for every touched mixture *)
(* the revision it was captured at and its candidate contents.  Equalize   *)
(* touches every mutable mixture of a component of two turfs or more and   *)
(* may leave any of them as it was; an excited group touches the mixtures  *)
(* it accepts and mixes each group.                                        *)
MixedFrom(s, m, sources) ==
  [m |-> m, expected |-> s.input[m].rev,
   made |-> {<<"stage", s.token>>} \union UNION {s.input[n].made : n \in sources}]

KeptFrom(s, m) ==
  [m |-> m, expected |-> s.input[m].rev, made |-> s.input[m].made]

Computations(s) ==
  LET ms == {Home[t] : t \in MutableTurfs(s)} IN
  IF s.kind = "Equalize"
    THEN IF Len(s.queue) < 2 THEN {{}}
         ELSE {{IF m \in changed THEN MixedFrom(s, m, ms) ELSE KeptFrom(s, m) :
                  m \in ms} : changed \in SUBSET ms}
    ELSE {{MixedFrom(s, m, {n \in DOMAIN lead : lead[n] = lead[m]}) :
             m \in DOMAIN lead} :
            lead \in UNION {[S -> S] : S \in SUBSET ms}}

ComputationFails(s) ==
  \/ \E t, u \in MutableTurfs(s) : t # u /\ Home[t] = Home[u]
  \/ \E t \in MutableTurfs(s) : s.input[Home[t]].rev = MaxRevision

(* Mutant: the captured revision is not compared with the current one. *)
EntryFailsIgnoringRevision(s, e) ==
  \/ e.m \in s.publishedMixtures
  \/ e.made # Vis(e.m).made /\ Vis(e.m).rev = MaxRevision

(* One entry: the handle and the captured revision are checked again, the  *)
(* revision moves only when the contents do.                               *)
EntryFails(s, e) ==
  \/ e.m \in s.publishedMixtures
  \/ Vis(e.m).rev # e.expected
  \/ e.made # Vis(e.m).made /\ Vis(e.m).rev = MaxRevision

(* Mutant: a changed entry keeps its revision. *)
EntryCandidateSameRevision(e) == [rev |-> e.expected, made |-> e.made]

EntryCandidate(e) ==
  [rev |-> IF e.made = Vis(e.m).made THEN Vis(e.m).rev ELSE Vis(e.m).rev + 1,
   made |-> e.made]

StageEntry(s) ==
  LET e == s.entries[s.entered + 1] IN
  IF EntryFails(s, e)
    THEN UNCHANGED mem /\ AbortStage(s)
    ELSE Proceed([s EXCEPT !.entered = @ + 1,
                           !.publishedMixtures = @ \union {e.m}],
                 Staged(mem, [m \in {e.m} |-> EntryCandidate(e)], s.token))

(* A published component gets the events out and a new publication in. *)
PublishComponent(s) ==
  IF CommitFails(s, mem, s.staged)
    THEN UNCHANGED mem /\ AbortStage(s)
    ELSE /\ Publish(s, mem, s.staged)
         /\ Continue([s EXCEPT !.token = @ + 1, !.staged = 0, !.queue = <<>>,
                               !.computed = FALSE, !.entries = <<>>,
                               !.entered = 0, !.input = <<>>])
         /\ UNCHANGED suspended

(* process_ready_stage_component after the captures: the poll that ends    *)
(* the computation goes on to the first entry, or to the publication.      *)
EntryOrPublish(s) ==
  IF s.entered < Len(s.entries) THEN StageEntry(s) ELSE PublishComponent(s)

ComputeComponent(s) ==
  /\ ComponentKind(s) /\ s.queue # <<>> /\ ~s.computed /\ s.done = Len(s.queue)
  /\ IF ComputationFails(s)
       THEN UNCHANGED mem /\ AbortStage(s)
       ELSE \E es \in Computations(s), emitted \in 0..1 :
              EntryOrPublish([s EXCEPT !.computed = TRUE,
                                       !.entries = SetToSeq(es),
                                       !.staged = emitted])

PublishEntry(s) == ComponentKind(s) /\ s.computed /\ EntryOrPublish(s)

(***************************************************************************)
(* A chunk's next work item; the first one creates the cursor.             *)
(***************************************************************************)
Item(s) ==
  \/ WalkDiffusion(s) \/ DiffusionNode(s)
  \/ WalkReactions(s) \/ ReactTarget(s)
  \/ WalkComponents(s) \/ DiscoverComponent(s) \/ CaptureTurf(s)
  \/ ComputeComponent(s) \/ PublishEntry(s)

BeginStage ==
  /\ stage = NoStage
  /\ \E kind \in Kinds, f \in Frontiers :
       LET s == NewStage(kind, f) IN
       /\ used + (IF ComponentKind(s) THEN Cardinality(Turfs) ELSE 0) < MaxTokens
       /\ Item(s)

StageItem == stage # NoStage /\ Item(stage)

(* An invalid request, a request that does not match the cursor, a         *)
(* cancelled one or one whose frontier epoch is not the committed one ends *)
(* the active stage.                                                       *)
FailChunk ==
  /\ stage # NoStage
  /\ UNCHANGED mem
  /\ AbortStage(stage)

(***************************************************************************)
(* Commands between chunks.                                                *)
(***************************************************************************)
Commands == Cardinality({i \in DOMAIN log : log[i][1] = "command"})

(* A command that changes mixture m, through require_handle_mut. *)
WriteMixture(m) ==
  LET change == <<"command", Commands + 1>> IN
  /\ Commands < MaxCommands /\ m \notin Immutable /\ Vis(m).rev < MaxRevision
  /\ mem' = Written(mem, m, Reacted(m, change))
  /\ log' = Append(log, change)
  /\ UNCHANGED <<used, stage, suspended, events, held>>

(* A command that takes the record for writing and leaves it as it was: an *)
(* immutable mixture, a value that is already there, an exhausted revision.*)
TouchMixture(m) ==
  /\ mem' = TakenForWriting(mem, {m})
  /\ UNCHANGED <<used, stage, suspended, events, log, held>>

(* A reaction command that stops at a DM reaction. *)
SuspendReaction(m) ==
  /\ m \notin Immutable /\ events < MaxEvents
  /\ \E c \in FreeSlots : suspended' = [suspended EXCEPT ![c] = m]
  /\ events' = events + 1
  /\ UNCHANGED <<mem, used, stage, log, held>>

(* A continuation ends: resumed to its end, cancelled or expired. *)
EndReaction(c) ==
  /\ suspended[c] # NoMixture
  /\ suspended' = [suspended EXCEPT ![c] = NoMixture]
  /\ held' = held \intersect Suspended'
  /\ UNCHANGED <<mem, used, stage, events, log>>

(* The service drains the events after a chunk or a command. *)
DrainEvents ==
  /\ events > 0 /\ events' = 0
  /\ UNCHANGED <<mem, used, stage, suspended, log, held>>

Next ==
  \/ BeginStage \/ StageItem \/ FailChunk \/ DrainEvents
  \/ \E m \in Mixtures : WriteMixture(m) \/ TouchMixture(m) \/ SuspendReaction(m)
  \/ \E c \in Slots : EndReaction(c)

Spec == Init /\ [][Next]_vars

(* The game's master controller calls for chunks until a stage is done. *)
FairSpec == Spec /\ WF_vars(StageItem)

(***************************************************************************)
(* Properties.                                                             *)
(***************************************************************************)
(* The type of the state; a token's state is one of the three. *)
TypeOK ==
  /\ \A m \in Mixtures : Vis(m).rev \in 1..MaxRevision
  /\ \A m \in Mixtures : mem.pend[m].token \in 0..MaxTokens
  /\ mem.tok \in [Tokens -> TokenStates]
  /\ used \in 0..MaxTokens /\ events \in 0..MaxEvents
  /\ suspended \in [Slots -> Mixtures \union {NoMixture}]
  /\ held \subseteq Suspended

(* Readers, and commands between two chunks, never see part of a stage:    *)
(* every stage, or every component of a component stage, takes effect in   *)
(* one step, computed from the contents visible at that very step, and no  *)
(* command's change is ever lost.                                          *)
Position(change) ==
  IF change \in ToSet(log) THEN CHOOSE i \in DOMAIN log : log[i] = change ELSE 0

Atomic == INSTANCE AtomicStages
  WITH seen <- [m \in Mixtures |-> {Position(c) : c \in Vis(m).made}],
       changes <- Len(log)

AtomicSpec == Atomic!Spec

(* While the stage's publication can still succeed, every captured input   *)
(* that a candidate is made from is what the world shows now.              *)
StagedInputs ==
  IF stage = NoStage THEN {}
    ELSE {m \in DOMAIN stage.input : Carries(mem, m, stage.token)}

CapturedFresh ==
  (stage # NoStage /\ Publishable(mem, stage.token))
    => \A m \in StagedInputs : stage.input[m] = Vis(m)

(* A mixture's revision tells its contents: whenever the visible contents  *)
(* change the revision grows, by commands and stages alike.  The component *)
(* stages rely on it to notice a write between capture and staging.        *)
RevisionTellsContents ==
  [][\A m \in Mixtures :
       Vis(m)' # Vis(m) => /\ Vis(m).rev < Vis(m)'.rev
                           /\ Vis(m)'.made # Vis(m).made]_vars

(* A React stage leaves alone every mixture whose suspended reaction was   *)
(* pending when it began and still is.                                     *)
SuspendedLeftAlone ==
  (stage # NoStage /\ stage.kind = "React")
    => \A m \in held : ~Carries(mem, m, stage.token)

(* A gas stage stages only over records nobody wrote since it captured     *)
(* them, never over a suspended reaction, and keeps its types.             *)
GasStagesSound == TypeOK /\ CapturedFresh /\ SuspendedLeftAlone

(* A stage that is called for ends. *)
StagesEnd == (stage # NoStage) ~> (stage = NoStage)
=============================================================================
