----------------------------- MODULE Lifecycle -----------------------------
(***************************************************************************)
(* The registered world of DogmosWorld: mixtures, turfs, which turf holds  *)
(* which mixture, turf heat, the gas and heat edges between turfs and the  *)
(* conductivity edges between mixtures, with the indexes and caches that   *)
(* go with them (world.rs, world/ownership.rs).                            *)
(*                                                                         *)
(* A lifecycle or heat batch is validated whole on the projected slots and *)
(* then applied mutation by mutation; an adjacency batch is applied        *)
(* mutation by mutation until one fails.  Either way its effect is that of *)
(* single mutations one after the other, and an action here is one of      *)
(* them; a refused mutation changes nothing.  The batch that fails in the  *)
(* middle matters for the cached mixture graph only (FailAdjacency).       *)
(***************************************************************************)
EXTENDS Topology, SequencesExt

CONSTANTS
  MixtureSlots, TurfSlots,   (* slots within the capacity of the world *)
  MaxGeneration,             (* bound: generations of a slot *)
  RevisionWrap,              (* topology revisions wrap here (2^64) *)
  ReplacesLive,              (* may a client register over a live mixture? *)
  FailingBatches             (* may an adjacency batch fail half-way? *)

LifecycleConstants ==
  /\ TopologyConstants
  /\ MixtureSlots \subseteq Nat \ {0} /\ TurfSlots \subseteq Nat \ {0}
  /\ IsFiniteSet(TurfSlots)
  /\ MaxGeneration \in Nat /\ RevisionWrap \in Nat \ {0}
  /\ ReplacesLive \in BOOLEAN /\ FailingBatches \in BOOLEAN

Generations == 1..MaxGeneration
Handle(s, g) == [slot |-> s, gen |-> g]
MixtureHandles == {Handle(s, g) : s \in MixtureSlots, g \in Generations}
TurfHandles == {Handle(s, g) : s \in TurfSlots, g \in Generations}
NoHandle == Handle(0, 0)

(* Heat of a turf: none, or a temperature below the lower threshold,       *)
(* between the thresholds, or above the upper one.                         *)
NoHeat == "none"
Heats == {"cold", "warm", "hot"}

VARIABLES
  mixtures,      (* slot -> [gen, live]; gen 0 is a slot never used *)
  turfs,         (* slot -> [gen, live, mixture, heat, index] *)
  heatActive,    (* the list of turfs that superconduct *)
  mixtureTurfs,  (* mixture handle -> turf slots: the reverse index *)
  topology,      (* gas and heat edges between turfs *)
  edges,         (* conductivity edges between mixture slots *)
  mixtureEdges,  (* mixture slot -> its edges: the reverse index *)
  graph,         (* the cached mixture graph, or NoGraph *)
  staging        (* is a stage cursor active? *)

vars == <<mixtures, turfs, heatActive, mixtureTurfs, topology, edges,
          mixtureEdges, graph, staging>>
mixtureVars == <<mixtures, edges, mixtureEdges, graph>>
turfVars == <<turfs, heatActive, mixtureTurfs, topology>>

NoGraph == [nodes |-> {}, edges |-> {{}}]
EmptyTurf(g) == [gen |-> g, live |-> FALSE, mixture |-> NoHandle, heat |-> NoHeat, index |-> 0]

Init ==
  /\ mixtures = [s \in MixtureSlots |-> [gen |-> 0, live |-> FALSE]]
  /\ turfs = [s \in TurfSlots |-> EmptyTurf(0)]
  /\ heatActive = <<>>
  /\ mixtureTurfs = [h \in MixtureHandles |-> {}]
  /\ topology = EmptyTopology(TurfSlots)
  /\ edges = {} /\ mixtureEdges = [s \in MixtureSlots |-> {}]
  /\ graph = NoGraph /\ staging = FALSE

(* require_handle, require_turf_handle. *)
Live(h) == h.slot \in MixtureSlots /\ mixtures[h.slot] = [gen |-> h.gen, live |-> TRUE]
LiveTurf(h) == turfs[h.slot].gen = h.gen /\ turfs[h.slot].live

(* The topology after an operation, with its revision wrapped. *)
Moved(topo) == topology' = [topo EXCEPT !.revision = @ % RevisionWrap]

(* The projected slot a lifecycle mutation is checked against. *)
MayRegister(slot, h) == h.gen > slot.gen \/ (slot.live /\ h.gen = slot.gen)
MayUnregister(slot, h) == slot.live /\ h.gen = slot.gen

(***************************************************************************)
(* Mixtures.                                                               *)
(***************************************************************************)
BuiltGraph(m, e) == [nodes |-> {Handle(s, m[s].gen) : s \in {x \in MixtureSlots : m[x].live}},
                     edges |-> e]

(* Mutant: the cached graph stays. *)
WithoutMixtureEdgesKeepsGraph(slot) ==
  /\ edges' = {e \in edges : slot \notin e}
  /\ mixtureEdges' = [s \in MixtureSlots |->
       IF s = slot THEN {} ELSE mixtureEdges[s] \ mixtureEdges[slot]]
  /\ UNCHANGED graph

WithoutMixtureEdges(slot) ==
  /\ edges' = {e \in edges : slot \notin e}
  /\ mixtureEdges' = [s \in MixtureSlots |->
       IF s = slot THEN {} ELSE mixtureEdges[s] \ mixtureEdges[slot]]
  /\ graph' = NoGraph

(* apply_lifecycle, Register: the same live generation again is a no-op,   *)
(* anything else is a new record.  Turfs that hold an older generation of  *)
(* the slot are not told.                                                  *)
RegisterMixture(h) ==
  LET slot == mixtures[h.slot] IN
  /\ MayRegister(slot, h)
  /\ slot.live /\ h.gen # slot.gen => ReplacesLive /\ ~staging
  /\ IF Live(h) THEN UNCHANGED mixtureVars
     ELSE /\ mixtures' = [mixtures EXCEPT ![h.slot] = [gen |-> h.gen, live |-> TRUE]]
          /\ WithoutMixtureEdges(h.slot)
  /\ UNCHANGED <<turfVars, staging>>

(* apply_lifecycle, Unregister: the turfs of the mixture lose it, and with *)
(* it all their edges, heat edges included.                                *)
UnregisterMixture(h) ==
  LET owners == mixtureTurfs[h] IN
  /\ ~staging /\ MayUnregister(mixtures[h.slot], h)
  /\ mixtures' = [mixtures EXCEPT ![h.slot].live = FALSE]
  /\ WithoutMixtureEdges(h.slot)
  /\ mixtureTurfs' = [mixtureTurfs EXCEPT ![h] = {}]
  /\ turfs' = [s \in TurfSlots |->
       IF s \in owners /\ turfs[s].live THEN [turfs[s] EXCEPT !.mixture = NoHandle]
                                        ELSE turfs[s]]
  /\ Moved(FoldSet(LAMBDA s, topo : RemoveSlot(topo, s), topology, owners))
  /\ UNCHANGED <<heatActive, staging>>

(* apply_adjacency: an edge that is already as asked changes nothing;      *)
(* otherwise the graph is built again from all edges.                      *)
LinkEdge(e) ==
  /\ edges' = edges \union {e}
  /\ mixtureEdges' = [s \in MixtureSlots |->
       IF s \in e THEN mixtureEdges[s] \union {e} ELSE mixtureEdges[s]]

UnlinkEdge(e) ==
  /\ edges' = edges \ {e}
  /\ mixtureEdges' = [s \in MixtureSlots |->
       IF s \in e THEN mixtureEdges[s] \ {e} ELSE mixtureEdges[s]]

ApplyAdjacency(left, right) ==
  /\ Live(left) /\ Live(right) /\ left.slot # right.slot
  /\ LET e == {left.slot, right.slot} IN
     (e \notin edges /\ LinkEdge(e)) \/ (e \in edges /\ UnlinkEdge(e))
  /\ graph' = BuiltGraph(mixtures, edges')
  /\ UNCHANGED <<mixtures, turfVars, staging>>

(* The same batch with a later mutation that is refused: the call returns  *)
(* before the graph is built again.                                        *)
FailAdjacency(left, right) ==
  /\ FailingBatches
  /\ Live(left) /\ Live(right) /\ left.slot # right.slot
  /\ LET e == {left.slot, right.slot} IN
     (e \notin edges /\ LinkEdge(e)) \/ (e \in edges /\ UnlinkEdge(e))
  /\ UNCHANGED <<mixtures, graph, turfVars, staging>>

(***************************************************************************)
(* Turfs and their heat.                                                   *)
(***************************************************************************)
(* Vec::swap_remove: the last entry takes the freed place. *)
SwapRemoved(list, i) ==
  IF i = Len(list) THEN Front(list) ELSE [Front(list) EXCEPT ![i] = Last(list)]

(* deactivate_turf_heat_slot: the turf that moved learns its new index. *)
Deactivated(slot) ==
  LET i == turfs[slot].index IN
  IF i = 0 THEN [turfs |-> turfs, active |-> heatActive]
  ELSE LET list  == SwapRemoved(heatActive, i)
           moved == IF i <= Len(list) THEN list[i].slot ELSE slot
       IN  [turfs |-> [s \in TurfSlots |->
                         IF s = slot THEN [turfs[s] EXCEPT !.index = 0]
                         ELSE IF s = moved THEN [turfs[s] EXCEPT !.index = i]
                         ELSE turfs[s]],
            active |-> list]

(* Mutant: the old mixture's entry keeps the turf. *)
RelinkedKeepsOld(slot, m) ==
  [h \in MixtureHandles |-> mixtureTurfs[h] \union (IF m = h THEN {slot} ELSE {})]

(* unlink_turf_mixture, then the entry of the new mixture. *)
Relinked(slot, m) ==
  [h \in MixtureHandles |->
     (IF turfs[slot].mixture = h THEN mixtureTurfs[h] \ {slot} ELSE mixtureTurfs[h])
       \union (IF m = h THEN {slot} ELSE {})]

(* apply_turf_lifecycle, Register.  A new generation starts without heat   *)
(* and without edges; the same generation keeps its heat and its place in  *)
(* the active list.  A turf without mixture keeps no gas edge, one without *)
(* heat no heat edge.                                                      *)
RegisterTurf(h, m) ==
  LET replaces == turfs[h.slot].gen # h.gen
      d     == IF replaces THEN Deactivated(h.slot)
                           ELSE [turfs |-> turfs, active |-> heatActive]
      old   == d.turfs[h.slot]
      heat  == IF replaces THEN NoHeat ELSE old.heat
      topo1 == IF replaces THEN RemoveSlot(topology, h.slot) ELSE topology
      topo2 == IF m = NoHandle THEN RemoveEdges(topo1, "gas", h, TRUE) ELSE topo1
      topo3 == IF heat = NoHeat THEN RemoveEdges(topo2, "heat", h, TRUE) ELSE topo2
  IN
  /\ ~staging /\ MayRegister(turfs[h.slot], h)
  /\ m = NoHandle \/ Live(m)
  /\ turfs' = [d.turfs EXCEPT ![h.slot] =
       [gen |-> h.gen, live |-> TRUE, mixture |-> m, heat |-> heat,
        index |-> IF replaces THEN 0 ELSE old.index]]
  /\ heatActive' = d.active
  /\ mixtureTurfs' = Relinked(h.slot, m)
  /\ Moved(topo3)
  /\ UNCHANGED <<mixtureVars, staging>>

UnregisterTurf(h) ==
  LET d == Deactivated(h.slot) IN
  /\ ~staging /\ MayUnregister(turfs[h.slot], h)
  /\ turfs' = [d.turfs EXCEPT ![h.slot] = EmptyTurf(h.gen)]
  /\ heatActive' = d.active
  /\ mixtureTurfs' = Relinked(h.slot, NoHandle)
  /\ Moved(RemoveEdges(RemoveSlot(topology, h.slot), "heat", h, FALSE))
  /\ UNCHANGED <<mixtureVars, staging>>

(* turf_superconduction_temperature: gas in the turf may be hotter. *)
Hotter(x, y) == <<x, y>> \in {<<"warm", "cold">>, <<"hot", "cold">>, <<"hot", "warm">>}

ActivationHeats(h, heat) ==
  {heat} \union IF turfs[h.slot].mixture = NoHandle THEN {}
                ELSE {a \in Heats : Hotter(a, heat)}

Activates(h, a) == a = "hot" \/ (a = "warm" /\ turfs[h.slot].index # 0)

ActivateTurfHeat(h, heat) ==
  IF turfs[h.slot].index # 0
    THEN /\ turfs' = [turfs EXCEPT ![h.slot].heat = heat]
         /\ UNCHANGED heatActive
    ELSE /\ turfs' = [turfs EXCEPT ![h.slot].heat = heat,
                                   ![h.slot].index = Len(heatActive) + 1]
         /\ heatActive' = Append(heatActive, h)

DeactivateTurfHeat(h, heat) ==
  /\ turfs' = [Deactivated(h.slot).turfs EXCEPT ![h.slot].heat = heat]
  /\ heatActive' = Deactivated(h.slot).active

(* Mutant: heat is accepted while a stage is active. *)
SetTurfHeatAnytime(h, heat) ==
  /\ LiveTurf(h)
  /\ turfs[h.slot].mixture = NoHandle \/ Live(turfs[h.slot].mixture)
  /\ \E a \in ActivationHeats(h, heat) :
       IF Activates(h, a) THEN ActivateTurfHeat(h, heat)
                          ELSE DeactivateTurfHeat(h, heat)
  /\ UNCHANGED <<mixtureVars, mixtureTurfs, topology, staging>>

(* apply_turf_heat with a state. *)
SetTurfHeat(h, heat) ==
  /\ ~staging /\ LiveTurf(h)
  /\ turfs[h.slot].mixture = NoHandle \/ Live(turfs[h.slot].mixture)
  /\ \E a \in ActivationHeats(h, heat) :
       IF Activates(h, a) THEN ActivateTurfHeat(h, heat)
                          ELSE DeactivateTurfHeat(h, heat)
  /\ UNCHANGED <<mixtureVars, mixtureTurfs, topology, staging>>

(* The turf holds a mixture that was registered over: the new heat is in   *)
(* place when the lookup of the mixture fails.                             *)
FailTurfHeat(h, heat) ==
  /\ ~staging /\ LiveTurf(h)
  /\ turfs[h.slot].mixture # NoHandle /\ ~Live(turfs[h.slot].mixture)
  /\ turfs' = [turfs EXCEPT ![h.slot].heat = heat]
  /\ UNCHANGED <<mixtureVars, heatActive, mixtureTurfs, topology, staging>>

(* apply_turf_heat without a state. *)
ClearTurfHeat(h) ==
  /\ ~staging /\ LiveTurf(h)
  /\ DeactivateTurfHeat(h, NoHeat)
  /\ Moved(RemoveEdges(topology, "heat", h, TRUE))
  /\ UNCHANGED <<mixtureVars, mixtureTurfs, staging>>

(***************************************************************************)
(* Edges between turfs.                                                    *)
(***************************************************************************)
Grounded(k, h) ==
  LiveTurf(h) /\ IF k = "gas" THEN turfs[h.slot].mixture # NoHandle
                              ELSE turfs[h.slot].heat # NoHeat

(* apply_turf_adjacency, apply_turf_heat_adjacency. *)
ConnectTurfs(k, left, right) ==
  /\ ~staging /\ Grounded(k, left) /\ Grounded(k, right)
  /\ CanConnect(topology, k, left, right)
  /\ Moved(Connect(topology, k, left, right))
  /\ UNCHANGED <<mixtureVars, turfs, heatActive, mixtureTurfs, staging>>

DisconnectTurfs(k, left, right) ==
  /\ ~staging /\ Grounded(k, left) /\ Grounded(k, right)
  /\ left.slot # right.slot
  /\ Moved(Disconnect(topology, k, left, right))
  /\ UNCHANGED <<mixtureVars, turfs, heatActive, mixtureTurfs, staging>>

(* apply_turf_firelocks: there must be a gas edge. *)
ApplyFirelock(left, right, flag) ==
  /\ ~staging /\ LiveTurf(left) /\ LiveTurf(right)
  /\ Connected(topology, "gas", left, right)
  /\ Moved(SetFirelock(topology, left, right, flag))
  /\ UNCHANGED <<mixtureVars, turfs, heatActive, mixtureTurfs, staging>>

(* A stage begins or ends. *)
ToggleStage == staging' = ~staging /\ UNCHANGED <<mixtureVars, turfVars>>

Next ==
  \/ \E h \in MixtureHandles : RegisterMixture(h) \/ UnregisterMixture(h)
  \/ \E l, r \in MixtureHandles : ApplyAdjacency(l, r) \/ FailAdjacency(l, r)
  \/ \E h \in TurfHandles :
       \/ \E m \in MixtureHandles \union {NoHandle} : RegisterTurf(h, m)
       \/ UnregisterTurf(h)
       \/ \E heat \in Heats : SetTurfHeat(h, heat) \/ FailTurfHeat(h, heat)
       \/ ClearTurfHeat(h)
  \/ \E l, r \in TurfHandles :
       \/ \E k \in EdgeKinds : ConnectTurfs(k, l, r) \/ DisconnectTurfs(k, l, r)
       \/ \E flag \in BOOLEAN : ApplyFirelock(l, r, flag)
  \/ ToggleStage

Spec == Init /\ [][Next]_vars

(***************************************************************************)
(* Properties.                                                             *)
(***************************************************************************)
TypeOK ==
  /\ mixtures \in [MixtureSlots -> [gen : 0..MaxGeneration, live : BOOLEAN]]
  /\ turfs \in [TurfSlots -> [gen : 0..MaxGeneration, live : BOOLEAN,
                              mixture : MixtureHandles \union {NoHandle},
                              heat : Heats \union {NoHeat},
                              index : 0..Cardinality(TurfSlots)]]
  /\ heatActive \in Seq(TurfHandles)
  /\ mixtureTurfs \in [MixtureHandles -> SUBSET TurfSlots]
  /\ topology.revision \in 0..(RevisionWrap - 1)
  /\ mixtureEdges \in [MixtureSlots -> SUBSET edges]

(* The reverse indexes are what a scan of the turfs and of the edges finds,*)
(* after any order of reassignment, unregistration and generation reuse.   *)
IndexesExact ==
  /\ \A h \in MixtureHandles : mixtureTurfs[h] = {s \in TurfSlots : turfs[s].mixture = h}
  /\ \A s \in MixtureSlots : mixtureEdges[s] = {e \in edges : s \in e}

(* The entries of all rows, each with its slot. *)
RowEntries(near) == UNION {{s} \X near[s] : s \in TurfSlots}

(* Every edge is entered on both sides with the same firelock, joins turfs *)
(* that are registered now and have what the edge carries (a mixture, or   *)
(* heat), and is counted once; no row is longer than its array.            *)
EdgesSound ==
  \A k \in EdgeKinds :
    /\ topology.edges[k] * 2 = Cardinality(RowEntries(topology.near[k]))
    /\ \A s \in TurfSlots :
         /\ Cardinality(topology.near[k][s]) <= MaxTurfNeighbors
         /\ \A n \in topology.near[k][s] :
              /\ Grounded(k, n.handle) /\ n.handle.slot # s
              /\ [handle |-> Handle(s, turfs[s].gen), firelock |-> n.firelock]
                   \in topology.near[k][n.handle.slot]

(* The active list and the turfs' indexes are inverse to each other, and   *)
(* every turf on the list is registered and has heat.                      *)
HeatListExact ==
  /\ \A i \in DOMAIN heatActive :
       /\ LiveTurf(heatActive[i]) /\ turfs[heatActive[i].slot].heat # NoHeat
       /\ turfs[heatActive[i].slot].index = i
  /\ \A s \in TurfSlots : turfs[s].index # 0 =>
       /\ turfs[s].index <= Len(heatActive)
       /\ heatActive[turfs[s].index] = Handle(s, turfs[s].gen)

(* A turf holds a mixture that is registered now, so that no stage fails   *)
(* on a stale handle.  It takes a client that unregisters a mixture before *)
(* it registers its slot again.                                            *)
TurfsHoldCurrent ==
  \A s \in TurfSlots : turfs[s].mixture # NoHandle => Live(turfs[s].mixture)

(* What the world looks up through an index is what a scan would find: the *)
(* turfs and the edges of a mixture, the place of a turf in the active     *)
(* list and the partners of a turf; and with an orderly client no turf     *)
(* names a mixture that is gone.                                           *)
HandlesCurrent ==
  IndexesExact /\ HeatListExact /\ EdgesSound /\ (~ReplacesLive => TurfsHoldCurrent)

(* A cached mixture graph is the graph of the registered mixtures and of   *)
(* the edges as they are: apply_adjacency changes the edges in place and   *)
(* says it invalidates the graph.                                          *)
GraphFresh == graph # NoGraph => graph = BuiltGraph(mixtures, edges)

(* While a stage is active turfs, heat, edges and the registered mixtures  *)
(* stay as they are; mixtures may only be added.                           *)
FixedUnderStage ==
  staging /\ staging' =>
    /\ UNCHANGED <<turfs, heatActive, mixtureTurfs, topology>>
    /\ \A h \in MixtureHandles : Live(h) => Live(h)'
=============================================================================
