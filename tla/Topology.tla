------------------------------ MODULE Topology ------------------------------
(***************************************************************************)
(* PackedTopology (dogmos-core/src/topology.rs): per turf slot the gas and *)
(* the heat neighbours, at most MaxTurfNeighbors of each, edge counters    *)
(* and a revision.  A neighbour is a turf handle with a firelock flag; the *)
(* sorted fixed-size arrays are sets here.                                 *)
(*                                                                         *)
(* A topology is [near : [{"gas","heat"} -> [slot -> set of neighbours]],  *)
(*                edges : [{"gas","heat"} -> Nat], revision : Nat].        *)
(***************************************************************************)
EXTENDS Naturals, FiniteSets

CONSTANT MaxTurfNeighbors

TopologyConstants == MaxTurfNeighbors \in Nat \ {0}

EdgeKinds == {"gas", "heat"}

EmptyTopology(slots) ==
  [near |-> [k \in EdgeKinds |-> [s \in slots |-> {}]],
   edges |-> [k \in EdgeKinds |-> 0],
   revision |-> 0]

(* find_neighbor: by the whole handle, generation included. *)
Connected(topo, k, left, right) ==
  \E n \in topo.near[k][left.slot] : n.handle = right

Partners(topo, k, slot) == {n.handle : n \in topo.near[k][slot]}

Full(topo, k, turf) == Cardinality(topo.near[k][turf.slot]) = MaxTurfNeighbors

(* connect_gas, connect_heat: an existing edge is left alone; the edge is  *)
(* entered on both sides.                                                  *)
CanConnect(topo, k, left, right) ==
  /\ left.slot # right.slot
  /\ Connected(topo, k, left, right) \/ ~(Full(topo, k, left) \/ Full(topo, k, right))

Connect(topo, k, left, right) ==
  IF Connected(topo, k, left, right) THEN topo ELSE
  [topo EXCEPT !.near[k][left.slot]  = @ \union {[handle |-> right, firelock |-> FALSE]},
               !.near[k][right.slot] = @ \union {[handle |-> left, firelock |-> FALSE]},
               !.edges[k] = @ + 1, !.revision = @ + 1]

Disconnect(topo, k, left, right) ==
  IF ~Connected(topo, k, left, right) THEN topo ELSE
  [topo EXCEPT !.near[k][left.slot]  = {n \in @ : n.handle # right},
               !.near[k][right.slot] = {n \in @ : n.handle # left},
               !.edges[k] = @ - 1, !.revision = @ + 1]

(* set_firelock changes the flag on both sides of an existing gas edge. *)
SetFirelock(topo, left, right, flag) ==
  IF ~Connected(topo, "gas", left, right)
     \/ \E n \in topo.near["gas"][left.slot] : n.handle = right /\ n.firelock = flag
    THEN topo
    ELSE LET set(ns, h) == {IF n.handle = h THEN [n EXCEPT !.firelock = flag] ELSE n : n \in ns}
         IN  [topo EXCEPT !.near["gas"][left.slot]  = set(@, right),
                          !.near["gas"][right.slot] = set(@, left),
                          !.revision = @ + 1]

(* Mutant: the partners' rows keep their entries. *)
RemoveSlotOwnRows(topo, slot) ==
  LET removed(k) == Cardinality(topo.near[k][slot]) IN
  IF \A k \in EdgeKinds : removed(k) = 0 THEN topo ELSE
  [near |-> [k \in EdgeKinds |-> [topo.near[k] EXCEPT ![slot] = {}]],
   edges |-> [k \in EdgeKinds |-> topo.edges[k] - removed(k)],
   revision |-> topo.revision + 1]

(* remove_slot clears both rows of a slot and its entry in every partner's *)
(* row.                                                                    *)
RemoveSlot(topo, slot) ==
  LET removed(k) == Cardinality(topo.near[k][slot]) IN
  IF \A k \in EdgeKinds : removed(k) = 0 THEN topo ELSE
  [near |-> [k \in EdgeKinds |-> [s \in DOMAIN topo.near[k] |->
               IF s = slot THEN {}
               ELSE {n \in topo.near[k][s] :
                       ~(n.handle.slot = slot
                         /\ s \in {p.slot : p \in Partners(topo, k, slot)})}]],
   edges |-> [k \in EdgeKinds |-> topo.edges[k] - removed(k)],
   revision |-> topo.revision + 1]

(* remove_incident_gas_edges, remove_incident_heat_edges of DogmosWorld:   *)
(* the slot is removed and the edges of the other kind are connected again *)
(* for the turf that is registered there, firelock flags included.         *)
Reconnected(topo, k, turf, old) ==
  LET back == {n \in old : n.handle.slot # turf.slot}
      n2   == [topo.near EXCEPT ![k] = [s \in DOMAIN @ |->
                 IF s = turf.slot THEN back
                 ELSE @[s] \union {[handle |-> turf, firelock |-> n.firelock] :
                                     n \in {x \in back : x.handle.slot = s}}]]
  IN  [topo EXCEPT !.near = n2,
                   !.edges[k] = @ + Cardinality(back),
                   !.revision = @ + Cardinality(back)
                                  + Cardinality({n \in back : n.firelock})]

RemoveEdges(topo, k, turf, registered) ==
  LET other == IF k = "gas" THEN "heat" ELSE "gas"
      gone  == RemoveSlot(topo, turf.slot)
  IN  IF registered THEN Reconnected(gone, other, turf, topo.near[other][turf.slot])
                    ELSE gone
=============================================================================
