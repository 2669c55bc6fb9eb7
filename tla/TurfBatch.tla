----------------------------- MODULE TurfBatch -----------------------------
(***************************************************************************)
(* One TurfAdjacencyBatch request (dogmos-server/src/state.rs,             *)
(* apply_turf_adjacency): a look for repeated pairs, a pass that connects  *)
(* and disconnects turfs, and a second pass that sets the firelocks of the *)
(* connected ones.  Each pass changes the topology in place and stops at   *)
(* the first mutation it refuses; the session answers the error and reads  *)
(* the next request.                                                       *)
(***************************************************************************)
EXTENDS Topology, SequencesExt

CONSTANTS
  TurfSlots,   (* registered turfs *)
  MaxBatch     (* bound: mutations of a batch *)

BatchConstants ==
  TopologyConstants /\ TurfSlots \subseteq Nat \ {0} /\ MaxBatch \in Nat \ {0}

Turf(s) == [slot |-> s, gen |-> 1]

(* The decoder refuses a firelock on an edge that is taken away. *)
Mutations ==
  {m \in [left : TurfSlots, right : TurfSlots, connected : BOOLEAN, firelock : BOOLEAN] :
     m.firelock => m.connected}

VARIABLES
  open,       (* the turfs that hold a mixture *)
  topology,
  outcome,    (* what became of the last batch, and which pass refused it *)
  asked       (* the edges it asked for, given those there were: history *)

vars == <<open, topology, outcome, asked>>

Pair(m) == {m.left, m.right}
Edge(pair, flag) == [pair |-> pair, firelock |-> flag]

(* The gas edges, each read from both of its ends. *)
Edges(topo) ==
  UNION {{Edge({s, n.handle.slot}, n.firelock) : n \in topo.near["gas"][s]} : s \in TurfSlots}

Init ==
  /\ open \in SUBSET TurfSlots
  /\ topology = EmptyTopology(TurfSlots)
  /\ outcome = "none" /\ asked = {}

(* Mutant: a pair is repeated only if it is written the same way round. *)
DistinctAsWritten(b) ==
  \A i, j \in DOMAIN b : i # j => <<b[i].left, b[i].right>> # <<b[j].left, b[j].right>>

Distinct(b) == \A i, j \in DOMAIN b : i # j => Pair(b[i]) # Pair(b[j])

(* A pass: the mutations in order, until one is refused. *)
Passed(topo, b, Accepts(_, _), Result(_, _)) ==
  FoldLeft(LAMBDA run, m :
             IF run.ok /\ Accepts(run.topo, m)
               THEN [ok |-> TRUE, topo |-> Result(run.topo, m)]
               ELSE [run EXCEPT !.ok = FALSE],
           [ok |-> TRUE, topo |-> topo], b)

(* DogmosWorld::apply_turf_adjacency. *)
AdjacencyPass(topo, b) ==
  LET Accepts(t, m) ==
        /\ Pair(m) \subseteq open /\ m.left # m.right
        /\ m.connected => CanConnect(t, "gas", Turf(m.left), Turf(m.right))
      Result(t, m) == IF m.connected THEN Connect(t, "gas", Turf(m.left), Turf(m.right))
                                     ELSE Disconnect(t, "gas", Turf(m.left), Turf(m.right))
  IN  Passed(topo, b, Accepts, Result)

(* DogmosWorld::apply_turf_firelocks, which is given the connected pairs. *)
FirelockPass(topo, b) ==
  LET Accepts(t, m) == m.connected => Connected(t, "gas", Turf(m.left), Turf(m.right))
      Result(t, m)  == IF m.connected
                         THEN SetFirelock(t, Turf(m.left), Turf(m.right), m.firelock) ELSE t
  IN  Passed(topo, b, Accepts, Result)

(* The edges after a batch that was carried out as asked. *)
Asked(edges, b) ==
  {e \in edges : \A i \in DOMAIN b : Pair(b[i]) # e.pair}
    \union {Edge(Pair(m), m.firelock) : m \in {x \in Range(b) : x.connected}}

(* The request and its answer.  The revision is left to Lifecycle. *)
Answer(outc, topo) == outcome' = outc /\ topology' = [topo EXCEPT !.revision = 0]

ApplyTurfAdjacency(b) ==
  LET adjacency == AdjacencyPass(topology, b)
      firelocks == FirelockPass(adjacency.topo, b)
  IN
  /\ IF ~Distinct(b)        THEN Answer("repeated_pair", topology)
     ELSE IF ~adjacency.ok  THEN Answer("adjacency_refused", adjacency.topo)
     ELSE Answer(IF firelocks.ok THEN "applied" ELSE "firelock_refused", firelocks.topo)
  /\ asked' = Asked(Edges(topology), b) /\ UNCHANGED open

Next == \E n \in 1..MaxBatch : \E b \in [1..n -> Mutations] : ApplyTurfAdjacency(b)

Spec == Init /\ [][Next]_vars

(***************************************************************************)
(* Properties.                                                             *)
(***************************************************************************)
(* The firelock pass never refuses what the adjacency pass took: with no   *)
(* pair twice in a batch, no later mutation takes an edge away that an     *)
(* earlier one connected.                                                  *)
FirelocksFollow == outcome # "firelock_refused"

(* A batch answered with success leaves every pair it names as it asks,    *)
(* firelock included and the same from both ends, and no other pair        *)
(* changed, whatever edges and firelocks there were.                       *)
AppliedAsAsked == outcome = "applied" => Edges(topology) = asked

(***************************************************************************)
(* A premise of the code that does not hold (README, section 4).  No run   *)
(* checks it.                                                              *)
(***************************************************************************)

(* An edge changes only in a request that is answered with success: the    *)
(* comment above the loop of apply_turf_adjacency relies on a service that *)
(* halts at a refused batch and so never serves what one left behind.      *)
ServesWhatItAnswered ==
  [][Edges(topology') # Edges(topology) => outcome' = "applied"]_vars
=============================================================================
