------------------------------ MODULE MCLifecycle ------------------------------
(***************************************************************************)
(* The registered world on four small instances, and the adjacency request *)
(* of the service over it.                                                 *)
(*                                                                         *)
(*   reassign  two mixtures and two turfs; only whole batches: Lifecycle   *)
(*             itself, with its own HandlesCurrent and GraphFresh          *)
(*   handles   one mixture and two turfs with two generations each         *)
(*   edges     three turfs with room for one neighbour                     *)
(*   replace   two mixtures of two generations, replaced while they live,  *)
(*             and batches that fail half-way                              *)
(*   batch     three turfs with room for two neighbours (TurfBatch)        *)
(*                                                                         *)
(* Each behaviour belongs to one of them.  The three middle ones are about *)
(* a world of their own: a client that replaces live mixtures breaks what  *)
(* the first may rely on.                                                  *)
(***************************************************************************)
EXTENDS Lifecycle

CONSTANTS BatchSlots, BatchNeighbors, MaxBatch  (* of TurfBatch *)

VARIABLES
  part,
  otherMixtures, otherTurfs, otherHeat, otherOwned, otherTopology, otherEdges,
  otherMixtureEdges, otherGraph, otherStaging,
  open, rows, outcome, asked   (* of TurfBatch; rows is its topology *)

otherVars == <<otherMixtures, otherTurfs, otherHeat, otherOwned, otherTopology,
               otherEdges, otherMixtureEdges, otherGraph, otherStaging>>
batchVars == <<open, rows, outcome, asked>>
allVars == <<part, vars, otherVars, batchVars>>

Handles == INSTANCE Lifecycle WITH
  MixtureSlots <- {1}, TurfSlots <- {1, 2}, MaxGeneration <- 2, MaxTurfNeighbors <- 2,
  RevisionWrap <- 6, ReplacesLive <- FALSE, FailingBatches <- FALSE,
  mixtures <- otherMixtures, turfs <- otherTurfs, heatActive <- otherHeat,
  mixtureTurfs <- otherOwned, topology <- otherTopology, edges <- otherEdges,
  mixtureEdges <- otherMixtureEdges, graph <- otherGraph, staging <- otherStaging

Edges == INSTANCE Lifecycle WITH
  MixtureSlots <- {1}, TurfSlots <- {1, 2, 3}, MaxGeneration <- 1, MaxTurfNeighbors <- 1,
  RevisionWrap <- 1, ReplacesLive <- FALSE, FailingBatches <- FALSE,
  mixtures <- otherMixtures, turfs <- otherTurfs, heatActive <- otherHeat,
  mixtureTurfs <- otherOwned, topology <- otherTopology, edges <- otherEdges,
  mixtureEdges <- otherMixtureEdges, graph <- otherGraph, staging <- otherStaging

Replace == INSTANCE Lifecycle WITH
  MixtureSlots <- {1, 2}, TurfSlots <- {1}, MaxGeneration <- 2, MaxTurfNeighbors <- 1,
  RevisionWrap <- 4, ReplacesLive <- TRUE, FailingBatches <- TRUE,
  mixtures <- otherMixtures, turfs <- otherTurfs, heatActive <- otherHeat,
  mixtureTurfs <- otherOwned, topology <- otherTopology, edges <- otherEdges,
  mixtureEdges <- otherMixtureEdges, graph <- otherGraph, staging <- otherStaging

Batch == INSTANCE TurfBatch WITH
  TurfSlots <- BatchSlots, MaxTurfNeighbors <- BatchNeighbors, topology <- rows

ASSUME PartsConstants ==
  /\ LifecycleConstants /\ Handles!LifecycleConstants /\ Edges!LifecycleConstants
  /\ Replace!LifecycleConstants /\ Batch!BatchConstants

MCInit ==
  /\ part \in {"reassign", "handles", "edges", "replace", "batch"}
  /\ Init
  /\ IF part = "edges" THEN Edges!Init ELSE IF part = "replace" THEN Replace!Init ELSE Handles!Init
  /\ Batch!Init
  /\ part # "batch" => open = {}

ReassignNext == part = "reassign" /\ Next /\ UNCHANGED <<part, otherVars, batchVars>>

OtherNext ==
  /\ \/ part = "handles" /\ Handles!Next
     \/ part = "edges" /\ Edges!Next
     \/ part = "replace" /\ Replace!Next
  /\ UNCHANGED <<part, vars, batchVars>>

BatchNext == part = "batch" /\ Batch!Next /\ UNCHANGED <<part, vars, otherVars>>

MCNext == ReassignNext \/ OtherNext \/ BatchNext

MCSpec == MCInit /\ [][MCNext]_allVars

(* The same for turfs that are registered anew, for rows as long as their  *)
(* array and for mixtures replaced while they live (Lifecycle): indexes,   *)
(* heat list and edges agree with the registered turfs, and their types.   *)
TurfsExact ==
  /\ part = "handles" => Handles!TypeOK /\ Handles!HandlesCurrent
  /\ part = "edges" => Edges!HandlesCurrent
  /\ part = "replace" => Replace!HandlesCurrent

(* The firelock pass takes what the adjacency pass took, and an accepted   *)
(* batch leaves what it asked for (TurfBatch).                             *)
BatchApplied == Batch!FirelocksFollow /\ Batch!AppliedAsAsked

(* A stage sees turfs, heat and edges that stay as they are, and would     *)
(* recognise a changed neighbour row by the topology's revision            *)
(* (Lifecycle).                                                            *)
StageSeesFixedWorld ==
  [][part = "handles" =>
       /\ Handles!FixedUnderStage
       /\ otherTopology'.near # otherTopology.near
            => otherTopology'.revision # otherTopology.revision]_allVars
=============================================================================
