------------------------------ MODULE MCStages ------------------------------
(***************************************************************************)
(* The stage engine and the storage it works in, on small instances.       *)
(*                                                                         *)
(*   gas         ProcessTurfs and React over three turfs in a row          *)
(*   components  Equalize and ExcitedGroups over two components, no        *)
(*               reaction suspended                                        *)
(*   heat        TurfHeat over two turfs that conduct to each other        *)
(*   index       SlotIndex, until its epoch has run out twice              *)
(*   arena       IndexedTransaction for worlds of up to three slots        *)
(*                                                                         *)
(* The five share no state, so each behaviour belongs to one part: running *)
(* them side by side would only interleave steps that commute.             *)
(***************************************************************************)
EXTENDS StagePublication, TLC

RowHome == ("t1" :> "m1") @@ ("t2" :> "m2") @@ ("t3" :> "m3")
RowEdges == ("t1" :> {"t2"}) @@ ("t2" :> {"t1", "t3"}) @@ ("t3" :> {"t2"})
RowFrontiers == {<<"t1">>, <<"t2", "t3">>}

(* Two turfs joined, the third apart. *)
SplitEdges == ("t1" :> {"t2"}) @@ ("t2" :> {"t1"}) @@ ("t3" :> {})
SplitFrontiers == {<<"t1", "t2", "t3">>, <<"t3", "t1">>}

(* Publications of the first part, of which each stage takes one. *)
MaxRowTokens == 2

VARIABLES
  part,       (* the part this behaviour belongs to *)
  heatMem, heatUsed, heatStage, heatActive, written,
  entries, epoch, touched,
  slotToIndex, touchedBits, candidates, maxEntries, retired

heatVars == <<heatMem, heatUsed, heatStage, heatActive, written>>
indexVars == <<entries, epoch, touched>>
arenaVars == <<slotToIndex, touchedBits, candidates, maxEntries, retired>>
allVars == <<part, vars, heatVars, indexVars, arenaVars>>

Components == INSTANCE StagePublication WITH
  Immutable <- {}, GasNeighbors <- SplitEdges, Frontiers <- SplitFrontiers,
  Kinds <- {"Equalize", "ExcitedGroups"}

Heat == INSTANCE HeatStage WITH
  Turfs <- {"t1", "t2"}, Mixtures <- {"m1", "m2"}, NoMixture <- "none",
  Home <- ("t1" :> "m1") @@ ("t2" :> "m2"),
  HeatNeighbors <- ("t1" :> {"t2"}) @@ ("t2" :> {"t1"}),
  Frontiers <- {<<"t1">>, <<"t2", "t1">>}, MaxTokens <- 2, MaxWrites <- 1,
  mem <- heatMem, used <- heatUsed, stage <- heatStage

Index == INSTANCE SlotIndex WITH
  Slots <- {0, 1, 2}, Generations <- {1, 2}, Values <- {"a", "b"}, NoValue <- "none",
  EpochMax <- 3

Arena == INSTANCE Transaction WITH
  MaxSlots <- 3, Generations <- {1, 2}, Values <- {"a", "b"}, NoValue <- "none",
  MaxEntries <- 3, entries <- candidates

ASSUME PartsConstants ==
  /\ StageConstants /\ Components!StageConstants
  /\ Heat!HeatConstants /\ Index!SlotIndexConstants /\ Arena!TransactionConstants

MCInit ==
  /\ part \in {"gas", "components", "heat", "index", "arena"}
  /\ Init /\ Heat!Init /\ Index!Init /\ Arena!Init

StageStep ==
  \/ part = "gas" /\ StageItem
  \/ part = "components" /\ Components!StageItem

GasNext ==
  /\ \/ part = "gas" /\ Next /\ used' <= MaxRowTokens
     \/ part = "components" /\ Components!Next /\ UNCHANGED suspended
  /\ UNCHANGED <<part, heatVars, indexVars, arenaVars>>

HeatNext ==
  /\ part = "heat" /\ Heat!Next
  /\ UNCHANGED <<part, vars, indexVars, arenaVars>>

IndexNext ==
  /\ part = "index" /\ Index!Next
  /\ UNCHANGED <<part, vars, heatVars, arenaVars>>

ArenaNext ==
  /\ part = "arena" /\ Arena!Next
  /\ UNCHANGED <<part, vars, heatVars, indexVars>>

MCNext == GasNext \/ HeatNext \/ IndexNext \/ ArenaNext

(* The game's master controller calls for chunks until a stage is done. *)
MCSpec ==
  /\ MCInit /\ [][MCNext]_allVars
  /\ WF_allVars(StageStep /\ UNCHANGED <<part, heatVars, indexVars, arenaVars>>)

(* Heat list and indexes are inverse, as published and as staged, no       *)
(* command is lost to a heat stage, and nothing of a heat stage shows      *)
(* before it commits (HeatStage).                                          *)
HeatStagesSound ==
  /\ [](Heat!HeatListExact /\ Heat!StagedListExact /\ Heat!WritesKept)
  /\ Heat!HeatStageInvisible

(* The epoch-stamped index and the scratch arena behave as maps from       *)
(* handles, and list exactly the slots a lookup finds something in         *)
(* (SlotIndex, Transaction).                                               *)
StorageIsMap ==
  /\ Index!MapSpec /\ Arena!MapSpec
  /\ [](Index!TouchedExact /\ Arena!IndexExact)
=============================================================================
