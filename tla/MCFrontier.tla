----------------------------- MODULE MCFrontier -----------------------------
(***************************************************************************)
(* The frontier on a small instance: two slots under two generations,      *)
(* batches of two, four epochs of incremental changes.  The constraint     *)
(* keeps uploads to the first epochs, so that an upload can be cancelled   *)
(* by a newer one, and lets only slot 0 be registered under the second     *)
(* generation; a removal followed by an addition and another removal, the  *)
(* shortest history that compacts and renumbers, has the epochs it needs.  *)
(***************************************************************************)
EXTENDS Frontier

CONSTANT MaxUploadEpoch   \* bound: the newest epoch a full upload is begun for

Workload ==
  /\ uploadEpoch <= MaxUploadEpoch
  /\ \A s \in Slots \ {0} : turfGeneration[s] <= 1
=============================================================================
