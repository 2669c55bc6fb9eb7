----------------------------- MODULE MCCallbacks -----------------------------
(***************************************************************************)
(* The callback queues with two clients.                                   *)
(*                                                                         *)
(*   replacing  re-registers mixtures and turfs that are still registered  *)
(*   orderly    unregisters first; two reactions may be suspended          *)
(***************************************************************************)
EXTENDS Callbacks

VARIABLE part

allVars == <<part, vars>>

Orderly == INSTANCE Callbacks WITH
  Generations <- {1}, MaxContinuations <- 2, MaxSlots <- 2, MaxNow <- 2,
  ClientReplaces <- FALSE

MCInit ==
  \/ part = "replacing" /\ ServiceInit
  \/ part = "orderly" /\ Orderly!ServiceInit

MCNext ==
  /\ \/ part = "replacing" /\ ServiceNext
     \/ part = "orderly" /\ Orderly!ServiceNext
  /\ UNCHANGED part

MCSpec == MCInit /\ [][MCNext]_allVars
=============================================================================
