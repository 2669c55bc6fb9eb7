------------------------------ MODULE MCTraffic ------------------------------
(***************************************************************************)
(* What travels between the game and the service, on small instances.      *)
(*                                                                         *)
(*   wire    one payload of any kind and its decoding (WireFormat)         *)
(*   lists   one answer to the game and the call made with it (DmBridge)   *)
(*   upload  three calls of the batch proc (StateUpload); the property is  *)
(*           its own UploadWhole                                           *)
(*                                                                         *)
(* Each behaviour belongs to one of them: the codecs keep no state.        *)
(***************************************************************************)
EXTENDS StateUpload

VARIABLES
    part,
    kind, sent, wire, altered, received,
    answer, told, proc, written, lists, changed

wireVars == <<kind, sent, wire, altered, received>>
listVars == <<answer, told, proc, written, lists, changed>>
allVars == <<part, wireVars, listVars, vars>>

Wire == INSTANCE WireFormat WITH
    MaxOps <- 2, MaxGas <- 2, MaxPayload <- 2, MaxLimit <- 2, MaxText <- 2, MaxAltered <- 1,
    Kinds <- {"frame", "handshake", "error", "frontier_begin", "frontier_append",
              "frontier_mutate", "frontier_committed", "callback", "callback_request",
              "resume", "snapshot", "snapshots", "handles", "states", "upload_begin",
              "upload_id", "upload_end", "upload_append", "adjust", "continuation_adjust",
              "lifecycle", "turfs", "edges", "heat_edges", "adjacency", "heat_snapshot",
              "heat", "command", "continuation_command", "answer", "stage",
              "stage_response", "telemetry", "gases", "reactions"}

Bridge == INSTANCE DmBridge WITH
    WordBits <- 6, Precision <- 8, MaxRecords <- 2, MaxGas <- 2, MaxEvents <- 64,
    MaxLimit <- 64, MaxAltered <- 2, altered <- changed,
    Procs <- {"drain", "resume", "cancel", "command", "continuation_command", "adjust",
              "continuation_adjust", "lifecycle", "handles", "handle", "states", "turfs",
              "edges", "heat_edges", "heat", "frontier_begin", "frontier_append",
              "frontier_mutate", "frontier_commit", "stage", "gases", "reactions"}

(* What DreamMaker sends: contents kept as sent, contents that are nothing *)
(* but traces, and contents that are refused.                              *)
MCValid == {"air", "traces"}
MCValues == MCValid \cup {"negative"}
MCTraceless == [v \in MCValid |-> IF v = "traces" THEN "vacuum" ELSE v]

ASSUME PartsConstants == Bridge!PrecisionAssumption /\ UploadAssumption

MCInit ==
    /\ part \in {"wire", "lists", "upload"}
    /\ Wire!Init /\ Bridge!Init /\ Init

WireNext == part = "wire" /\ Wire!Next /\ UNCHANGED <<part, listVars, vars>>

ListsNext == part = "lists" /\ Bridge!Next /\ UNCHANGED <<part, wireVars, vars>>

UploadNext == part = "upload" /\ Next /\ UNCHANGED <<part, wireVars, listVars>>

MCNext == WireNext \/ ListsNext \/ UploadNext

MCSpec == MCInit /\ [][MCNext]_allVars

\* What is sent is understood as it was meant, and no altered payload passes for a
\* message (WireFormat).
WireExact == Wire!SentUnderstood /\ Wire!StrictDecoding

\* An identifier survives the trip through the game's numbers, different answers
\* reach the game as different numbers, and lists that differ are not sent as the
\* same request (DmBridge).
ListsExact == Bridge!IdentifierReturns /\ Bridge!AnswersTold /\ Bridge!ReadInFull
=============================================================================
