----------------------------- MODULE MCMixtures -----------------------------
(***************************************************************************)
(* Mixture commands and reaction passes on small instances.                *)
(*                                                                         *)
(*   commands  every command on two mixtures of two gases, two in a row    *)
(*             (MixtureCommands)                                           *)
(*   passes    every batch that breaks one registry rule, then two passes  *)
(*             over one mixture (ReactionPass)                             *)
(*                                                                         *)
(* A behaviour belongs to one of the two: a command between two calls of a *)
(* pass is ReactionPass's own Change.                                      *)
(***************************************************************************)
EXTENDS ReactionPass

CONSTANTS
  Handles, Gases, SpecificHeat, Accuracy, MinimumMoles, FloatMax, RevisionMax,
  MinimumTemperature, Ratios, Amounts, Deltas, Temperatures, Heats, Volumes, Capacities,
  InitialMoles, MaxCommands   (* of MixtureCommands *)

VARIABLES part, mix, seen, last, commands   (* the last four of MixtureCommands *)

commandVars == <<mix, seen, last, commands>>
allVars == <<part, commandVars, vars>>

Commands == INSTANCE MixtureCommands

Registry == INSTANCE MCRegistry

(* Values the configuration file cannot spell. *)
MCGasBatches == Registry!MCGasBatches
MCReactionBatches == Registry!MCReactionBatches
MCSpecificHeat == <<1, 1>>
MCRatios == {<<0, 1>>, <<1, 2>>, <<1, 1>>}
MCDeltas == {-5, 1}
MCHeats == {-20, 20}

ASSUME PartsConstants == Commands!MixtureConstants /\ PassAssumption

(* A mixture of the first part starts with or without gas; in the second   *)
(* part they are all alike and stay as they are.                           *)
MCInit ==
  /\ part \in {"commands", "passes"}
  /\ Commands!Init /\ Init
  /\ part = "passes" => \A h \in Handles : mix[h] = Commands!NewRecord

CommandsNext == part = "commands" /\ Commands!Next /\ UNCHANGED <<part, vars>>

PassesNext == part = "passes" /\ Next /\ UNCHANGED <<part, commandVars>>

MCNext == CommandsNext \/ PassesNext

MCSpec == MCInit /\ [][MCNext]_allVars

(* No command creates gas, moving it loses only traces, an immutable       *)
(* mixture never changes, and amounts stay in range (MixtureCommands).     *)
CommandsConserve ==
  /\ Commands!MovesConserve /\ Commands!ImmutableFixed
  /\ []Commands!TypeOK

(* No state computed from an older content is accepted (MixtureCommands). *)
UploadFresh == Commands!UploadFresh

(* A registry is refused exactly when it breaks a rule; a pass runs each   *)
(* reaction at most once, in order, and stages no more events than were    *)
(* reserved (ReactionPass).                                                *)
PassOrdered == RegistryExact /\ OrderedOnce /\ WithinBound
=============================================================================
