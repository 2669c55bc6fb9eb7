------------------------------ MODULE MCLegacy ------------------------------
(***************************************************************************)
(* The in-process backend on small instances.                              *)
(*                                                                         *)
(*   slow     worlds around a heat thread whose pass may outlast the wait  *)
(*   quick    the same with passes that end in time                        *)
(*   locks    calls of the game, nested twice, against a heat pass         *)
(*   slots    three mixture objects and two turfs over five slots; the     *)
(*            property is GasArena's own SlotsSound                        *)
(*   channel  one worker thread and the main thread over a queue of two    *)
(*            callbacks and three bytes                                    *)
(*                                                                         *)
(* The mechanisms share no state that any of them looks at, so each        *)
(* behaviour belongs to one of them.                                       *)
(***************************************************************************)
EXTENDS GasArena

CONSTANTS
  MaxNested,                                                (* of LegacyLocks *)
  Senders, Sizes, MaxItems, MaxBytes, MaxQueued, MaxWorlds  (* of CallbackChannel *)

VARIABLES
  part,
  dogmosShutdown, heatShutdown, heatChannel, arenas, owner, running, worker, game,
  joining, live, answered,
  code, readers, writer, nested,
  state, lock, queue, bytes, failed, counts, main, item, refused, ran, late, offered, world

heatVars == <<dogmosShutdown, heatShutdown, heatChannel, arenas, owner, running, worker,
              game, joining, live, answered>>
lockVars == <<code, readers, writer, nested>>
channelVars == <<state, lock, queue, bytes, failed, counts, main, item, refused, ran,
                 late, offered, world>>
allVars == <<part, heatVars, lockVars, vars, channelVars>>

Slow == INSTANCE HeatWorker WITH SlowPass <- TRUE, channel <- heatChannel, main <- game
Quick == INSTANCE HeatWorker WITH SlowPass <- FALSE, channel <- heatChannel, main <- game
Locks == INSTANCE LegacyLocks
Channel == INSTANCE CallbackChannel

ASSUME PartsConstants ==
  /\ Slow!HeatWorkerConstants /\ Quick!HeatWorkerConstants
  /\ Locks!LegacyLocksConstants /\ GasArenaConstants /\ Channel!ChannelAssumption

MCInit ==
  /\ part \in {"slow", "quick", "locks", "slots", "channel"}
  /\ Slow!Init /\ Locks!Init /\ Init /\ Channel!Init
  /\ part \notin {"slow", "quick"} => running

HeatNext ==
  /\ \/ part = "slow" /\ Slow!Next
     \/ part = "quick" /\ Quick!Next
  /\ UNCHANGED <<part, lockVars, vars, channelVars>>

LocksNext == part = "locks" /\ Locks!Next /\ UNCHANGED <<part, heatVars, vars, channelVars>>

SlotsNext == part = "slots" /\ Next /\ UNCHANGED <<part, heatVars, lockVars, channelVars>>

ChannelNext ==
  part = "channel" /\ Channel!Next /\ UNCHANGED <<part, heatVars, lockVars, vars>>

MCNext == HeatNext \/ LocksNext \/ SlotsNext \/ ChannelNext

(* Threads are scheduled, and the game calls the hook of its callbacks     *)
(* again and again; whatever else it calls is its own affair.              *)
Fairness ==
  /\ WF_heatVars(part = "quick" /\ Quick!CallProceeds)
  /\ \A w \in Quick!Ids : WF_heatVars(part = "quick" /\ Quick!HeatThread(w))
  /\ WF_channelVars(part = "channel" /\ \E timed \in BOOLEAN : Channel!Hook(timed))
  /\ WF_channelVars(part = "channel" /\ Channel!DrainStep)
  /\ WF_channelVars(part = "channel" /\ \E p \in Channel!Producers : Channel!Send(p))

MCSpec == MCInit /\ [][MCNext]_allVars /\ Fairness

(* Two heat threads never exist at once, a running one has its handle in   *)
(* its place and never meets an arena that was taken; with passes that end *)
(* in time a live world is served and a shutdown that succeeded has        *)
(* released everything (HeatWorker).                                       *)
HeatThreadSound ==
  /\ Slow!OneThread /\ Slow!RunningIsOwned /\ Slow!PassFindsArenas
  /\ part = "quick" => Quick!LiveIsServed /\ Quick!ShutdownReleases

(* No thread asks for a lock it holds, and game and heat thread never wait *)
(* for each other (LegacyLocks).                                           *)
LocksSound == Locks!AsksOnce /\ Locks!NoCircle

(* The accounted bytes are those of the callbacks there are, both limits   *)
(* hold, callbacks run once, in order and in their own world, and after an *)
(* overflow at most the one the drain had already passed (CallbackChannel).*)
ChannelSound ==
  /\ Channel!BytesExact /\ Channel!Bounded
  /\ Channel!RunInOrder /\ Channel!FatalLatched

(* dogmos_shutdown returns (HeatWorker), and every accepted callback is    *)
(* run, unless the world ends or the queue fails (CallbackChannel).        *)
LegacyEnds ==
  /\ (part = "quick" /\ game = "send") ~> (game = "idle")
  /\ Channel!AcceptedRun
=============================================================================
