------------------------------ MODULE MCService ------------------------------
(***************************************************************************)
(* The session between the shim and dogmosd, and what must end in it.      *)
(*                                                                         *)
(*   calls      up to three calls of any kind, with timeouts and errors    *)
(*   strays     two calls while two other processes open the socket        *)
(*   deadlines  suspended reactions a client never answers (Callbacks)     *)
(*   passes     a reaction pass that is suspended twice (ReactionPass)     *)
(*                                                                         *)
(* Each behaviour belongs to one of them.  A session transports requests   *)
(* whatever they are about, so the last two are not composed with it.      *)
(***************************************************************************)
EXTENDS Session, MCRegistry

CONSTANT mixture

VARIABLES
  part,
  mixtures, turfs, slots, free, stage, issued, events, pending, general, reactions, count,
  nextSequence, nextContinuation, nextTransaction, now, alive, known, lastGeneral, refused,
  replaced,
  gases, registered, lastBatch, reacting, suspended, staged, call, passes

callbackVars == <<mixtures, turfs, slots, free, stage, issued, events, pending, general,
                  reactions, count, nextSequence, nextContinuation, nextTransaction, now,
                  alive, known, lastGeneral, refused, replaced>>
passVars == <<gases, registered, lastBatch, reacting, suspended, staged, call, passes>>
allVars == <<part, vars, callbackVars, passVars>>

(* The operations and the number of calls in the two parts of Session. *)
CallOps == {"echo", "drain", "command", "telemetry", "shutdown"}
StrayOps == {"batch", "command", "shutdown"}
MaxStrayCalls == 2

Deadlines == INSTANCE Callbacks WITH
  Mixtures <- {0}, Turfs <- {0}, Generations <- {1}, MaxContinuations <- 2,
  MaxGeneration <- 2, MaxSlots <- 2, MaxCallbacks <- 2, MaxTransactions <- 1, Timeout <- 1,
  MaxNative <- 0, MaxNow <- 2, MaxIds <- 2, MaxSequence <- 2, ClientReplaces <- FALSE

Passes == INSTANCE ReactionPass WITH
  MaxGasSlots <- 5, BurnScale <- 2, F32Exact <- 3, F32Max <- 8, Mixtures <- {mixture},
  GasBatches <- AirOnly, ReactionBatches <- FiresOnly, MaxMoles <- 1, MinimumCalculated <- 1,
  Supplied <- 0 .. 4, MaxTemperature <- 1,
  MaxRevision <- 2, MaxEvents <- 3, Overflows <- FALSE, Limits <- {1, 3}, MaxPasses <- 1,
  reactions <- registered, mixtures <- reacting, continuations <- suspended, events <- staged

ASSUME PartsConstants == SessionAssumption /\ Passes!PassAssumption

MCInit ==
  /\ part \in {"calls", "strays", "deadlines", "passes"}
  /\ Init /\ Deadlines!ServiceInit /\ Passes!Init

SessionNext ==
  /\ Next
  /\ \/ /\ part = "calls" /\ main'.op \in CallOps \cup {"none"}
        /\ \A c \in Strays : pipe'[c].state = "unused"
     \/ /\ part = "strays" /\ main'.op \in StrayOps \cup {"none"}
        /\ main'.call <= MaxStrayCalls
  /\ UNCHANGED <<part, callbackVars, passVars>>

DeadlinesNext ==
  part = "deadlines" /\ Deadlines!ServiceNext /\ UNCHANGED <<part, vars, passVars>>

PassesNext == part = "passes" /\ Passes!Next /\ UNCHANGED <<part, vars, callbackVars>>

MCNext == SessionNext \/ DeadlinesNext \/ PassesNext

(* The fairness of each part (see its module). *)
DeadlinesFairness ==
  /\ WF_callbackVars(part = "deadlines" /\ Deadlines!Tick)
  /\ WF_callbackVars(part = "deadlines" /\ \E max \in 1..2 : Deadlines!DrainGeneral(max))

PassesFairness ==
  /\ WF_passVars(part = "passes" /\ Passes!CallStep)
  /\ SF_passVars(part = "passes" /\ Passes!Drain)
  /\ SF_passVars(part = "passes" /\ Passes!ResumeDrained(1))

MCSpec ==
  /\ MCInit /\ [][MCNext]_allVars
  /\ Fairness /\ DeadlinesFairness /\ PassesFairness

(* Without other processes on the socket every call returns; a poisoned or *)
(* closed client's worker thread ends (Session).                           *)
CallsEnd ==
  /\ (part = "calls" /\ main.pc \in {"connecting", "await", "reap"})
       ~> main.pc \in {"idle", "down"}
  /\ WorkerStops

(* Every continuation ends, answered or not (Callbacks), and a suspended   *)
(* pass that is resumed again and again ends (ReactionPass).               *)
ReactionsEnd == Deadlines!ContinuationsEnd /\ Passes!PassEnds
=============================================================================
