----------------------------- MODULE HeatWorker -----------------------------
(***************************************************************************)
(* The heat thread of the in-process backend (src/turfs/superconduct.rs)   *)
(* and the two game calls that start and stop a world around it:           *)
(* auxtools_atmos_init (src/gas/types.rs, hook_init) and dogmos_shutdown   *)
(* (src/lib.rs).  The library outlives a world: the next one meets the     *)
(* flags, the channel and the thread its predecessor left.                 *)
(***************************************************************************)
EXTENDS Integers, Sequences, FiniteSets

CONSTANTS
  SlowPass    (* whether a pass may take longer than the five seconds that  *)
              (* shutdown_turf_heat waits                                   *)

HeatWorkerConstants == SlowPass \in BOOLEAN

Ids == 1..2   (* bound: heat threads whose handle or stack still exists *)
None == 0

VARIABLES
  dogmosShutdown,  (* DOGMOS_SHUTDOWN *)
  heatShutdown,    (* HEAT_SHUTDOWN *)
  channel,         (* HEAT_CHANNEL, room for one message *)
  arenas,          (* which of TURF_HEAT, TURF_GASES and GAS_MIXTURES are there *)
  owner,           (* HEAT_WORKER *)
  running,         (* HEAT_WORKER_RUNNING *)
  worker,          (* where each heat thread stands *)
  main,            (* where the game's thread stands *)
  joining,         (* the handle shutdown_turf_heat took out of HEAT_WORKER *)
  live,            (* a world is initialised and not shut down: history *)
  answered         (* what the last dogmos_shutdown answered: history *)

vars == <<dogmosShutdown, heatShutdown, channel, arenas, owner, running,
          worker, main, joining, live, answered>>

All == {"heat", "turfs", "gases"}

(* A thread leaves its loop, drops the guard of the running flag, ends. *)
Serving  == {"receive", "check", "enter", "pass"}
Finished == {"none", "finished", "panicked"}
Unfinished == {w \in Ids : worker[w] \notin Finished}

(* The library is loaded: the init functions ran, and starting the thread  *)
(* may have failed unnoticed.                                              *)
Init ==
  /\ dogmosShutdown = FALSE /\ heatShutdown = FALSE
  /\ channel = <<>> /\ arenas = All
  /\ running \in BOOLEAN
  /\ owner = IF running THEN 1 ELSE None
  /\ worker = [w \in Ids |-> IF w = owner THEN "receive" ELSE "none"]
  /\ main = "idle" /\ joining = None
  /\ live = FALSE /\ answered = "none"

(***************************************************************************)
(* The heat thread.                                                        *)
(***************************************************************************)
Goes(w, pc) == worker' = [worker EXCEPT ![w] = pc]
OnlyThread == UNCHANGED <<dogmosShutdown, heatShutdown, arenas, owner, main, joining, live, answered>>

Receive(w) ==
  /\ worker[w] = "receive" /\ channel # <<>>
  /\ Goes(w, IF Head(channel) = "Process" THEN "check" ELSE "leave")
  /\ channel' = Tail(channel)
  /\ OnlyThread /\ UNCHANGED running

Check(w) ==
  /\ worker[w] = "check"
  /\ Goes(w, IF heatShutdown THEN "leave" ELSE "enter")
  /\ OnlyThread /\ UNCHANGED <<channel, running>>

(* The arenas are unwrapped; a missing one unwinds through the guard. *)
Enter(w) ==
  /\ worker[w] = "enter"
  /\ IF arenas = All THEN Goes(w, "pass") /\ UNCHANGED running
                     ELSE Goes(w, "panicked") /\ running' = FALSE
  /\ OnlyThread /\ UNCHANGED channel

EndPass(w) ==
  /\ worker[w] = "pass" /\ Goes(w, "receive")
  /\ OnlyThread /\ UNCHANGED <<channel, running>>

DropGuard(w) ==
  /\ worker[w] = "leave" /\ Goes(w, "end")
  /\ running' = FALSE
  /\ OnlyThread /\ UNCHANGED channel

EndThread(w) ==
  /\ worker[w] = "end" /\ Goes(w, "finished")
  /\ OnlyThread /\ UNCHANGED <<channel, running>>

HeatThread(w) ==
  Receive(w) \/ Check(w) \/ Enter(w) \/ EndPass(w) \/ DropGuard(w) \/ EndThread(w)

(***************************************************************************)
(* Calls of the game.                                                      *)
(***************************************************************************)
Continues(pc) == main' = pc

(* process_turf_heat. *)
Notify ==
  /\ main = "idle" /\ ~heatShutdown /\ channel = <<>>
  /\ channel' = <<"Process">>
  /\ UNCHANGED <<dogmosShutdown, heatShutdown, arenas, owner, running, worker,
                 main, joining, live, answered>>

(* hook_init up to the heat flag. *)
BeginWorld ==
  /\ main = "idle" /\ Continues("rearm")
  /\ dogmosShutdown' = FALSE /\ arenas' = All
  /\ channel' = IF "heat" \in arenas THEN channel ELSE <<>>
  /\ live' = FALSE /\ answered' = "none"
  /\ UNCHANGED <<heatShutdown, owner, running, worker, joining>>

Rearm ==
  /\ main = "rearm" /\ Continues("start")
  /\ heatShutdown' = FALSE
  /\ UNCHANGED <<dogmosShutdown, channel, arenas, owner, running, worker, joining, live, answered>>

(* start_heat_worker does nothing under the shutdown flag and keeps a      *)
(* thread that has not finished; otherwise it joins it, takes the running  *)
(* flag and spawns another.                                                *)
Keep == heatShutdown \/ (owner # None /\ owner \in Unfinished)

Initialised(ok) == Continues("idle") /\ live' = ok
MainOnly == UNCHANGED <<dogmosShutdown, heatShutdown, channel, arenas, joining, answered>>

KeepWorker ==
  /\ main = "start" /\ Keep /\ Initialised(TRUE)
  /\ MainOnly /\ UNCHANGED <<owner, running, worker>>

(* The thread is joined: its stack and its handle are gone. *)
Joined(w, state) == IF w = None THEN state ELSE [state EXCEPT ![w] = "none"]

(* Mutant: the running flag alone says whether a thread must be spawned. *)
StartWorkerByFlag(spawned) ==
  /\ main = "start" /\ ~(Keep /\ running)
  /\ MainOnly
  /\ LET w == CHOOSE i \in Ids : worker[i] \in Finished IN
     owner' = w /\ running' = TRUE /\ worker' = [worker EXCEPT ![w] = "receive"]
  /\ Initialised(TRUE)

StartWorker(spawned) ==
  /\ main = "start" /\ ~Keep
  /\ MainOnly
  /\ LET left == Joined(owner, worker)
         w    == CHOOSE i \in Ids : left[i] = "none"
     IN  IF owner # None /\ worker[owner] = "panicked"
           THEN owner' = None /\ worker' = left /\ UNCHANGED running /\ Initialised(FALSE)
         ELSE IF running
           THEN owner' = None /\ worker' = left /\ UNCHANGED running /\ Initialised(TRUE)
         ELSE /\ owner' = IF spawned THEN w ELSE None
              /\ worker' = IF spawned THEN [left EXCEPT ![w] = "receive"] ELSE left
              /\ running' = spawned
              /\ Initialised(spawned)

(* dogmos_shutdown, and shutdown_turf_heat inside it. *)
Returns(answer) == Continues("idle") /\ answered' = answer

(* A call that finds the flag taken answers at once. *)
ShutdownAgain ==
  /\ main = "idle" /\ dogmosShutdown /\ Returns("ok")
  /\ UNCHANGED <<dogmosShutdown, heatShutdown, channel, arenas, owner, running,
                 worker, joining, live>>

(* Mutant: the heat flag is not raised. *)
BeginShutdownByMessage ==
  /\ main = "idle" /\ ~dogmosShutdown /\ Continues("send")
  /\ dogmosShutdown' = TRUE
  /\ live' = FALSE /\ answered' = "none"
  /\ UNCHANGED <<heatShutdown, channel, arenas, owner, running, worker, joining>>

BeginShutdown ==
  /\ main = "idle" /\ ~dogmosShutdown /\ Continues("send")
  /\ dogmosShutdown' = TRUE /\ heatShutdown' = TRUE
  /\ live' = FALSE /\ answered' = "none"
  /\ UNCHANGED <<channel, arenas, owner, running, worker, joining>>

(* try_send gives up on a full channel. *)
SendShutdown ==
  /\ main = "send" /\ Continues("take")
  /\ channel' = IF channel = <<>> THEN <<"Shutdown">> ELSE channel
  /\ UNCHANGED <<dogmosShutdown, heatShutdown, arenas, owner, running, worker,
                 joining, live, answered>>

TakeHandle ==
  /\ main = "take"
  /\ joining' = owner /\ owner' = None
  /\ IF owner # None THEN Continues("wait") /\ UNCHANGED <<arenas, answered>>
     ELSE IF running THEN Returns("error") /\ UNCHANGED arenas
     ELSE Continues("release") /\ arenas' = arenas \ {"heat"} /\ UNCHANGED answered
  /\ UNCHANGED <<dogmosShutdown, heatShutdown, channel, running, worker, live>>

(* The wait, which looks at the thread every millisecond, ends with it. *)
JoinWorker ==
  /\ main = "wait" /\ joining \notin Unfinished
  /\ joining' = None /\ worker' = Joined(joining, worker)
  /\ IF worker[joining] = "panicked"
       THEN Returns("error") /\ UNCHANGED arenas
       ELSE Continues("release") /\ arenas' = arenas \ {"heat"} /\ UNCHANGED answered
  /\ UNCHANGED <<dogmosShutdown, heatShutdown, channel, owner, running, live>>

(* Five seconds have passed, and the thread is still in a pass. *)
GiveUp ==
  /\ SlowPass /\ main = "wait" /\ worker[joining] \in {"enter", "pass"}
  /\ owner' = joining /\ joining' = None /\ Returns("error")
  /\ UNCHANGED <<dogmosShutdown, heatShutdown, channel, arenas, running, worker, live>>

(* shutdown_turfs and shut_down_gases, each after wait_for_tasks: no pass  *)
(* holds TASKS.  Its own five seconds cannot run out, for the thread has   *)
(* been joined.                                                            *)
NoTasks == \A w \in Ids : worker[w] \notin {"enter", "pass"}

ReleaseTurfs ==
  /\ main = "release" /\ NoTasks /\ Continues("release_gases")
  /\ arenas' = arenas \ {"turfs"}
  /\ UNCHANGED <<dogmosShutdown, heatShutdown, channel, owner, running, worker,
                 joining, live, answered>>

ReleaseGases ==
  /\ main = "release_gases" /\ NoTasks /\ Returns("ok")
  /\ arenas' = arenas \ {"gases"}
  /\ UNCHANGED <<dogmosShutdown, heatShutdown, channel, owner, running, worker, joining, live>>

(* The steps of a call once it has begun. *)
CallProceeds ==
  \/ Rearm \/ KeepWorker \/ \E spawned \in BOOLEAN : StartWorker(spawned)
  \/ SendShutdown \/ TakeHandle \/ JoinWorker \/ ReleaseTurfs \/ ReleaseGases

Next ==
  \/ \E w \in Ids : HeatThread(w)
  \/ Notify \/ BeginWorld \/ BeginShutdown \/ ShutdownAgain
  \/ CallProceeds \/ GiveUp

(* Both threads are scheduled; which calls the game makes is its own       *)
(* affair.                                                                 *)
Spec ==
  /\ Init /\ [][Next]_vars
  /\ WF_vars(CallProceeds) /\ \A w \in Ids : WF_vars(HeatThread(w))

(***************************************************************************)
(* Properties.                                                             *)
(***************************************************************************)
(* Two heat threads never exist at once, however worlds begin and end      *)
(* around a thread that is slow to leave (start_heat_worker).              *)
OneThread == Cardinality(Unfinished) <= 1

(* A running thread has its handle where the next shutdown finds it: the   *)
(* error "running without an owned thread handle" is not reachable.        *)
RunningIsOwned == running => None # (IF main = "wait" THEN joining ELSE owner)

(* A pass never unwraps an arena that a shutdown has taken: the thread     *)
(* never panics (with_turf_heat_read, with_turf_gases_read).               *)
PassFindsArenas == \A w \in Ids : worker[w] # "panicked"

(* An initialised world has a heat thread that takes its messages: what a  *)
(* predecessor left in the channel or in the flags does not stop it        *)
(* (prepare_turf_heat_for_world "rearms the worker").                      *)
LiveIsServed == live => owner # None /\ worker[owner] \in Serving

(* A dogmos_shutdown answered with success has stopped the thread and      *)
(* released the arenas, also when it is not the first one.                 *)
ShutdownReleases == answered = "ok" => arenas = {} /\ Unfinished = {}

=============================================================================
