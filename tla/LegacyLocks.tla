---------------------------- MODULE LegacyLocks ----------------------------
(***************************************************************************)
(* The global read-write locks of the in-process backend: which of them    *)
(* every call of the game and every pass of the heat thread holds while it *)
(* asks for another, and where a call hands control back to the game,      *)
(* whose procs may call the library again.  A call is the sequence of its  *)
(* lock operations; what is done under the locks is left out.  The locks   *)
(* of single mixtures and temperatures are left out too, for the heat      *)
(* thread holds none of them while it waits for another, and so are the    *)
(* gas names, which only the game's thread locks.                          *)
(***************************************************************************)
EXTENDS Integers, Sequences

CONSTANTS MaxNested   (* bound: calls the game makes from inside one call *)

LegacyLocksConstants == MaxNested \in Nat

Locks == {"tasks", "heat", "turfs", "gases", "ids", "planets", "reactions", "specific"}
Threads == {"game", "heat_thread"}
Nobody == "nobody"

Op(kind, lock) == [kind |-> kind, lock |-> lock]
Game == <<Op("call", Nobody)>>   (* a proc of the game is called *)
Reading(lock, body) == <<Op("read", lock)>> \o body \o <<Op("free", lock)>>
Writing(lock, body) == <<Op("write", lock)>> \o body \o <<Op("free", lock)>>
Once(lock) == Reading(lock, <<>>)

(***************************************************************************)
(* The calls.                                                              *)
(***************************************************************************)
(* gas_slot_for_mix, with_mix and its kin.  A heat capacity reads the      *)
(* specific heats.                                                         *)
GasSlotForMix == Once("gases")
WithMix == GasSlotForMix \o Reading("gases", Once("specific"))

(* Every free slot is looked up in the turfs while the list is held. *)
ReusableSlot == Once("gases") \o Writing("ids", Once("turfs"))
RegisterMixReuse == ReusableSlot \o Once("gases")
RegisterMixGrow == ReusableSlot \o Writing("gases", Writing("ids", <<>>))

UnregisterMix == GasSlotForMix \o Writing("ids", <<>>)

(* The game is asked should_conduct_to_space before the graph is locked. *)
SupercondUpdateRef == Game \o Writing("heat", <<>>)

(* An upgradable guard keeps everyone out that a writer keeps out, but for *)
(* readers, of which the map has none on another thread.                   *)
PlanetaryAtmos == Writing("planets", Once("gases"))
RegisterTurf == GasSlotForMix \o PlanetaryAtmos \o Writing("turfs", <<>>) \o SupercondUpdateRef
RegisterSpace == GasSlotForMix \o Writing("turfs", <<>>) \o Once("gases")
RegisterClosed == Writing("turfs", <<>>) \o SupercondUpdateRef

(* Mutant: the heat node is removed under the lock of the turfs. *)
RemoveTurfNested == Writing("turfs", Writing("heat", <<>>))

RemoveTurf == Writing("turfs", <<>>) \o Writing("heat", <<>>)

UpdateAdjacency == Writing("turfs", <<>>) \o Writing("heat", <<>>)
TurfTemperature == Once("heat")

(* process_turf: diffusion, then reactions and visuals, then planets. *)
Fdm == Reading("turfs", Reading("gases", Once("specific")))
PostProcess == Reading("turfs", Reading("reactions", Once("gases")))
PlanetProcess == Reading("turfs", Reading("gases", Reading("planets", Once("specific"))))
ProcessTurf == Fdm \o PostProcess \o PlanetProcess
ExcitedGroups == Reading("turfs", Reading("gases", Once("specific")))
Equalize == Reading("turfs", Reading("gases", Once("specific")))

(* Queued callbacks, run on the game's thread: the turfs are read, then    *)
(* released before the firelocks and the floors are left to the game.      *)
(* Under the lock only get_dir_multiz is called, which computes a          *)
(* direction.                                                              *)
ExplosivelyDepressurize ==
  Once("turfs") \o Reading("turfs", Once("gases")) \o Game
                \o Reading("turfs", Once("gases")) \o Game

PlanetEqualize == Once("turfs") \o Reading("turfs", Once("gases")) \o Game
React == GasSlotForMix \o Reading("gases", Once("reactions")) \o Game
UpdateVisuals == GasSlotForMix \o Once("gases") \o Game

UpdateReactions == Writing("reactions", <<>>)
RegisterGas == Writing("specific", <<>>)

GameCalls ==
  {WithMix, RegisterMixReuse, RegisterMixGrow, UnregisterMix, RegisterTurf, RegisterSpace,
   RegisterClosed, RemoveTurf, UpdateAdjacency, TurfTemperature, ProcessTurf, ExcitedGroups,
   Equalize, ExplosivelyDepressurize, PlanetEqualize, React, UpdateVisuals,
   UpdateReactions, RegisterGas}

(* One turn of the heat thread's loop. *)
HeatPass ==
  Reading("tasks", Reading("heat", Reading("turfs", Reading("gases", Once("specific")))))

(***************************************************************************)
(* The locks and the threads.                                              *)
(***************************************************************************)
VARIABLES
  code,     (* what each thread has left to do *)
  readers,  (* how often each thread reads each lock *)
  writer,   (* who has the writer's bit of each lock *)
  nested    (* calls made from inside the game's current one *)

vars == <<code, readers, writer, nested>>

Init ==
  /\ code = [t \in Threads |-> <<>>]
  /\ readers = [l \in Locks |-> [t \in Threads |-> 0]]
  /\ writer = [l \in Locks |-> Nobody]
  /\ nested = 0

At(t, kind) == code[t] # <<>> /\ Head(code[t]).kind = kind
Lock(t) == Head(code[t]).lock
Holds(t, l) == readers[l][t] > 0 \/ writer[l] = t
Done(t) == code' = [code EXCEPT ![t] = Tail(@)]

(* The lock lets no reader in once a writer waits. *)
Read(t) ==
  /\ At(t, "read") /\ writer[Lock(t)] = Nobody
  /\ readers' = [readers EXCEPT ![Lock(t)][t] = @ + 1]
  /\ Done(t) /\ UNCHANGED <<writer, nested>>

(* A writer takes the bit, then waits for the readers to leave. *)
Write(t) ==
  /\ At(t, "write") /\ writer[Lock(t)] = Nobody
  /\ writer' = [writer EXCEPT ![Lock(t)] = t]
  /\ code' = [code EXCEPT ![t] = <<Op("drain", Lock(t))>> \o Tail(@)]
  /\ UNCHANGED <<readers, nested>>

Drain(t) ==
  /\ At(t, "drain") /\ \A u \in Threads : readers[Lock(t)][u] = 0
  /\ Done(t) /\ UNCHANGED <<readers, writer, nested>>

Free(t) ==
  /\ At(t, "free")
  /\ IF writer[Lock(t)] = t
       THEN writer' = [writer EXCEPT ![Lock(t)] = Nobody] /\ UNCHANGED readers
       ELSE readers' = [readers EXCEPT ![Lock(t)][t] = @ - 1] /\ UNCHANGED writer
  /\ Done(t) /\ UNCHANGED nested

LockStep(t) == Read(t) \/ Write(t) \/ Drain(t) \/ Free(t)

(* A proc of the game returns, or first makes a call of its own. *)
GameReturns(t) == At(t, "call") /\ Done(t) /\ UNCHANGED <<readers, writer, nested>>

GameCallsAgain(t, call) ==
  /\ At(t, "call") /\ nested < MaxNested /\ nested' = nested + 1
  /\ code' = [code EXCEPT ![t] = call \o Tail(@)]
  /\ UNCHANGED <<readers, writer>>

BeginCall(call) ==
  /\ code["game"] = <<>> /\ nested' = 0
  /\ code' = [code EXCEPT !["game"] = call]
  /\ UNCHANGED <<readers, writer>>

BeginPass ==
  /\ code["heat_thread"] = <<>>
  /\ code' = [code EXCEPT !["heat_thread"] = HeatPass]
  /\ UNCHANGED <<readers, writer, nested>>

Next ==
  \/ \E t \in Threads : LockStep(t)
  \/ GameReturns("game")
  \/ \E call \in GameCalls : GameCallsAgain("game", call) \/ BeginCall(call)
  \/ BeginPass

Spec == Init /\ [][Next]_vars

(***************************************************************************)
(* Properties.                                                             *)
(***************************************************************************)
(* No thread asks for a lock it holds, not even to read what it reads:     *)
(* with a writer waiting in between it would wait for itself (the comment  *)
(* above with_gas_mixtures_mut_in).  The procs of the game that a call     *)
(* runs may call anything.                                                 *)
AsksOnce ==
  \A t \in Threads : At(t, "read") \/ At(t, "write") => ~Holds(t, Lock(t))

(* The heat thread and a call of the game never wait for each other, nor   *)
(* does either wait for itself: whatever locks they hold, one of them can  *)
(* go on.                                                                  *)
Waits(t) ==
  \/ (At(t, "read") \/ At(t, "write")) /\ writer[Lock(t)] # Nobody
  \/ At(t, "drain") /\ \E u \in Threads : readers[Lock(t)][u] > 0

NoCircle == (\E t \in Threads : Waits(t)) => \E t \in Threads : code[t] # <<>> /\ ~Waits(t)
=============================================================================
