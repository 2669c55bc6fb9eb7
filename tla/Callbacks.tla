------------------------------ MODULE Callbacks ------------------------------
(***************************************************************************)
(* Callback queues and continuation tokens of dogmosd (dogmos-server       *)
(* state.rs) on top of the core's reaction continuations.  A reaction or a *)
(* stage leaves events in the core; the service publishes them to a bounded*)
(* general queue or to the queue of a reaction transaction, wraps every    *)
(* suspended reaction in a continuation id with a deadline, and the client *)
(* drains the queues and resumes or cancels what it was handed.            *)
(*                                                                         *)
(* One request is one step: the service handles requests one at a time.  A *)
(* rejected request is a step only when it changes state.  Transaction 0   *)
(* is the general scope, continuation id 0 a plain event.                  *)
(***************************************************************************)
EXTENDS Continuations

CONSTANTS
  MaxCallbacks,       \* max_callback_events
  MaxTransactions,    \* max_reaction_transactions
  Timeout,            \* DEFAULT_CONTINUATION_TIMEOUT_TICKS
  MaxNative,          \* bound: most native events one evaluation produces
  MaxNow,             \* bound: last tick
  MaxIds,             \* bound: last continuation id and last transaction id
  MaxSequence,        \* bound: last callback sequence number (u64::MAX in the code)
  ClientReplaces      \* TRUE: the client may re-register a live mixture or turf

ASSUME ServiceAssumption == /\ MaxCallbacks \in Nat
                            /\ MaxTransactions \in Nat
                            /\ Timeout \in Nat \ {0}
                            /\ MaxNative \in Nat
                            /\ MaxNow \in Nat
                            /\ MaxIds \in Nat
                            /\ MaxSequence \in Nat
                            /\ ClientReplaces \in BOOLEAN

\* Option::None is not a continuation token.
ASSUME TokenAssumption == None \notin Nat \X Nat

VARIABLES
  events,             \* DogmosWorld.events not yet published
  pending,            \* pending_continuations
  general,            \* general_callbacks
  reactions,          \* reaction_callbacks: transaction -> queue, next, complete
  count,              \* pending_callback_count
  nextSequence, nextContinuation, nextTransaction,
  now,                \* current_ticks()
  alive,              \* FALSE once an error has ended the session
  known,              \* continuation ids the client has received
  lastGeneral,        \* history: last general sequence number drained
  refused,            \* history: the shim refused a drained batch
  replaced            \* history: a live slot was registered again under a suspended reaction

queueVars == <<events, pending, general, reactions, count, nextSequence, nextContinuation>>
clientVars == <<known, lastGeneral, refused, replaced>>
vars == <<coreVars, queueVars, nextTransaction, now, alive, clientVars>>

(***************************************************************************)
(* Operators                                                               *)
(***************************************************************************)

PlainEvent == [token |-> None, turf |-> None, mixture |-> None]

Plain(n) == [i \in 1..n |-> PlainEvent]

RunDmReaction(c, token) == <<[token |-> token, turf |-> c.turf, mixture |-> c.mixture]>>

Smaller(a, b) == IF a < b THEN a ELSE b

\* Where callbacks of reaction transactions are queued: transaction and position.
Positions(transactions) ==
  UNION {{t} \X DOMAIN transactions[t].queue : t \in DOMAIN transactions}

\* The number of queued callbacks over both scopes.
Depth(queue, transactions) == Len(queue) + Cardinality(Positions(transactions))

\* Retain the callbacks whose continuation, if they carry one, is in ids.
Retained(queue, ids) ==
  LET kept[n \in 0..Len(queue)] ==
        IF n = 0 THEN <<>>
        ELSE IF queue[n].id = 0 \/ queue[n].id \in ids THEN Append(kept[n - 1], queue[n])
        ELSE kept[n - 1]
  IN  kept[Len(queue)]

RetainedAll(transactions, ids) ==
  [t \in DOMAIN transactions |->
     [transactions[t] EXCEPT !.queue = Retained(transactions[t].queue, ids)]]

Ids(entries) == {p.id : p \in entries}

WithoutTransactions(transactions, gone) ==
  [t \in DOMAIN transactions \ gone |-> transactions[t]]

\* remove_orphaned_reaction_transactions: incomplete, and no continuation left.
Orphans(transactions, entries) ==
  {t \in DOMAIN transactions : ~transactions[t].complete /\ t \notin {p.tx : p \in entries}}

EventLimit == MaxCallbacks - count

\* The core's capacity check before it keeps n more events.
Fits(n) == Len(events) + n <= Smaller(MaxCallbacks, EventLimit)

\* Mutant: a batch is numbered from the depth of the queue.
FirstSequenceFromDepth(tx, transactions) ==
  IF tx = 0 THEN Len(general) + 1 ELSE transactions[tx].next

\* The sequence number of a batch's first event.
FirstSequence(tx, transactions) == IF tx = 0 THEN nextSequence ELSE transactions[tx].next

\* enqueue_world_events_at for transaction tx: the core's events, the new ones last,
\* are published as one batch, or, when the continuations do not fit, none of them is
\* and the core keeps them.  entries, queue, transactions and depth are the service's
\* state after whatever the request removed; done is the transaction's new complete.
Publish(tx, new, limit, entries, queue, transactions, depth, done) ==
  LET all == events \o new
      size == Smaller(Len(all), limit)
      suspended == {i \in 1..size : all[i].token # None}
      id(i) == nextContinuation + Cardinality({j \in suspended : j < i})
      first == FirstSequence(tx, transactions)
      batch == [i \in 1..size |-> [seq |-> first + i - 1,
                                   id |-> IF i \in suspended THEN id(i) ELSE 0]]
  IN  IF Cardinality(entries) + Cardinality(suspended) > MaxContinuations
      THEN /\ events' = all
           /\ pending' = entries
           /\ general' = queue
           /\ reactions' = transactions
           /\ count' = depth
           /\ UNCHANGED <<nextSequence, nextContinuation>>
      ELSE /\ nextContinuation + Cardinality(suspended) <= MaxIds + 1
           /\ suspended # {} => now + Timeout <= MaxNow
           /\ first + size <= MaxSequence + 1
           /\ events' = SubSeq(all, size + 1, Len(all))
           /\ pending' = entries \cup
                {[id |-> id(i), token |-> all[i].token, deadline |-> now + Timeout, tx |-> tx,
                  turf |-> all[i].turf, mixture |-> all[i].mixture] : i \in suspended}
           /\ nextContinuation' = nextContinuation + Cardinality(suspended)
           /\ general' = IF tx = 0 THEN queue \o batch ELSE queue
           /\ nextSequence' = IF tx = 0 THEN nextSequence + size ELSE nextSequence
           /\ reactions' = IF tx = 0 THEN transactions
                           ELSE [transactions EXCEPT
                                   ![tx] = [queue |-> @.queue \o batch, next |-> @.next + size,
                                            complete |-> @.complete \/ done]]
           /\ count' = depth + size

(***************************************************************************)
(* Reactions and stages                                                    *)
(***************************************************************************)

\* The React mixture command opens a transaction for its own events.  n native
\* events, and a DM reaction when dm holds.
ReactCommand(m, n, dm) ==
  LET tx == nextTransaction
      opened == [t \in DOMAIN reactions \cup {tx} |->
                   IF t = tx THEN [queue |-> <<>>, next |-> 1, complete |-> FALSE]
                   ELSE reactions[t]]
  IN
  /\ alive
  /\ Cardinality(DOMAIN reactions) < MaxTransactions
  /\ tx <= MaxIds
  /\ nextTransaction' = tx + 1
  /\ Fits(n + (IF dm THEN 1 ELSE 0))
  /\ \/ /\ dm
        /\ React(m)
        /\ Publish(tx, Plain(n) \o RunDmReaction([turf |-> None, mixture |-> m], NextToken),
                   EventLimit, pending, general, opened, count, FALSE)
     \/ /\ ~dm
        /\ MixtureLive(m)
        /\ Publish(tx, Plain(n), EventLimit, pending, general, opened, count, TRUE)
        /\ UNCHANGED coreVars
  /\ UNCHANGED <<now, alive, clientVars>>

\* The core rejects the reaction: the transaction is removed again, its id is spent.
ReactCommandRejected ==
  /\ alive
  /\ Cardinality(DOMAIN reactions) < MaxTransactions
  /\ nextTransaction <= MaxIds
  /\ nextTransaction' = nextTransaction + 1
  /\ UNCHANGED coreVars \/ \E m \in MixtureHandle : ReactOverflows(m)
  /\ UNCHANGED <<queueVars, now, alive, clientVars>>

\* A chunk that starts the React stage; every accepted chunk publishes what the core
\* still holds.
StageStarts(t) ==
  /\ alive
  /\ StageBegin(t)
  /\ Publish(0, <<>>, EventLimit, pending, general, reactions, count, FALSE)
  /\ UNCHANGED <<nextTransaction, now, alive, clientVars>>

\* The chunk that commits the stage with a suspended DM reaction, or without one.
StageSuspends(n) ==
  /\ alive
  /\ Fits(n + 1)
  /\ StageCommit
  /\ Publish(0, Plain(n) \o RunDmReaction(stage, NextToken), EventLimit, pending, general,
             reactions, count, FALSE)
  /\ UNCHANGED <<nextTransaction, now, alive, clientVars>>

StageFinishes(n) ==
  /\ alive
  /\ Fits(n)
  /\ StageEnd
  /\ Publish(0, Plain(n), EventLimit, pending, general, reactions, count, FALSE)
  /\ UNCHANGED <<nextTransaction, now, alive, clientVars>>

\* A rejected chunk aborts the stage and publishes nothing.
StageRejected ==
  /\ alive
  /\ StageEnd \/ StageConflict \/ StageOverflows
  /\ UNCHANGED <<queueVars, nextTransaction, now, alive, clientVars>>

(***************************************************************************)
(* Continuations                                                           *)
(***************************************************************************)

\* require_continuation_at finds the deadline passed: the entry, its queued callback
\* and its transaction go, then the core is asked to cancel (its error is reported).
UseExpired(p) ==
  LET rest == pending \ {p}
      kept == RetainedAll(reactions, Ids(rest))
  IN
  /\ alive
  /\ p.id \in known
  /\ now >= p.deadline
  /\ pending' = rest
  /\ general' = Retained(general, Ids(rest))
  /\ reactions' = WithoutTransactions(kept, {p.tx})
  /\ count' = Depth(general', reactions')
  /\ IF TokenLive(p.token) THEN Cancel(p.token) ELSE UNCHANGED coreVars
  /\ UNCHANGED <<events, nextSequence, nextContinuation, nextTransaction, now, alive,
                 clientVars>>

\* ContinuationResume: the core resumes first; only then is the entry consumed, and
\* the events that follow go to the transaction the reaction belongs to.
ResumeCommand(p, n, dm) ==
  LET rest == pending \ {p}
      queue == Retained(general, Ids(rest))
      transactions == RetainedAll(reactions, Ids(rest))
      c == slots[p.token[1]].held
      next == <<p.token[1], p.token[2] + 1>>
  IN
  /\ alive
  /\ p.id \in known
  /\ now < p.deadline
  /\ p.tx # 0 => p.tx \in DOMAIN reactions
  /\ Fits(n + (IF dm THEN 1 ELSE 0))
  /\ IF dm THEN ResumeAgain(p.token) ELSE ResumeToEnd(p.token)
  /\ Publish(p.tx, Plain(n) \o (IF dm THEN RunDmReaction(c, next) ELSE <<>>), EventLimit,
             rest, queue, transactions, Depth(queue, transactions), ~dm)
  /\ UNCHANGED <<nextTransaction, now, alive, clientVars>>

\* ContinuationCancel drops the whole transaction.
CancelCommand(p) ==
  LET rest == pending \ {p}
      kept == RetainedAll(reactions, Ids(rest))
  IN
  /\ alive
  /\ p.id \in known
  /\ now < p.deadline
  /\ Cancel(p.token)
  /\ pending' = rest
  /\ general' = Retained(general, Ids(rest))
  /\ reactions' = WithoutTransactions(kept, {p.tx})
  /\ count' = Depth(general', reactions')
  /\ UNCHANGED <<events, nextSequence, nextContinuation, nextTransaction, now, alive,
                 clientVars>>

(***************************************************************************)
(* Draining                                                                *)
(***************************************************************************)

\* Mutant: only the continuations of reaction transactions expire.
ExpiredReactionsOnly == {p \in pending : now >= p.deadline /\ p.tx # 0}

\* The continuations whose deadline has passed.
Expired == {p \in pending : now >= p.deadline}

\* expire_continuations_at drops the expired entries, their callbacks and the
\* transactions left without a continuation.
Surviving == pending \ Expired

SurvivingReactions ==
  IF Expired = {} THEN reactions
  ELSE LET kept == RetainedAll(reactions, Ids(Surviving))
       IN  WithoutTransactions(kept, Orphans(kept, Surviving))

SurvivingGeneral == IF Expired = {} THEN general ELSE Retained(general, Ids(Surviving))

\* Mutant: the service forgets an expired continuation, the core does not.
ExpireInServiceOnly == UNCHANGED coreVars

\* cancel_reaction for every expired continuation, in id order.
ExpireInCore ==
  LET freed == {p.token[1] : p \in Expired} IN
  /\ slots' = [s \in DOMAIN slots |->
                 IF s \in freed THEN [slots[s] EXCEPT !.held = None] ELSE slots[s]]
  /\ \E list \in [1..Cardinality(Expired) -> Expired] :
       /\ \A i, j \in DOMAIN list : i < j => list[i].id < list[j].id
       /\ free' = free \o [i \in DOMAIN list |-> list[i].token[1]]
  /\ UNCHANGED <<mixtures, turfs, stage, issued>>

\* decode_production_callback_batch refuses a batch with a sequence gap.
Contiguous(batch) == \A i \in DOMAIN batch : batch[i].seq = batch[1].seq + i - 1

Delivered(batch) ==
  IF Contiguous(batch)
  THEN known' = known \cup ({batch[i].id : i \in DOMAIN batch} \ {0}) /\ UNCHANGED refused
  ELSE refused' = TRUE /\ UNCHANGED known

DrainGeneral(max) ==
  LET queue == SurvivingGeneral
      size == Smaller(Len(queue), max)
      depth == IF Expired = {} THEN count ELSE Depth(queue, SurvivingReactions)
  IN
  /\ alive
  /\ \A p \in Expired : TokenLive(p.token)
  /\ ExpireInCore
  /\ pending' = Surviving
  /\ reactions' = SurvivingReactions
  /\ general' = SubSeq(queue, size + 1, Len(queue))
  /\ count' = depth - size
  /\ lastGeneral' = IF size = 0 THEN lastGeneral ELSE queue[size].seq
  /\ Delivered(SubSeq(queue, 1, size))
  /\ UNCHANGED <<events, nextSequence, nextContinuation, nextTransaction, now, alive, replaced>>

DrainReaction(tx, max) ==
  LET transactions == SurvivingReactions
      queue == transactions[tx].queue
      size == Smaller(Len(queue), max)
      depth == IF Expired = {} THEN count ELSE Depth(SurvivingGeneral, transactions)
      left == SubSeq(queue, size + 1, Len(queue))
  IN
  /\ alive
  /\ \A p \in Expired : TokenLive(p.token)
  /\ tx \in DOMAIN transactions
  /\ ExpireInCore
  /\ pending' = Surviving
  /\ general' = SurvivingGeneral
  /\ reactions' = IF transactions[tx].complete /\ left = <<>>
                  THEN WithoutTransactions(transactions, {tx})
                  ELSE [transactions EXCEPT ![tx].queue = left]
  /\ count' = depth - size
  /\ Delivered(SubSeq(queue, 1, size))
  /\ UNCHANGED <<events, nextSequence, nextContinuation, nextTransaction, now, alive,
                 lastGeneral, replaced>>

\* A drain whose expiry fails in the core, or that names a transaction that is gone,
\* is not answered: the error ends the session.
DrainFails ==
  /\ alive
  /\ \/ \E p \in Expired : ~TokenLive(p.token)
     \/ \E tx \in 1..(nextTransaction - 1) : tx \notin DOMAIN SurvivingReactions
  /\ alive' = FALSE
  /\ UNCHANGED <<coreVars, queueVars, nextTransaction, now, clientVars>>

(***************************************************************************)
(* Lifecycle                                                               *)
(***************************************************************************)

\* Mutant: the queues shrink and pending_callback_count does not.
PruneWithoutRecount(gone) ==
  LET rest == pending \ gone
      kept == RetainedAll(reactions, Ids(rest))
  IN
  /\ pending' = rest
  /\ general' = Retained(general, Ids(rest))
  /\ reactions' = WithoutTransactions(kept, Orphans(kept, rest))
  /\ UNCHANGED <<count, events, nextSequence, nextContinuation, nextTransaction, now, alive,
                 known, lastGeneral, refused>>

\* remove_orphaned_continuation_callbacks once the entries in gone are removed.
Prune(gone) ==
  LET rest == pending \ gone
      kept == RetainedAll(reactions, Ids(rest))
  IN
  /\ pending' = rest
  /\ general' = Retained(general, Ids(rest))
  /\ reactions' = WithoutTransactions(kept, Orphans(kept, rest))
  /\ count' = Depth(general', reactions')
  /\ UNCHANGED <<events, nextSequence, nextContinuation, nextTransaction, now, alive,
                 known, lastGeneral, refused>>

\* A mixture or turf that is registered while it was live takes the suspended
\* reactions that depend on it with it.
Replaces(live) == replaced' = (replaced \/ (live /\ LiveSlots' # LiveSlots))

\* The service forgets continuations of the slots a request unregisters, and of no
\* others.
ServiceLifecycle ==
  /\ alive
  /\ \/ \E m \in Mixtures, g \in Generations : /\ mixtures[m].live => ClientReplaces
                                               /\ RegisterMixture(m, g)
                                               /\ Prune({})
                                               /\ Replaces(mixtures[m].live)
     \/ \E m \in Mixtures : /\ UnregisterMixture(m)
                            /\ Prune({p \in pending : p.mixture[1] = m})
                            /\ UNCHANGED replaced
     \/ \E t \in Turfs, g \in Generations, m \in MixtureHandle \cup {None} :
          /\ turfs[t].live => ClientReplaces
          /\ RegisterTurf(t, g, m)
          /\ Prune({})
          /\ Replaces(turfs[t].live)
     \/ \E t \in Turfs : /\ UnregisterTurf(t)
                         /\ Prune({p \in pending : p.turf # None /\ p.turf[1] = t})
                         /\ UNCHANGED replaced

Tick ==
  /\ alive
  /\ now < MaxNow
  /\ now' = now + 1
  /\ UNCHANGED <<coreVars, queueVars, nextTransaction, alive, clientVars>>

(***************************************************************************)
(* The specification                                                       *)
(***************************************************************************)

ServiceInit ==
  /\ Init
  /\ events = <<>>
  /\ pending = {}
  /\ general = <<>>
  /\ reactions = <<>>
  /\ count = 0
  /\ nextSequence = 1
  /\ nextContinuation = 1
  /\ nextTransaction = 1
  /\ now = 0
  /\ alive = TRUE
  /\ known = {}
  /\ lastGeneral = 0
  /\ refused = FALSE
  /\ replaced = FALSE

Draining ==
  \/ \E max \in 1..MaxCallbacks : DrainGeneral(max)
  \/ \E tx \in DOMAIN reactions, max \in 1..MaxCallbacks : DrainReaction(tx, max)

ServiceNext ==
  \/ \E m \in MixtureHandle, n \in 0..MaxNative, dm \in BOOLEAN : ReactCommand(m, n, dm)
  \/ ReactCommandRejected
  \/ \E t \in Turfs : StageStarts(t)
  \/ \E n \in 0..MaxNative : StageSuspends(n) \/ StageFinishes(n)
  \/ StageRejected
  \/ \E p \in pending : UseExpired(p)
  \/ \E p \in pending, n \in 0..MaxNative, dm \in BOOLEAN : ResumeCommand(p, n, dm)
  \/ \E p \in pending : CancelCommand(p)
  \/ Draining
  \/ DrainFails
  \/ ServiceLifecycle
  \/ Tick

ServiceSpec == ServiceInit /\ [][ServiceNext]_vars

\* The clock always advances and the client drains the general queue every tick.
FairSpec == ServiceSpec /\ WF_vars(Tick) /\ WF_vars(\E max \in 1..MaxCallbacks : DrainGeneral(max))

(***************************************************************************)
(* Properties                                                              *)
(***************************************************************************)

\* pending_callback_count, kept by increments, decrements and recounts on different
\* paths, is the number of queued callbacks and never exceeds the negotiated maximum.
CountExact == count = Depth(general, reactions) /\ count <= MaxCallbacks

\* While the session lives, a queued continuation callback still has its pending
\* entry, with the transaction of its queue: a client is never handed a dead token.
QueuedTokensPending ==
  alive =>
    /\ \A i \in DOMAIN general : general[i].id # 0 =>
         \E p \in pending : p.id = general[i].id /\ p.tx = 0
    /\ \A t \in DOMAIN reactions : \A i \in DOMAIN reactions[t].queue :
         reactions[t].queue[i].id # 0 =>
           \E p \in pending : p.id = reactions[t].queue[i].id /\ p.tx = t

\* With any client the depth counter is what the queues hold and bounded, and a queued
\* continuation event has its pending entry.
QueuesExact == CountExact /\ QueuedTokensPending

\* Callbacks of the general queue leave in the order they were published, each once.
GeneralInOrder ==
  \A i \in DOMAIN general :
    /\ lastGeneral < general[i].seq
    /\ general[i].seq < nextSequence
    /\ \A j \in DOMAIN general : i < j => general[i].seq < general[j].seq

\* The service's pending continuations are exactly the suspended reactions of the
\* core: none is leaked by the core, none dangles in the service.
ContinuationsAgree ==
  /\ \A p \in pending : TokenLive(p.token)
  /\ \A s \in LiveSlots : \E p \in pending : p.token = <<s, slots[s].generation>>

\* An incomplete transaction is waiting for a continuation; otherwise it would hold
\* one of max_reaction_transactions for ever.
IncompleteHasContinuation ==
  alive => \A t \in DOMAIN reactions :
             ~reactions[t].complete => \E p \in pending : p.tx = t

\* Between requests the core holds no event: a request publishes all its events or
\* leaves no trace.
NothingStranded == events = <<>>

\* Unless a live slot was registered again under a suspended reaction, no event is left
\* behind in the core, service and core agree on what is suspended, and an open
\* transaction waits for something.
ServiceAgrees ==
  ~replaced => NothingStranded /\ ContinuationsAgree /\ IncompleteHasContinuation

\* The shim never refuses a batch it drained (a refused batch is lost).
BatchesAccepted == ~refused

\* Every continuation is resumed, cancelled, invalidated or expired in the end.
ContinuationsEnd ==
  \A id \in 1..MaxIds : id \in Ids(pending) ~> (id \notin Ids(pending) \/ ~alive)
=============================================================================
