-------------------------- MODULE CallbackChannel --------------------------
(***************************************************************************)
(* auxcallback: the queue through which the worker threads of the legacy   *)
(* backend hand callbacks to the BYOND main thread.                        *)
(*                                                                         *)
(* queue_callback runs under the write lock of CALLBACK_STATE, and so do   *)
(* begin_callbacks and clean_callbacks; the drain of the main thread takes *)
(* no lock at all, so its pop, its release of the accounted bytes, its     *)
(* look at the failure latch and the start of the callback are steps of    *)
(* their own between those of a producer. A callback is a number; its      *)
(* accounted size is one of Sizes.                                         *)
(***************************************************************************)
EXTENDS Naturals, Sequences, FiniteSets

CONSTANTS
    Senders,      \* producer threads; "main" produces from inside a callback
    Sizes,        \* accounted bytes of a callback
    MaxItems,     \* MAX_CALLBACK_ITEMS
    MaxBytes,     \* MAX_CALLBACK_ACCOUNTED_BYTES
    MaxQueued,    \* bound: callbacks offered in one run
    MaxWorlds     \* bound: worlds begun

Producers == Senders \cup {"main"}

Nobody == "nobody"

ChannelAssumption ==
    /\ {MaxItems, MaxBytes, MaxQueued, MaxWorlds} \subseteq Nat \ {0}
    /\ Sizes \subseteq Nat \ {0}
    /\ "main" \notin Senders /\ Nobody \notin Senders

VARIABLES
    state,     \* CALLBACK_STATE: admission is open
    lock,      \* the producer inside the write lock, or Nobody
    queue,     \* the channel
    bytes,     \* CALLBACK_OWNED_BYTES_CURRENT
    failed,    \* CALLBACK_FAILED
    counts,    \* [enqueued, drained, failures, depthHigh, bytesHigh]
    main,      \* [pc, item, timed]: the main thread's drain; it has in hand a
               \* callback "popped" from the channel, "released" of its bytes,
               \* "passed" by the latch, "cleared" of both, or "dropped"
    item,      \* the callback the locked producer has reserved bytes for
    refused,   \* a callback of this world was refused although it was open
    ran,       \* history: callbacks run, in order
    late,      \* history: callbacks started since one of this world was refused
    offered,   \* history: how many callbacks were offered
    world      \* history: worlds begun

vars == << state, lock, queue, bytes, failed, counts, main, item, refused, ran, late,
           offered, world >>

Zero == [enqueued |-> 0, drained |-> 0, failures |-> 0, depthHigh |-> 0, bytesHigh |-> 0]

NoItem == [id |-> 0, size |-> 0, world |-> 0]

Init ==
    /\ state = FALSE /\ lock = Nobody
    /\ queue = << >> /\ bytes = 0 /\ failed = FALSE /\ counts = Zero
    /\ main = [pc |-> "out", item |-> NoItem, timed |-> FALSE]
    /\ item = NoItem
    /\ refused = FALSE /\ ran = << >> /\ late = 0 /\ offered = 0 /\ world = 0

Larger(a, b) == IF a < b THEN b ELSE a

Minus(a, b) == IF b < a THEN a - b ELSE 0

-----------------------------------------------------------------------------
(* The main thread, between calls of the hook.                             *)

\* begin_callbacks: whatever is queued is dropped, every counter starts over.
Begin ==
    /\ main.pc = "out" /\ lock = Nobody /\ world < MaxWorlds
    /\ queue' = << >> /\ failed' = FALSE /\ counts' = Zero /\ bytes' = 0
    /\ state' = TRUE
    /\ world' = world + 1
    /\ refused' = FALSE /\ late' = 0
    /\ UNCHANGED << lock, main, item, ran, offered >>

\* The sum the drain releases, one callback at a time.
SizeOf(q) ==
    LET Sum[i \in 0 .. Len(q)] == IF i = 0 THEN 0 ELSE Sum[i - 1] + q[i].size
    IN  Sum[Len(q)]

\* Mutant of Clean: the drained callbacks keep their bytes.
CleanUnreleased ==
    /\ main.pc = "out" /\ lock = Nobody /\ state
    /\ state' = FALSE
    /\ queue' = << >>
    /\ UNCHANGED << lock, bytes, failed, counts, main, item, refused, ran, late,
                    offered, world >>

\* clean_callbacks: admission closes and the queue is drained unrun.
Clean ==
    /\ main.pc = "out" /\ lock = Nobody /\ state
    /\ state' = FALSE
    /\ queue' = << >>
    /\ bytes' = Minus(bytes, SizeOf(queue))
    /\ UNCHANGED << lock, failed, counts, main, item, refused, ran, late, offered,
                    world >>

-----------------------------------------------------------------------------
(* The drain: process_callbacks and process_callbacks_for.                 *)

\* callback_processing_hook refuses a failed queue. The timed drain is given a
\* limit in milliseconds, the other runs until the queue is empty.
Hook(timed) ==
    /\ main.pc = "out" /\ ~failed
    /\ main' = [pc |-> "pop", item |-> NoItem, timed |-> timed]
    /\ UNCHANGED << state, lock, queue, bytes, failed, counts, item, refused, ran,
                    late, offered, world >>

\* receiver.try_iter(): the next callback leaves the channel, or the drain ends.
Pop ==
    /\ main.pc = "pop"
    /\ IF queue = << >>
       THEN main' = [main EXCEPT !.pc = "out"] /\ queue' = queue
       ELSE /\ main' = [main EXCEPT !.pc = "popped", !.item = Head(queue)]
            /\ queue' = Tail(queue)
    /\ UNCHANGED << state, lock, bytes, failed, counts, item, refused, ran, late,
                    offered, world >>

\* The latch is read again for every callback: by the plain drain once the bytes
\* are released, by the timed one before. In a failed queue the callback in hand is
\* dropped unrun and the drain ends.
Look ==
    /\ main.pc = (IF main.timed THEN "popped" ELSE "released")
    /\ main' = IF ~failed THEN [main EXCEPT !.pc = "passed"]
               ELSE IF main.timed THEN [main EXCEPT !.pc = "dropped"]
               ELSE [main EXCEPT !.pc = "out", !.item = NoItem]
    /\ UNCHANGED << state, lock, queue, bytes, failed, counts, item, refused, ran, late,
                    offered, world >>

\* Its bytes are released.
Release ==
    /\ main.pc \in (IF main.timed THEN {"passed", "dropped"} ELSE {"popped"})
    /\ bytes' = Minus(bytes, main.item.size)
    /\ main' = CASE main.pc = "popped" -> [main EXCEPT !.pc = "released"]
               [] main.pc = "passed" -> [main EXCEPT !.pc = "cleared"]
               [] main.pc = "dropped" -> [main EXCEPT !.pc = "out", !.item = NoItem]
    /\ UNCHANGED << state, lock, queue, failed, counts, item, refused, ran, late, offered,
                    world >>

\* It is counted and called, on the strength of the look: a producer may have been
\* refused since.
Start ==
    /\ main.pc = (IF main.timed THEN "cleared" ELSE "passed")
    /\ main' = [main EXCEPT !.pc = "running"]
    /\ counts' = [counts EXCEPT !.drained = @ + 1]
    /\ ran' = Append(ran, main.item)
    /\ late' = IF refused THEN late + 1 ELSE late
    /\ UNCHANGED << state, lock, queue, bytes, failed, item, refused, offered, world >>

\* The callback returns; a timed drain may be out of time after any of them.
Return ==
    /\ main.pc = "running" /\ lock # "main"
    /\ \E pc \in {"pop"} \cup (IF main.timed THEN {"out"} ELSE {}) :
          main' = [main EXCEPT !.pc = pc, !.item = NoItem]
    /\ UNCHANGED << state, lock, queue, bytes, failed, counts, item, refused, ran,
                    late, offered, world >>

-----------------------------------------------------------------------------
(* queue_callback.                                                         *)

\* A producer thread, or the main thread from inside a callback.
MayOffer(p) ==
    /\ lock = Nobody /\ offered < MaxQueued
    /\ p = "main" => main.pc = "running"

\* Admission is closed: the failure is counted, and nothing else.
RefuseClosed(p) ==
    /\ MayOffer(p) /\ ~state
    /\ counts' = [counts EXCEPT !.failures = @ + 1]
    /\ offered' = offered + 1
    /\ UNCHANGED << state, lock, queue, bytes, failed, main, item, refused, ran, late,
                    world >>

\* The three reasons to refuse a callback while admission is open.
Full(size) == failed \/ Len(queue) >= MaxItems \/ size > Minus(MaxBytes, bytes)

\* The queue has failed before, is full, or has no room for the bytes: the
\* failure is latched until the next world.
RefuseFull(p, size) ==
    /\ MayOffer(p) /\ state /\ Full(size)
    /\ failed' = TRUE
    /\ counts' = [counts EXCEPT !.failures = @ + 1]
    /\ refused' = TRUE
    /\ offered' = offered + 1
    /\ UNCHANGED << state, lock, queue, bytes, main, item, ran, late, world >>

\* Otherwise its bytes are reserved ...
Reserve(p, size) ==
    /\ MayOffer(p) /\ state /\ ~Full(size)
    /\ lock' = p
    /\ bytes' = bytes + size
    /\ item' = [id |-> offered + 1, size |-> size, world |-> world]
    /\ counts' = [counts EXCEPT !.bytesHigh = Larger(@, bytes + size)]
    /\ offered' = offered + 1
    /\ UNCHANGED << state, queue, failed, main, refused, ran, late, world >>

\* ... and it is sent; only the main thread takes from the channel meanwhile, so
\* try_send finds room.
Send(p) ==
    /\ lock = p
    /\ queue' = Append(queue, item)
    /\ counts' = [counts EXCEPT !.enqueued = @ + 1, !.depthHigh = Larger(@, Len(queue) + 1)]
    /\ lock' = Nobody
    /\ item' = NoItem
    /\ UNCHANGED << state, bytes, failed, main, refused, ran, late, offered, world >>

-----------------------------------------------------------------------------

Next ==
    \/ Begin
    \/ Clean
    \/ \E timed \in BOOLEAN : Hook(timed)
    \/ Pop
    \/ Look
    \/ Release
    \/ Start
    \/ Return
    \/ \E p \in Producers : RefuseClosed(p)
    \/ \E p \in Producers, size \in Sizes : RefuseFull(p, size)
    \/ \E p \in Producers, size \in Sizes : Reserve(p, size)
    \/ \E p \in Producers : Send(p)

\* A drain that has begun goes on.
DrainStep == Pop \/ Look \/ Release \/ Start \/ Return

\* DreamMaker calls the hook again and again, and a drain or a producer that
\* has begun goes on.
Fairness ==
    /\ WF_vars(\E timed \in BOOLEAN : Hook(timed))
    /\ WF_vars(DrainStep)
    /\ WF_vars(\E p \in Producers : Send(p))

Spec == Init /\ [][Next]_vars /\ Fairness

-----------------------------------------------------------------------------

\* The drain has in hand a callback whose bytes it has not released.
Unreleased == main.pc \in {"popped", "dropped"} \/ (main.pc = "passed" /\ main.timed)

\* The accounted bytes are those of the callbacks queued, of the one a producer
\* has reserved for and of the one the drain has popped but not yet released:
\* no order of pops, sends, teardowns and restarts loses or doubles any.
BytesExact ==
    bytes = SizeOf(queue) + item.size + (IF Unreleased THEN main.item.size ELSE 0)

\* The memory promised to DreamDaemon holds at every moment, the callback a
\* producer is about to send included.
Bounded ==
    /\ bytes <= MaxBytes
    /\ SizeOf(queue) + item.size <= MaxBytes
    /\ Len(queue) + (IF lock = Nobody THEN 0 ELSE 1) <= MaxItems

\* Overflow latches a fatal error until the next world (lib.rs:123): once a callback
\* of this world has been refused for want of room the queue stays failed, and of
\* all that is queued at most one more callback is started, the one in hand whose
\* look at the latch came before the refusal.
FatalLatched == (refused => failed) /\ late <= 1

\* Callbacks run in the order they were accepted, at most once, and only in the
\* world that queued them.
RunInOrder ==
    /\ \A i, j \in DOMAIN ran : i < j => ran[i].id < ran[j].id
    /\ \A i \in DOMAIN queue : queue[i].world = world /\
          \A j \in DOMAIN ran : ran[j].id < queue[i].id

\* Every callback accepted is run, unless the world ends or the queue fails.
AcceptedRun ==
    \A n \in 1 .. MaxQueued, w \in 1 .. MaxWorlds :
        (world = w /\ \E i \in DOMAIN queue : queue[i].id = n)
            ~> (\/ \E i \in DOMAIN ran : ran[i].id = n
                \/ failed \/ ~state \/ world # w)

=============================================================================
