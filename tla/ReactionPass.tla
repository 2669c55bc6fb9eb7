---------------------------- MODULE ReactionPass ----------------------------
(***************************************************************************)
(* A reaction pass over a mixture: evaluate_reaction_sequence tries every  *)
(* registered reaction in priority order on a copy of the mixture, runs    *)
(* the native ones, and suspends at the first reaction DreamMaker must run *)
(* itself. resume_reaction_inner continues after that reaction. The copy   *)
(* and the events become visible together, at the end of the call.         *)
(*                                                                         *)
(* A call holds the world for its whole duration: while one is being       *)
(* evaluated nothing else happens. Between calls DreamMaker changes the    *)
(* mixture, drains events and starts further passes. How much a native     *)
(* reaction burns is left open; which gases it uses up, which it produces  *)
(* and which way the temperature moves are the code's. Tokens are in       *)
(* Continuations, the service's queues in Callbacks.                       *)
(***************************************************************************)
EXTENDS Metadata

CONSTANTS
    Mixtures,          \* mixture slots
    GasBatches,        \* gas registrations DreamMaker may send
    ReactionBatches,   \* reaction registrations DreamMaker may send
    MaxMoles,          \* bound: moles of a gas
    MinimumCalculated, \* MINIMUM_CALCULATED_MOLES: less of a gas is a trace
    Supplied,          \* bound: ids of the gases a mixture may be created with
    MaxTemperature,    \* bound: temperature
    MaxRevision,       \* u32::MAX, the revision that cannot be advanced
    MaxEvents,         \* max_events and the callback capacity of the service
    Overflows,         \* whether a native reaction may leave the finite numbers
    Limits,            \* room the service may have left when it makes a call
    MaxPasses          \* bound: passes started

PassAssumption ==
    /\ {MaxMoles, MinimumCalculated, MaxTemperature, MaxRevision, MaxEvents, MaxPasses} \subseteq Nat
    /\ BurnScale \in Nat \ {0} /\ Limits \subseteq 0 .. MaxEvents
    /\ Overflows \in BOOLEAN
    /\ MetadataAssumption
    /\ GasBatches \subseteq Seq(GasRegistrations)
    /\ ReactionBatches \subseteq Seq(ReactionRegistrations)

VARIABLES
    gases,          \* gas_registry: the batch sorted by id, or None
    reactions,      \* reaction_registry, sorted by id, or None
    lastBatch,      \* the last installation: [gas, batch, error]
    mixtures,       \* the created mixtures: gases, temperature, revision, immutable
    continuations,  \* suspended passes: [pass, mixture, next, profiled, ran]
    events,         \* queued events
    call,           \* the call being evaluated, or None
    passes          \* passes started so far

vars == << gases, reactions, lastBatch, mixtures, continuations, events, call, passes >>

registryVars == << gases, reactions, lastBatch >>

NoBatch == [gas |-> TRUE, batch |-> << >>, error |-> "ok"]

Init ==
    /\ gases = None /\ reactions = None /\ lastBatch = NoBatch
    /\ mixtures = << >> /\ continuations = {} /\ events = 0
    /\ call = None /\ passes = 0

Order == PriorityOrder(reactions)

-----------------------------------------------------------------------------
(* Registration: once, before the first mixture.                           *)

InstallGases(sent) == LET batch == [i \in DOMAIN sent |-> CoreGas(sent[i])] IN
    /\ call = None /\ gases = None /\ DOMAIN mixtures = {}
    /\ lastBatch' = [gas |-> TRUE, batch |-> batch, error |-> GasError(batch)]
    /\ gases' = IF GasError(batch) = "ok" THEN ById(batch) ELSE None
    /\ UNCHANGED << reactions, mixtures, continuations, events, call, passes >>

InstallReactions(sent) == LET batch == [i \in DOMAIN sent |-> CoreReaction(sent[i])] IN
    /\ call = None /\ gases # None /\ reactions = None /\ DOMAIN mixtures = {}
    /\ lastBatch' = [gas |-> FALSE, batch |-> batch, error |-> ReactionError(batch, gases)]
    /\ reactions' = IF ReactionError(batch, gases) = "ok" THEN ById(batch) ELSE None
    /\ UNCHANGED << gases, mixtures, continuations, events, call, passes >>

-----------------------------------------------------------------------------
(* What DreamMaker does to a mixture between calls.                        *)

GasAmounts == [DOMAIN gases -> 0 .. MaxMoles]

\* canonicalize_gases: whatever is published is published without traces.
Kept(amount) == IF amount < MinimumCalculated THEN 0 ELSE amount

Canonical(amounts) == [i \in DOMAIN amounts |-> Kept(amounts[i])]

\* What a mixture is created with.
Contents ==
    {Canonical(amounts) : amounts \in
        {a \in GasAmounts : \A i \in DOMAIN gases : gases[i].id \notin Supplied => a[i] = 0}}

\* Lifecycle registration; DreamMaker fills the mixture before it reacts.
Create(m, contents, temperature, immutable) ==
    /\ call = None /\ reactions # None /\ m \notin DOMAIN mixtures
    /\ mixtures' = [n \in DOMAIN mixtures \cup {m} |->
           IF n = m THEN [gases |-> contents, temperature |-> temperature,
                          revision |-> 0, immutable |-> immutable]
           ELSE mixtures[n]]
    /\ UNCHANGED << registryVars, continuations, events, call, passes >>

\* A command that sets one gas or the temperature (Command::SetMoles,
\* SetTemperature).
Change(m, i, amount, temperature) ==
    /\ call = None /\ m \in DOMAIN mixtures
    /\ ~mixtures[m].immutable /\ mixtures[m].revision < MaxRevision
    /\ mixtures' = [mixtures EXCEPT ![m].gases[i] = Kept(amount),
                                    ![m].temperature = temperature,
                                    ![m].revision = @ + 1]
    /\ UNCHANGED << registryVars, continuations, events, call, passes >>

\* drain_events: the service takes the events into its callback queues and
\* DreamMaker empties those.
Drain ==
    /\ call = None /\ events > 0 /\ events' = 0
    /\ UNCHANGED << registryVars, mixtures, continuations, call, passes >>

-----------------------------------------------------------------------------
(* Native reactions (reactions.rs).                                        *)

IndexOf(key) == CHOOSE i \in DOMAIN gases : gases[i].key = key

Registered(keys) == keys \subseteq {gases[i].key : i \in DOMAIN gases}

\* gas_index: the gases a native reaction looks up, whether or not it burns.
GasesUsed(kind) ==
    CASE kind = "plasma"   -> {"o2", "plasma", "co2", "tritium", "water_vapor"}
      [] kind = "hydrogen" -> {"o2", "hydrogen", "water_vapor"}
      [] kind = "tritium"  -> {"o2", "tritium", "water_vapor"}
      [] kind = "freon"    -> {"o2", "freon", "co2"}

\* What is left of a mixture that burned some of `fuel` and of its oxygen and
\* gained some of `products`.
Burned(mix, fuel, products, temperatures) ==
    LET used == {IndexOf(fuel), IndexOf("o2")}
        made == {IndexOf(p) : p \in products}
    IN [gases : {g \in GasAmounts :
                    \A i \in DOMAIN gases :
                        IF i \in used THEN g[i] \in 0 .. mix.gases[i]
                        ELSE IF i \in made
                        THEN g[i] \in mix.gases[i] .. MaxMoles
                        ELSE g[i] = mix.gases[i]},
        temperature : temperatures]

Hotter(mix) == mix.temperature .. MaxTemperature

Plasma(mix) ==
    IF mix.gases[IndexOf("plasma")] = 0 \/ mix.gases[IndexOf("o2")] = 0
       \/ mix.temperature = 0 THEN {}
    ELSE Burned(mix, "plasma", {"tritium"}, Hotter(mix))
         \cup Burned(mix, "plasma", {"co2", "water_vapor"}, Hotter(mix))

CombustFuel(fuel, mix) ==
    IF mix.gases[IndexOf(fuel)] = 0 \/ mix.gases[IndexOf("o2")] = 0 THEN {}
    ELSE Burned(mix, fuel, {"water_vapor"}, Hotter(mix))

\* Freon burns in the cold and makes it colder.
Freon(mix) ==
    IF mix.gases[IndexOf("freon")] = 0 \/ mix.gases[IndexOf("o2")] = 0
       \/ mix.temperature = MaxTemperature THEN {}
    ELSE Burned(mix, "freon", {"co2"}, 0 .. mix.temperature)

\* execute_native: the mixtures a native reaction may leave; none when it does
\* not burn.
ExecuteNative(kind, mix) ==
    CASE kind = "plasma" -> Plasma(mix)
      [] kind = "freon"  -> Freon(mix)
      [] OTHER           -> CombustFuel(kind, mix)

-----------------------------------------------------------------------------
(* A call: evaluate_reaction_sequence.                                     *)

Mix(m) == [gases |-> mixtures[m].gases, temperature |-> mixtures[m].temperature]

\* skip(start_index); an immutable mixture has nothing to try.
Begin(m, pass, start, profiled, ran, limit, resumed) ==
    call' = [mixture |-> m, mix |-> Mix(m), pass |-> pass, resumed |-> resumed,
             index |-> IF mixtures[m].immutable THEN Len(reactions) + 1 ELSE start,
             pending |-> FALSE, profiled |-> profiled, ran |-> ran,
             limit |-> limit, events |-> 0, natives |-> 0]

\* react_mixture_with_event_limit.
React(m, profiled, limit) ==
    /\ call = None /\ m \in DOMAIN mixtures /\ passes < MaxPasses
    /\ passes' = passes + 1
    /\ Begin(m, passes + 1, 1, profiled, << >>, limit, None)
    /\ UNCHANGED << registryVars, mixtures, continuations, events >>

\* resume_reaction_inner without REACTION_STOP.
Resume(c, limit) ==
    /\ call = None
    /\ Begin(c.mixture, c.pass, c.next, c.profiled, c.ran, limit, c)
    /\ UNCHANGED << registryVars, mixtures, continuations, events, passes >>

\* resume_reaction_inner: DreamMaker's reaction answered REACTION_STOP.
Stop(c) ==
    /\ call = None
    /\ continuations' = continuations \ {c}
    /\ UNCHANGED << registryVars, mixtures, events, call, passes >>

Current == reactions[Order[call.index]]

Evaluating == call # None /\ ~call.pending /\ call.index <= Len(reactions)

\* The conditions are tested on the copy as earlier reactions left it.
Tried == Evaluating /\ Reactable(Current, gases, call.mix)

Skip ==
    /\ Evaluating /\ ~Tried
    /\ call' = [call EXCEPT !.index = @ + 1]
    /\ UNCHANGED << registryVars, mixtures, continuations, events, passes >>

NativeIdle ==
    /\ Tried /\ Current.exec # "dm"
    /\ Registered(GasesUsed(Current.exec))
    /\ call' = [call EXCEPT !.index = @ + 1]
    /\ UNCHANGED << registryVars, mixtures, continuations, events, passes >>

NativeRuns ==
    /\ Tried /\ Current.exec # "dm" /\ Registered(GasesUsed(Current.exec))
    /\ \E mix \in ExecuteNative(Current.exec, call.mix) :
       \E slow \in {0} \cup (IF call.profiled THEN {1} ELSE {}) :
          call' = [call EXCEPT !.mix = mix, !.index = @ + 1, !.natives = @ + 1,
                               !.events = @ + 1 + slow,
                               !.ran = Append(@, call.index)]
    /\ UNCHANGED << registryVars, mixtures, continuations, events, passes >>

\* NativeReactionError: a gas the reaction needs is not registered, or the
\* arithmetic left the finite numbers. The call fails.
NativeFails ==
    /\ Tried /\ Current.exec # "dm"
    /\ Overflows \/ ~Registered(GasesUsed(Current.exec))
    /\ call' = None
    /\ UNCHANGED << registryVars, mixtures, continuations, events, passes >>

\* Mutant: the pass is resumed at the reaction DreamMaker has just run.
SuspendSame ==
    /\ Tried /\ Current.exec = "dm"
    /\ call' = [call EXCEPT !.pending = TRUE, !.ran = Append(@, call.index)]
    /\ UNCHANGED << registryVars, mixtures, continuations, events, passes >>

\* ReactionExecution::Dm: suspend, to go on after this reaction.
Suspend ==
    /\ Tried /\ Current.exec = "dm"
    /\ call' = [call EXCEPT !.pending = TRUE, !.index = @ + 1,
                            !.ran = Append(@, call.index)]
    /\ UNCHANGED << registryVars, mixtures, continuations, events, passes >>

-----------------------------------------------------------------------------
(* The end of a call.                                                      *)

Evaluated == call # None /\ (call.pending \/ call.index > Len(reactions))

Exhausted == call.natives > 0 /\ mixtures[call.mixture].revision = MaxRevision

Staged == call.events + (IF call.pending THEN 1 ELSE 0)

\* requested_events <= max_events.min(event_limit).
Fits == events + Staged <= IF call.limit < MaxEvents THEN call.limit ELSE MaxEvents

\* RevisionExhausted and EventCapacityExceeded are found before anything is
\* written.
Refuse ==
    /\ Evaluated /\ (Exhausted \/ ~Fits)
    /\ call' = None
    /\ UNCHANGED << registryVars, mixtures, continuations, events, passes >>

\* Mutant: a call that suspends leaves the native results unpublished.
PublishedIfDone ==
    IF call.natives = 0 \/ call.pending THEN mixtures
    ELSE [mixtures EXCEPT ![call.mixture].gases = Canonical(call.mix.gases),
                          ![call.mixture].temperature = call.mix.temperature,
                          ![call.mixture].revision = @ + 1]

\* What native reactions left is published canonical; without any, the mixture is
\* not written.
Published ==
    IF call.natives = 0 THEN mixtures
    ELSE [mixtures EXCEPT ![call.mixture].gases = Canonical(call.mix.gases),
                          ![call.mixture].temperature = call.mix.temperature,
                          ![call.mixture].revision = @ + 1]

\* The continuation is allocated, rotated or completed, then the copy and the
\* events are published.
Publish ==
    /\ Evaluated /\ ~Exhausted /\ Fits
    /\ continuations' = (continuations \ {call.resumed}) \cup
           (IF call.pending
            THEN {[pass |-> call.pass, mixture |-> call.mixture, next |-> call.index,
                   profiled |-> call.profiled, ran |-> call.ran]}
            ELSE {})
    /\ mixtures' = Published
    /\ events' = events + Staged
    /\ call' = None
    /\ UNCHANGED << registryVars, passes >>

Next ==
    \/ \E b \in GasBatches : InstallGases(b)
    \/ \E b \in ReactionBatches : InstallReactions(b)
    \/ \E m \in Mixtures, c \in (IF gases = None THEN {} ELSE Contents),
          t \in 0 .. MaxTemperature, i \in BOOLEAN : Create(m, c, t, i)
    \/ \E m \in Mixtures, i \in (IF gases = None THEN {} ELSE DOMAIN gases),
          a \in 0 .. MaxMoles, t \in 0 .. MaxTemperature : Change(m, i, a, t)
    \/ Drain
    \/ \E m \in Mixtures, p \in BOOLEAN, l \in Limits : React(m, p, l)
    \/ \E c \in continuations, l \in Limits : Resume(c, l)
    \/ \E c \in continuations : Stop(c)
    \/ Skip \/ NativeIdle \/ NativeRuns \/ NativeFails \/ Suspend
    \/ Refuse \/ Publish

\* The steps of a call that is being evaluated.
CallStep == Skip \/ NativeIdle \/ NativeRuns \/ Suspend \/ Refuse \/ Publish

\* Pass p is resumed with an empty queue.
ResumeDrained(p) ==
    events = 0 /\ \E c \in continuations : c.pass = p /\ Resume(c, MaxEvents)

\* A call always ends; DreamMaker keeps draining its callbacks and resuming every
\* reaction it was handed, with whatever room is then left.
Fairness ==
    /\ WF_vars(CallStep)
    /\ SF_vars(Drain)
    /\ \A p \in 1 .. MaxPasses : SF_vars(ResumeDrained(p))

Spec == Init /\ [][Next]_vars

FairSpec == Spec /\ Fairness

-----------------------------------------------------------------------------
(* Properties.                                                             *)

\* A batch is refused exactly when it breaks one of the registry's rules, and
\* what was installed is ordered by strictly falling priority
\* (GasMetadataRegistry::try_new, ReactionMetadataRegistry::try_new).
RegistryExact ==
    /\ lastBatch.error = "ok" <=>
          IF lastBatch.gas THEN GasBatchOk(lastBatch.batch)
          ELSE ReactionBatchOk(lastBatch.batch, gases)
    /\ reactions # None =>
          /\ {Order[i] : i \in DOMAIN Order} = DOMAIN reactions
          /\ \A i \in 1 .. Len(Order) - 1 :
                reactions[Order[i]].priority > reactions[Order[i + 1]].priority

\* A pass runs each reaction at most once and in priority order, however often
\* it was suspended, refused for want of room and resumed in between
\* (next_reaction_index).
OrderedOnce ==
    LET Sound(ran, next) ==
            /\ \A i \in 1 .. Len(ran) - 1 : ran[i] < ran[i + 1]
            /\ ran # << >> => ran[Len(ran)] < next
    IN /\ \A c \in continuations : Sound(c.ran, c.next)
       /\ call # None => Sound(call.ran, call.index)

\* reaction_event_bound: what the service reserves for one call.
EventBound == 2 * Len(reactions) + 1

\* reaction_event_bound: one call never stages more events than the service
\* reserves room for.
WithinBound == call # None => Staged <= EventBound

\* What may have been evaluated where `mix` was published: the same but for traces.
Evaluations(mix) ==
    {[mix EXCEPT !.gases = amounts] : amounts \in {g \in GasAmounts : Canonical(g) = mix.gases}}

\* The reaction that a new continuation waits for is reactable in what is
\* published, or was so before publication removed the traces that native
\* reactions of the same call had left.
Announced(c) ==
    LET r == reactions[Order[c.ran[Len(c.ran)]]]
        published == Mix(c.mixture)'
    IN  \/ Reactable(r, gases, published)
        \/ /\ mixtures'[c.mixture].revision = mixtures[c.mixture].revision + 1
           /\ \E evaluated \in Evaluations(published) : Reactable(r, gases, evaluated)

\* The reaction DreamMaker is asked to run is reactable when the request becomes
\* visible, in the mixture as it then stands but for the traces removed with that
\* very publication (RunDmReaction, canonicalize_gases).
AnnouncedReactable == [][\A c \in continuations' \ continuations : Announced(c)]_vars

\* A suspended pass ends once DreamMaker keeps resuming it: each time it goes
\* on behind the reaction it stopped at, and a drained queue has room for it.
\* (A mixture at the last revision refuses every further native result.)
PassEnds ==
    \A p \in 1 .. MaxPasses :
        (\E c \in continuations : c.pass = p) ~>
            \A c \in continuations :
                c.pass = p => mixtures[c.mixture].revision = MaxRevision
=============================================================================
