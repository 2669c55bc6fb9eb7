------------------------------ MODULE DmBridge ------------------------------
(***************************************************************************)
(* The game on one side of the shim and the service on the other. The      *)
(* service's answer reaches the game as a list of numbers; the game writes *)
(* the list of its next call, with the identifier the answer gave it where *)
(* that call has its place for one; the shim reads the list. Up to         *)
(* MaxAltered numbers or lengths of the list may be other than the game    *)
(* first wrote, so that lists close to one another are compared.           *)
(***************************************************************************)
EXTENDS DmLists

CONSTANTS
    Procs,       \* the procs of the run
    MaxAltered   \* how far the lists that are compared lie apart

VARIABLES
    answer,    \* <<the service's last answer>>: [kind, body]
    told,      \* <<the numbers the game was given>>
    proc,      \* the proc the game calls, "" before
    written,   \* its lists of numbers, as first written
    lists,     \* and as they are passed
    altered    \* in how many places they differ

vars == <<answer, told, proc, written, lists, altered>>

-----------------------------------------------------------------------------
(* The service's answers: values at both sides of every width.             *)

Wide == {1, MaxExact + 1, 2 ^ (2 * WordBits) - 1}
Double == {3 + 2 * 2 ^ WordBits + 5 * 2 ^ (2 * WordBits) + 7 * 2 ^ (3 * WordBits),
           MaxExact + 1, 2 ^ (4 * WordBits) - 1}
Scalar == {0, Fraction, Negative, NonFinite}

\* Handles are the game's own: each was read by Exact32 when it was registered.
Known == {<<0, 1>>, <<MaxExact - 1, 1>>, <<MaxExact, MaxExact>>}

Tokens == {t \in [generation : {1, MaxExact + 1}, id : Double, deadline : Double] :
             t.id # t.deadline}

Snapshots ==
    [handle : Known, revision : Wide \cup {MaxExact}, count : {0, MaxGas},
     scalars : {<<x, y>> : x, y \in Scalar}, immutable : {0, 1}]

Bodies(kind) ==
    CASE kind = "snapshot" -> {s \in Snapshots : s.handle = <<0, 1>>}
      [] kind = "record" -> Snapshots
      [] kind = "heat" -> {None} \cup {Some(<<x, y, 0, s>>) : x, y \in Scalar, s \in {0, 1}}
      [] kind = "command" ->
           [kind : {1}, updated : 0 .. 2] \cup [kind : {2}, value : Scalar \ {NonFinite}]
             \cup [kind : {3}, value : {0, Fraction}, second : {0, Fraction}]
             \cup [kind : {4}, value : {0, 1}]
             \cup [kind : {5}, flags : {0, 7}, work : {0, MaxLimit}, pending : {0, 1},
                   transaction : Double]
      [] kind = "event" ->
           {e \in [sequence : {1, MaxExact + 1}, transaction : {0} \cup Double, scope : {1, 2},
                   kind : {1, 7}, flags : {0}, subject : Known, target : {<<1, 2>>},
                   value : {0, NonFinite}, aux : {5},
                   token : {None} \cup {Some(t) : t \in Tokens}] :
              /\ (e.kind = 7) <=> (e.token # None)
              /\ (e.scope = 1) <=> (e.transaction = 0)}
      [] kind = "stage" ->
           [work : {0, MaxLimit}, callbacks : Wide, pending : {0, 1}, remaining : Wide,
            seeds : {<<x, y, 1>> : x, y \in Wide}]
      [] kind = "begin" -> Double
      [] kind = "commit" -> [epoch : Double, count : Wide]
      [] kind = "telemetry" ->
           [depths : {<<x, y>> : x, y \in Wide}, counters : {<<x, y>> : x, y \in Double}]
      [] kind = "metrics" ->
           [flags : {0, 1, 6, 7}, sizes : {<<x, y, 0, 0>> : x, y \in {0} \cup Double},
            service : [flags : {0, 3}, rss : Double, cpu : {0, 1}]]

AnswerKinds == {"snapshot", "record", "heat", "command", "event", "stage", "begin", "commit",
          "telemetry", "metrics"}

Numbers(kind, body) ==
    CASE kind = "snapshot" -> SnapshotNumbers(body)
      [] kind = "record" -> RecordNumbers(body)
      [] kind = "heat" -> HeatNumbers(body)
      [] kind = "command" -> {AnswerNumbers(body)}
      [] kind = "event" -> EventNumbers(body)
      [] kind = "stage" -> {StageNumbers(body)}
      [] kind = "begin" -> {EpochNumbers(body)}
      [] kind = "commit" -> {CommitNumbers(body)}
      [] kind = "telemetry" -> {TelemetryNumbers(body)}
      [] kind = "metrics" -> MetricsNumbers([flags |-> body.flags, sizes |-> body.sizes],
                                            body.service)

-----------------------------------------------------------------------------
(* The game's calls: for each proc lists that exercise each of its forms.  *)

Token == <<1, 0, 2, 3, 0, 1, 4, 0, 5, 0>>

Arguments(p) ==
    CASE p = "drain" -> {<<<<1, 0, 0, 0, 0, 1, 0>>>>, <<<<2, 1, 2, 3, 0, 2, 0>>>>}
      [] p = "resume" -> {<<Token \o <<5>>>>}
      [] p = "cancel" -> {<<Token>>}
      [] p = "command" ->
           {<<<<3, 0, 1, 2, 0, 0, 7, Fraction, 0, 1, 0>>>>,
            <<<<36, 1, 1, 2, 3, 4, 5, 0, 0, 0, 0>>>>,
            <<<<31, 0, 1, 2, MaxExact, 4, Negative, 0, 0, 0, 9>>>>}
      [] p = "continuation_command" -> {<<Token \o <<13, 0, 1, 2, 0, 0, 0, 0, 0, 0, 0>>>>}
      [] p = "adjust" -> {<<<<1, 2>>>>, <<<<1, 2, 0, Negative, 1, 4>>>>}
      [] p = "continuation_adjust" -> {<<Token \o <<1, 2, 0, Negative>>>>}
      [] p = "lifecycle" -> {<<<<1, 2, 3, 2, 4, 5>>>>}
      [] p \in {"handles", "handle"} -> {<<<<2, 3>>>>}
      [] p = "states" -> {<<<<1, 2, 3, 4, 5, Fraction, 6, 0>>>>}
      [] p = "turfs" -> {<<<<1, 2, 3, 1, 4, 5, 2, 6, 7, 0, 0, 0>>>>}
      [] p = "edges" -> {<<<<1, 2, 3, 4, 1, 0, 3, 4, 5, 6, 0, 0>>>>}
      [] p = "heat_edges" -> {<<<<1, 2, 3, 4, 0>>>>}
      [] p = "heat" -> {<<<<1, 2, 1, 3, Fraction, 5, 1>>>>, <<<<1, 2, 0, 0, 0, 0, 0>>>>}
      [] p = "frontier_begin" -> {<<<<1, 2, 3, 4, 5, 6>>>>}
      [] p = "frontier_append" -> {<<<<1, 2, 3, 4, 5, 6, 7, 8, 9, 0>>>>}
      [] p = "frontier_mutate" -> {<<<<1, 2, 3, 4, 5, 6, 7, 8, 1, 0, 1, 0>>>>}
      [] p = "frontier_commit" -> {<<<<1, 2, 3, 4>>>>}
      [] p = "stage" -> {<<<<1, 2, 3, 4, 5, 6, 7, 8, 9, 1, 0, Fraction>>>>}
      [] p = "gases" ->
           {<<<<1, 2, 3, 4, 5, 1, 6, 7, 8, 2, 9, 1, 1>>, <<1>>, <<2>>, <<0, 1, 2>>>>,
            <<<<1, 2, 3, 4, 5, 0, 0, 7, 8, 0, 0, 0, 0>>, <<1>>, <<2>>, <<>>>>}
      [] p = "reactions" ->
           {<<<<1, 2, 0, 3, 1, 4, 0, 0, 1, 5, 0, 0>>, <<1>>, <<0, 1, 2>>>>}

Read(p, args) ==
    CASE p = "drain" -> ReadDrain(args[1])
      [] p = "resume" -> ReadResume(args[1])
      [] p = "cancel" -> ReadToken(args[1])
      [] p = "command" -> ReadCommand(args[1])
      [] p = "continuation_command" -> ReadContinuationCommand(args[1])
      [] p = "adjust" -> ReadAdjust(args[1])
      [] p = "continuation_adjust" -> ReadContinuationAdjust(args[1])
      [] p = "lifecycle" -> ReadLifecycle(args[1])
      [] p = "handles" -> ReadHandles(args[1])
      [] p = "handle" -> ReadHandle(args[1])
      [] p = "states" -> ReadStates(args[1])
      [] p = "turfs" -> ReadTurfs(args[1])
      [] p = "edges" -> ReadEdges(args[1])
      [] p = "heat_edges" -> ReadHeatEdges(args[1])
      [] p = "heat" -> ReadHeat(args[1])
      [] p = "frontier_begin" -> ReadFrontierBegin(args[1])
      [] p = "frontier_append" -> ReadFrontierAppend(args[1])
      [] p = "frontier_mutate" -> ReadFrontierMutate(args[1])
      [] p = "frontier_commit" -> ReadFrontierCommit(args[1])
      [] p = "stage" -> ReadStage(args[1])
      [] p = "gases" -> ReadGases(args[1], args[2], args[3], args[4])
      [] p = "reactions" -> ReadReactions(args[1], args[2], args[3])

-----------------------------------------------------------------------------
(* Where an answer holds an identifier, and where a call wants it.         *)

\* <<kind of answer, proc, first number in the answer, in the call, how many>>
Routes ==
    {<<"snapshot", "states", 1, 3, 2>>, <<"record", "states", 3, 3, 2>>,
     <<"record", "states", 1, 1, 2>>, <<"record", "handle", 1, 1, 2>>,
     <<"record", "command", 1, 3, 2>>,
     <<"command", "drain", 5, 2, 4>>, <<"event", "drain", 5, 2, 4>>,
     <<"begin", "frontier_append", 1, 1, 4>>, <<"begin", "frontier_commit", 1, 1, 4>>,
     <<"commit", "frontier_mutate", 1, 1, 4>>, <<"commit", "stage", 1, 2, 4>>,
     <<"event", "resume", 24, 1, 10>>, <<"event", "cancel", 24, 1, 10>>,
     <<"event", "continuation_command", 24, 1, 10>>,
     <<"event", "continuation_adjust", 24, 1, 10>>}

Carries(body, route) ==
    /\ route[1] = "command" => body.kind = 5
    /\ route[2] = "drain" /\ route[1] = "event" => body.scope = 2 /\ body.transaction # 0
    /\ route[4] = 1 /\ route[1] = "event" => body.token # None

Issued(body, route) ==
    CASE route[5] = 10 -> body.token[1]
      [] route[1] \in {"command", "event"} -> body.transaction
      [] route[1] = "begin" -> body
      [] route[1] = "commit" -> body.epoch
      [] route[1] = "record" /\ route[3] = 1 -> body.handle
      [] OTHER -> body.revision

Received(request, route) ==
    CASE route[2] = "cancel" -> request
      [] route[5] = 10 -> request.token
      [] route[2] = "drain" -> request.transaction
      [] route[5] = 4 -> request.epoch
      [] route[2] = "handle" -> request
      [] route[2] = "command" -> request.primary
      [] route[3] = route[4] /\ route[1] = "record" /\ route[3] = 1 -> request[1].handle
      [] OTHER -> request[1].revision

Spliced(list, route) ==
    [i \in DOMAIN list |->
       IF i \in route[4] .. route[4] + route[5] - 1
       THEN told[1][route[3] + i - route[4]] ELSE list[i]]

-----------------------------------------------------------------------------

Init ==
    /\ answer = None /\ told = None
    /\ proc = "" /\ written = <<>> /\ lists = <<>> /\ altered = 0

\* A proc returns: a list, or an error when an f32 cannot hold a scalar.
Answer ==
    /\ answer = None /\ proc = ""
    /\ \E k \in AnswerKinds : \E b \in Bodies(k) :
         /\ answer' = Some([kind |-> k, body |-> b])
         /\ told' \in {Some(list) : list \in Numbers(k, b)}
    /\ UNCHANGED <<proc, written, lists, altered>>

\* The game calls a proc with lists of its own.
Call ==
    /\ answer = None /\ proc = ""
    /\ \E p \in Procs : \E args \in Arguments(p) :
         proc' = p /\ written' = args /\ lists' = args
    /\ UNCHANGED <<answer, told, altered>>

\* The game calls a proc with an identifier it was told.
CallBack ==
    /\ answer # None /\ proc = ""
    /\ \E route \in Routes :
         /\ route[1] = answer[1].kind /\ Carries(answer[1].body, route)
         /\ \E args \in Arguments(route[2]) :
              /\ route[2] = "drain" => args[1][1] = 2
              /\ proc' = route[2]
              /\ written' = <<Spliced(args[1], route)>>
              /\ lists' = <<Spliced(args[1], route)>>
    /\ UNCHANGED <<answer, told, altered>>

\* At and beyond the edges of every check.
Samples == {0, 1, 2, 3, 36, 2 ^ WordBits - 1, 2 ^ WordBits, MaxExact, MaxExact + 2,
            Fraction, Negative, NonFinite}

Altered(args) ==
    /\ proc # "" /\ answer = None
    /\ altered < MaxAltered
    /\ lists' = args
    /\ altered' = altered + 1
    /\ UNCHANGED <<answer, told, proc, written>>

OtherNumber ==
    \E l \in DOMAIN lists : \E i \in DOMAIN lists[l], x \in Samples :
        Altered([lists EXCEPT ![l][i] = x])

OtherLength ==
    \E l \in DOMAIN lists :
        \/ lists[l] # <<>> /\ Altered([lists EXCEPT ![l] = Front(@)])
        \/ Altered([lists EXCEPT ![l] = Append(@, 1)])

Next ==
    \/ Answer
    \/ Call
    \/ CallBack
    \/ OtherNumber
    \/ OtherLength

Spec == Init /\ [][Next]_vars

-----------------------------------------------------------------------------

\* An identifier the service issued (a mixture's revision, a handle, a
\* transaction, an epoch, a continuation's token) comes back to the service as
\* itself when the game hands the numbers it was given to any proc that takes
\* one, whatever its width: no value is refused, rounded or truncated.
IdentifierReturns ==
    (answer # None /\ proc # "") =>
        \A route \in Routes :
            (/\ route[1] = answer[1].kind /\ route[2] = proc
             /\ Carries(answer[1].body, route)
             /\ written[1] = Spliced(written[1], route)) =>
                \E request \in Read(proc, lists) :
                    Received(request, route) = Issued(answer[1].body, route)

\* No two different answers reach the game as the same numbers, so the game can
\* tell every revision, handle, count, flag and token from every other. It
\* rests on the handles being ones that a proc accepted before.
AnswersTold ==
    told # None =>
        \A b \in Bodies(answer[1].kind) :
            told[1] \in Numbers(answer[1].kind, b) => b = answer[1].body

\* The shim reads every number of every list: two lists that differ anywhere,
\* in a number or in length, are never sent as the same request.
ReadInFull ==
    (proc # "" /\ lists # written) => Read(proc, lists) \cap Read(proc, written) = {}

=============================================================================
