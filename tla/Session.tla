------------------------------ MODULE Session ------------------------------
(***************************************************************************)
(* The shim in DreamDaemon, its I/O worker thread and the dogmosd process  *)
(* it launches, composed over the local socket:                            *)
(*                                                                         *)
(*   main     the DreamMaker thread inside a bound proc (session.rs)       *)
(*   worker   the thread of BoundedDogmosClient (client.rs)                *)
(*   loop     the accept loop of dogmosd (server lib.rs, run)              *)
(*   threads  one handle_primary thread per accepted connection            *)
(*   reader   the thread draining dogmosd's stderr into the capture        *)
(*                                                                         *)
(* A call of DreamMaker is numbered; the number travels with the request   *)
(* and with its answer, so that an answer can be told from a late one.     *)
(* Strays are other processes that open the socket: they never know the    *)
(* 256-bit token, so they never authenticate.                              *)
(***************************************************************************)
EXTENDS Naturals, Sequences, FiniteSets

CONSTANTS
    Strays,       \* connections of processes other than the shim
    Ops,          \* the operations DreamMaker may request
    MaxCalls      \* bound: calls of one session

SessionAssumption ==
    /\ MaxCalls \in Nat
    /\ "shim" \notin Strays

Conns == Strays \cup {"shim"}

Nil == 0

VARIABLES
    main,     \* [pc, call, op, seen]: where the DreamMaker thread is
    client,   \* [sender, buffer]: what the bounded client still holds
    worker,   \* [pc, call, id]: the I/O worker
    chan,     \* [req, resp]: its two channels of capacity one
    nextId,   \* the next request id of the worker's DogmosClient
    answer,   \* what the last finished call returned
    diag,     \* [pending, seq, latest, last]: stderr lines and the capture
    service,  \* the dogmosd process: "none", "running", "exited"
    reaped,   \* ServiceSession::reaped
    server,   \* [loop, active, shutdown, primary]
    threads,  \* the session thread of each connection
    lastId,   \* RequestSequence of the shim's session
    pipe      \* each connection: [state, in, out]

vars == << main, client, worker, chan, nextId, answer, diag, service, reaped,
           server, threads, lastId, pipe >>

shimVars   == << main, client, worker, chan, nextId, answer, reaped >>
serverVars == << server, threads, lastId >>

NoAnswer == [call |-> Nil, kind |-> "none", of |-> Nil, line |-> Nil]

Quiet == [pc |-> "down", call |-> Nil, op |-> "none", seen |-> 0]

Init ==
    /\ main = [Quiet EXCEPT !.pc = "unstarted"]
    /\ client = [sender |-> FALSE, buffer |-> FALSE]
    /\ worker = [pc |-> "none", call |-> Nil, id |-> Nil]
    /\ chan = [req |-> << >>, resp |-> << >>]
    /\ nextId = 1
    /\ answer = NoAnswer
    /\ diag = [pending |-> << >>, seq |-> 0, latest |-> Nil, last |-> Nil]
    /\ service = "none"
    /\ reaped = FALSE
    /\ server = [loop |-> "init", active |-> FALSE, shutdown |-> FALSE, primary |-> {}]
    /\ threads = [c \in Conns |-> "none"]
    /\ lastId = Nil
    /\ pipe = [c \in Conns |-> [state |-> "unused", in |-> << >>, out |-> << >>]]

Close(c) == [pipe EXCEPT ![c].state = "closed", ![c].in = << >>]

-----------------------------------------------------------------------------
(* The process.                                                            *)

\* The process is gone: its threads with it, and every socket it held.
Die ==
    /\ service' = "exited"
    /\ server' = [server EXCEPT !.loop = "end"]
    /\ threads' = [c \in Conns |-> IF threads[c] = "none" THEN "none" ELSE "done"]
    /\ pipe' = [c \in Conns |->
                    IF pipe[c].state = "unused" THEN pipe[c]
                    ELSE [pipe[c] EXCEPT !.state = "closed", !.in = << >>]]

\* Child::kill and Child::wait, whether or not the process still runs.
Kill ==
    IF service = "running"
    THEN Die
    ELSE UNCHANGED << service, server, threads, pipe >>

\* The stderr reader reaches the end of the file and is joined: the last line
\* of the process is the latest one.
Drained(d) ==
    IF d.pending = << >> THEN d
    ELSE [d EXCEPT !.seq = @ + Len(d.pending),
                   !.latest = d.pending[Len(d.pending)],
                   !.pending = << >>]

Record ==
    /\ diag.pending # << >>
    /\ diag' = [diag EXCEPT !.seq = @ + 1, !.latest = Head(diag.pending),
                            !.pending = Tail(@)]
    /\ UNCHANGED << shimVars, serverVars, service, pipe >>

-----------------------------------------------------------------------------
(* The shim: start_service_session.                                        *)

\* dogmosd is spawned with the handshake on its standard input.
Start ==
    /\ main.pc = "unstarted"
    /\ main' = [main EXCEPT !.pc = "connecting"]
    /\ service' = "running"
    /\ UNCHANGED << client, worker, chan, nextId, answer, diag, reaped, serverVars, pipe >>

\* Mutant of StartFails: the child is left running.
MutStartFails ==
    /\ main.pc = "connecting"
    /\ main' = Quiet
    /\ diag' = Drained(diag)
    /\ UNCHANGED << client, worker, chan, nextId, answer, reaped, lastId,
                    service, server, threads, pipe >>

\* A step of the start fails (the job object, the write to stdin, the connect
\* deadline, the worker's handle): the child is killed and waited for.
StartFails ==
    /\ main.pc = "connecting"
    /\ Kill
    /\ main' = Quiet
    /\ diag' = Drained(diag)
    /\ UNCHANGED << client, worker, chan, nextId, answer, reaped, lastId >>

\* DogmosClient::connect opens the socket once the listener exists and writes
\* the handshake, request id 1.
Connect ==
    /\ main.pc = "connecting"
    /\ service = "running" /\ server.loop # "init"
    /\ pipe["shim"].state = "unused"
    /\ pipe' = [pipe EXCEPT !["shim"] =
                   [state |-> "queued", in |-> << [call |-> Nil, id |-> 1, op |-> "handshake"] >>,
                    out |-> << >>]]
    /\ UNCHANGED << shimVars, diag, service, serverVars >>

\* The peer's handshake arrives: the bounded client is built, its worker starts.
Connected ==
    /\ main.pc = "connecting"
    /\ pipe["shim"].out # << >> /\ Head(pipe["shim"].out).kind = "ok"
    /\ pipe' = [pipe EXCEPT !["shim"].out = Tail(@)]
    /\ main' = [main EXCEPT !.pc = "idle"]
    /\ client' = [sender |-> TRUE, buffer |-> TRUE]
    /\ worker' = [worker EXCEPT !.pc = "recv"]
    /\ nextId' = 2
    /\ UNCHANGED << chan, answer, diag, reaped, service, serverVars >>

-----------------------------------------------------------------------------
(* The shim: one request.                                                  *)

\* ServiceSession::terminate_service: kill, wait, join the stderr reader, close
\* the client. The worker ends by its own steps once its pipe is broken.
Terminate ==
    /\ Kill
    /\ reaped' = TRUE
    /\ diag' = Drained(diag)
    /\ client' = [client EXCEPT !.sender = FALSE]

\* Where the session stands after a call: dogmos_service_shutdown has taken it
\* out of SERVICE_SESSION, so whatever the call returned it is dropped.
After == IF main.op = "shutdown" THEN [Quiet EXCEPT !.call = main.call]
         ELSE [main EXCEPT !.pc = "idle"]

\* A call of a bound proc. A client whose sender or buffer is gone is
\* WorkerStopped: the session is terminated, again if need be.
Request(op) ==
    /\ main.pc = "idle" /\ main.call < MaxCalls
    /\ LET call == main.call + 1 IN
       IF client.sender /\ client.buffer
       THEN /\ main' = [pc |-> "await", call |-> call, op |-> op, seen |-> diag.seq]
            /\ client' = [client EXCEPT !.buffer = FALSE]
            /\ chan' = [chan EXCEPT !.req = << [call |-> call, op |-> op] >>]
            /\ UNCHANGED << worker, nextId, answer, diag, service, reaped, serverVars, pipe >>
       ELSE /\ Terminate
            /\ main' = IF op = "shutdown" THEN [Quiet EXCEPT !.call = call]
                       ELSE [main EXCEPT !.call = call, !.op = op]
            /\ answer' = [call |-> call, kind |-> "stopped", of |-> Nil,
                          line |-> diag'.latest]
            /\ UNCHANGED << worker, chan, nextId, lastId >>

\* Mutant of Timeout: the call is given up and the session kept.
MutTimeout ==
    /\ main.pc = "await" /\ main.op # "shutdown"
    /\ client' = [sender |-> TRUE, buffer |-> TRUE]
    /\ main' = After
    /\ answer' = [call |-> main.call, kind |-> "abandoned", of |-> Nil, line |-> Nil]
    /\ UNCHANGED << worker, chan, nextId, lastId, reaped, diag, service, server, threads, pipe >>

\* Mutant of Timeout: a request the worker has not taken is withdrawn and the
\* session kept.
MutTimeoutUnsent ==
    /\ main.pc = "await" /\ main.op # "shutdown" /\ main' = After
    /\ IF chan.req # << >>
       THEN /\ client' = [client EXCEPT !.buffer = TRUE] /\ chan' = [chan EXCEPT !.req = << >>]
            /\ UNCHANGED << service, server, threads, pipe, reaped, diag >>
       ELSE Terminate /\ UNCHANGED chan
    /\ answer' = [call |-> main.call, kind |-> "timeout", of |-> Nil, line |-> diag'.last]
    /\ UNCHANGED << worker, nextId, lastId >>

\* BoundedDogmosClient::round_trip, the deadline passes first: the sender goes,
\* the buffer stays with the worker, and the session is terminated before the
\* last diagnostic is read.
Timeout ==
    /\ main.pc = "await"
    /\ Terminate
    /\ main' = After
    /\ answer' = [call |-> main.call, kind |-> "timeout", of |-> Nil, line |-> diag'.latest]
    /\ UNCHANGED << worker, chan, nextId, lastId >>

\* The worker's answer arrives in time and is no connection error. A service
\* error is reported with a diagnostic newer than the request, if one arrives
\* within the wait, and looks at the child with try_wait; a successful Shutdown goes on to wait for the process.
Receive ==
    /\ main.pc = "await"
    /\ chan.resp # << >> /\ Head(chan.resp).kind \in {"ok", "error"}
    /\ LET r == Head(chan.resp) IN
       /\ chan' = [chan EXCEPT !.resp = << >>]
       /\ client' = [client EXCEPT !.buffer = TRUE]
       /\ answer' = [call |-> main.call, kind |-> r.kind, of |-> r.call,
                     line |-> IF r.kind = "error" /\ main.seen < diag.seq
                              THEN diag.latest ELSE Nil]
       /\ IF r.kind = "error" /\ main.op = "shutdown"
          THEN \* ServiceSession::drop
               /\ Kill /\ reaped' = TRUE /\ diag' = Drained(diag)
               /\ main' = After
          ELSE /\ main' = IF main.op = "shutdown" THEN [main EXCEPT !.pc = "reap"] ELSE After
               /\ reaped' = (reaped \/ (r.kind = "error" /\ service = "exited"))
               /\ UNCHANGED << service, server, threads, pipe, diag >>
    /\ UNCHANGED << worker, nextId, lastId >>

\* An I/O, protocol or transport error poisons the client: the sender goes, the
\* error is returned, and the process is left to the next call or to Drop.
ReceiveFatal ==
    /\ main.pc = "await"
    /\ chan.resp # << >> /\ Head(chan.resp).kind = "fatal"
    /\ chan' = [chan EXCEPT !.resp = << >>]
    /\ client' = [sender |-> FALSE, buffer |-> TRUE]
    /\ answer' = [call |-> main.call, kind |-> "fatal", of |-> Head(chan.resp).call, line |-> Nil]
    /\ main' = After
    /\ IF main.op = "shutdown"
       THEN Kill /\ reaped' = TRUE /\ diag' = Drained(diag)
       ELSE UNCHANGED << service, server, threads, pipe, diag, reaped >>
    /\ UNCHANGED << worker, nextId, lastId >>

\* ServiceSession::shutdown waits, without a bound, for the process to exit.
Reap ==
    /\ main.pc = "reap" /\ service = "exited"
    /\ reaped' = TRUE
    /\ diag' = Drained(diag)
    /\ client' = [client EXCEPT !.sender = FALSE]
    /\ main' = After
    /\ UNCHANGED << worker, chan, nextId, answer, service, serverVars, pipe >>

\* dogmos_service_health: a finished worker or an exited child is unhealthy; the
\* child found exited is reaped by try_wait.
Health ==
    /\ main.pc = "idle" /\ worker.pc # "done"
    /\ service = "exited" /\ ~reaped
    /\ reaped' = TRUE
    /\ UNCHANGED << main, client, worker, chan, nextId, answer, diag, service, serverVars, pipe >>

-----------------------------------------------------------------------------
(* The I/O worker.                                                         *)

\* receiver.recv: a request is written to the pipe under the next request id.
\* A broken pipe is a transport error.
WorkerSend ==
    /\ worker.pc = "recv" /\ chan.req # << >>
    /\ LET r == Head(chan.req) IN
       /\ nextId' = nextId + 1
       /\ IF pipe["shim"].state = "closed"
          THEN /\ worker' = worker
               /\ chan' = [req |-> << >>, resp |-> << [call |-> r.call, kind |-> "fatal"] >>]
               /\ pipe' = pipe
          ELSE /\ worker' = [pc |-> "read", call |-> r.call, id |-> nextId]
               /\ chan' = [chan EXCEPT !.req = << >>]
               /\ pipe' = [pipe EXCEPT !["shim"].in =
                              Append(@, [call |-> r.call, id |-> nextId, op |-> r.op])]
    /\ UNCHANGED << main, client, answer, diag, service, reaped, serverVars >>

\* read_frame_into: an error frame is taken as it comes; any other must carry
\* the id of the request.
WorkerRead ==
    /\ worker.pc = "read"
    /\ pipe["shim"].out # << >>
    /\ LET f == Head(pipe["shim"].out) IN
       /\ chan' = [chan EXCEPT !.resp =
                      << [call |-> f.call,
                          kind |-> IF f.kind = "error" \/ f.id = worker.id
                                   THEN f.kind ELSE "fatal"] >>]
       /\ pipe' = [pipe EXCEPT !["shim"].out = Tail(@)]
    /\ worker' = [pc |-> "recv", call |-> Nil, id |-> Nil]
    /\ UNCHANGED << main, client, nextId, answer, diag, service, reaped, serverVars >>

\* Mutant of WorkerBroken: the worker reads again.
MutWorkerBroken ==
    /\ worker.pc = "read"
    /\ pipe["shim"].out = << >> /\ pipe["shim"].state = "closed"
    /\ UNCHANGED vars

\* The pipe breaks while the worker reads.
WorkerBroken ==
    /\ worker.pc = "read"
    /\ pipe["shim"].out = << >> /\ pipe["shim"].state = "closed"
    /\ chan' = [chan EXCEPT !.resp = << [call |-> worker.call, kind |-> "fatal"] >>]
    /\ worker' = [pc |-> "recv", call |-> Nil, id |-> Nil]
    /\ UNCHANGED << main, client, nextId, answer, diag, service, reaped, serverVars, pipe >>

\* The sender is dropped and the channel empty: recv fails, the thread ends and
\* with it the connection.
WorkerEnds ==
    /\ worker.pc = "recv" /\ chan.req = << >> /\ ~client.sender
    /\ worker' = [worker EXCEPT !.pc = "done"]
    /\ pipe' = Close("shim")
    /\ UNCHANGED << main, client, chan, nextId, answer, diag, service, reaped, serverVars >>

-----------------------------------------------------------------------------
(* dogmosd: run.                                                           *)

\* read_startup_handshake, verify_executable_identity, create_listener.
Listen ==
    /\ service = "running" /\ server.loop = "init"
    /\ server' = [server EXCEPT !.loop = "test"]
    /\ UNCHANGED << shimVars, diag, service, threads, lastId, pipe >>

\* The executable's digest is not the expected one, or the endpoint is taken.
ListenFails ==
    /\ service = "running" /\ server.loop = "init"
    /\ Die
    /\ UNCHANGED << shimVars, diag, lastId >>

\* while !shutdown.load(): the flag is read before the accept.
LoopTest ==
    /\ service = "running" /\ server.loop = "test"
    /\ server' = [server EXCEPT !.loop = IF server.shutdown THEN "join" ELSE "accept"]
    /\ UNCHANGED << shimVars, diag, service, threads, lastId, pipe >>

\* A connection in the listener's backlog, even one its peer has left again.
Waiting(c) == pipe[c].state \in {"queued", "left"} /\ threads[c] = "none"

LoopIdle ==
    /\ service = "running" /\ server.loop = "accept"
    /\ \A c \in Conns : ~Waiting(c)
    /\ server' = [server EXCEPT !.loop = "test"]
    /\ UNCHANGED << shimVars, diag, service, threads, lastId, pipe >>

\* listener.accept with active.swap(true) false: a session thread is spawned, and
\* its handle replaces the one held.
AcceptPrimary(c) ==
    /\ service = "running" /\ server.loop = "accept"
    /\ Waiting(c) /\ ~server.active
    /\ server' = [server EXCEPT !.loop = "test", !.active = TRUE, !.primary = {c}]
    /\ threads' = [threads EXCEPT ![c] = "handshake"]
    /\ pipe' = [pipe EXCEPT ![c].state = IF @ = "left" THEN "left" ELSE "open"]
    /\ UNCHANGED << shimVars, diag, service, lastId >>

\* ... and true: reject_busy answers and drops the stream. A peer that has
\* already closed makes the write fail, and the error leaves run.
AcceptBusy(c) ==
    /\ service = "running" /\ server.loop = "accept"
    /\ Waiting(c) /\ server.active
    /\ IF pipe[c].state = "left"
       THEN Die
       ELSE /\ server' = [server EXCEPT !.loop = "test"]
            /\ pipe' = [pipe EXCEPT ![c].state = "closed", ![c].in = << >>,
                                    ![c].out = << [call |-> Nil, id |-> 0, kind |-> "busy"] >>]
            /\ UNCHANGED << service, threads >>
    /\ UNCHANGED << shimVars, diag, lastId >>

\* The last thread spawned is joined, then run returns and the process exits.
LoopJoin ==
    /\ service = "running" /\ server.loop = "join"
    /\ \A c \in server.primary : threads[c] = "done"
    /\ Die
    /\ UNCHANGED << shimVars, diag, lastId >>

-----------------------------------------------------------------------------
(* dogmosd: handle_primary.                                                *)

\* The first frame must be a handshake naming the expected peer. Only then does
\* the guard exist whose drop stops the service.
Handshake(c) ==
    /\ service = "running" /\ threads[c] = "handshake"
    /\ pipe[c].in # << >>
    /\ IF Head(pipe[c].in).op = "handshake" /\ c = "shim"
       THEN /\ threads' = [threads EXCEPT ![c] = "serving"]
            /\ pipe' = [pipe EXCEPT ![c].in = Tail(@),
                           ![c].out = Append(@, [call |-> Nil, id |-> 1, kind |-> "ok"])]
            /\ lastId' = Head(pipe[c].in).id
       ELSE /\ threads' = [threads EXCEPT ![c] = "leaving"]
            /\ pipe' = Close(c)
            /\ lastId' = lastId
    /\ UNCHANGED << shimVars, diag, service, server >>

\* The arms of the dispatch: whether the request is answered, refused with a
\* typed error (a malformed payload, or a conflict the state reports and
\* write_state_error_response prints), or ends the session through `?`.
EchoArm         == {"ok"}
BatchArm        == {"ok", "fatal"}
CallbackArm     == {"ok", "invalid", "fatal"}
EnqueueArm      == {"ok", "invalid", "fatal"}
AllocateArm     == {"ok", "invalid", "fatal"}
SnapshotArm     == {"ok", "invalid", "state"}
SnapshotsArm    == {"ok", "invalid"}
CommandArm      == {"ok", "invalid", "state"}
ContinuationArm == {"ok", "invalid", "state"}
InstallArm      == {"ok", "invalid", "state"}
LifecycleArm    == {"ok", "invalid", "state"}
UploadArm       == {"ok", "invalid", "state"}
GraphArm        == {"ok", "invalid", "state"}
StageArm        == {"ok", "invalid", "state"}
FrontierArm     == {"ok", "invalid", "state"}
TelemetryArm    == {"ok", "invalid"}

Arms ==
    [echo |-> EchoArm, batch |-> BatchArm, drain |-> CallbackArm, enqueue |-> EnqueueArm,
     allocate |-> AllocateArm, snapshot |-> SnapshotArm, snapshots |-> SnapshotsArm,
     command |-> CommandArm, continuation |-> ContinuationArm, install |-> InstallArm,
     lifecycle |-> LifecycleArm, upload |-> UploadArm, graph |-> GraphArm,
     stage |-> StageArm, frontier |-> FrontierArm, telemetry |-> TelemetryArm,
     shutdown |-> {"ok"}]

\* write_response, write_error_response.
Answer(r, kind) ==
    pipe' = [pipe EXCEPT !["shim"].in = Tail(@),
                         !["shim"].out = Append(@, [call |-> r.call, id |-> r.id, kind |-> kind])]

\* One turn of the request loop. A request id that does not increase and an
\* elapsed budget are refused before the dispatch.
Serve ==
    /\ service = "running" /\ threads["shim"] = "serving"
    /\ pipe["shim"].in # << >>
    /\ LET r == Head(pipe["shim"].in) IN
       IF r.id <= lastId
       THEN Answer(r, "error") /\ UNCHANGED << threads, server, lastId, diag >>
       ELSE /\ lastId' = r.id
            /\ \E outcome \in (Arms[r.op] \ {"fatal"}) \cup {"late"} :
               /\ Answer(r, IF outcome = "ok" THEN "ok" ELSE "error")
               /\ diag' = IF outcome = "state"
                          THEN [diag EXCEPT !.pending = Append(@, r.call), !.last = r.call]
                          ELSE diag
               /\ IF outcome = "ok" /\ r.op = "shutdown"
                  THEN /\ threads' = [threads EXCEPT !["shim"] = "leaving"]
                       /\ server' = [server EXCEPT !.shutdown = TRUE]
                  ELSE UNCHANGED << threads, server >>
    /\ UNCHANGED << shimVars, service >>

\* An error the arm passes on with `?` ends the session without an answer; the
\* guard sets the shutdown flag.
ServeFails ==
    /\ service = "running" /\ threads["shim"] = "serving"
    /\ pipe["shim"].in # << >>
    /\ LET r == Head(pipe["shim"].in) IN
       /\ r.id > lastId /\ "fatal" \in Arms[r.op]
       /\ lastId' = r.id
    /\ threads' = [threads EXCEPT !["shim"] = "leaving"]
    /\ server' = [server EXCEPT !.shutdown = TRUE]
    /\ pipe' = Close("shim")
    /\ UNCHANGED << shimVars, service, diag >>

\* The peer closed the connection: read_frame_into fails. After the handshake
\* the guard sets the shutdown flag; before it nothing does.
Disconnected(c) ==
    /\ service = "running" /\ threads[c] \in {"handshake", "serving"}
    /\ pipe[c].state \in {"closed", "left"} /\ pipe[c].in = << >>
    /\ server' = [server EXCEPT !.shutdown = server.shutdown \/ threads[c] = "serving"]
    /\ threads' = [threads EXCEPT ![c] = "leaving"]
    /\ UNCHANGED << shimVars, diag, service, lastId, pipe >>

\* The thread, out of handle_primary, clears the active flag and ends.
ThreadEnds(c) ==
    /\ service = "running" /\ threads[c] = "leaving"
    /\ threads' = [threads EXCEPT ![c] = "done"]
    /\ server' = [server EXCEPT !.active = FALSE]
    /\ UNCHANGED << shimVars, diag, service, lastId, pipe >>

-----------------------------------------------------------------------------
(* Strays: they open the socket, may write something, may go away.         *)

StrayConnects(c) ==
    /\ service = "running" /\ server.loop \notin {"init", "end"}
    /\ pipe[c].state = "unused"
    /\ pipe' = [pipe EXCEPT ![c].state = "queued"]
    /\ UNCHANGED << shimVars, diag, service, serverVars >>

StrayWrites(c) ==
    /\ pipe[c].state \in {"queued", "open"} /\ pipe[c].in = << >>
    /\ threads[c] \in {"none", "handshake"}
    /\ \E op \in {"handshake", "echo"} :
          pipe' = [pipe EXCEPT ![c].in = << [call |-> Nil, id |-> 1, op |-> op] >>]
    /\ UNCHANGED << shimVars, diag, service, serverVars >>

StrayLeaves(c) ==
    /\ pipe[c].state \in {"queued", "open"}
    /\ pipe' = [pipe EXCEPT ![c].state = "left", ![c].in = << >>]
    /\ UNCHANGED << shimVars, diag, service, serverVars >>

-----------------------------------------------------------------------------

Shim ==
    \/ Start
    \/ StartFails
    \/ Connect
    \/ Connected
    \/ \E op \in Ops : Request(op)
    \/ Timeout
    \/ Receive
    \/ ReceiveFatal
    \/ Reap
    \/ Health

Worker ==
    \/ WorkerSend
    \/ WorkerRead
    \/ WorkerBroken
    \/ WorkerEnds

Loop ==
    \/ Listen
    \/ LoopTest
    \/ LoopIdle
    \/ \E c \in Conns : AcceptPrimary(c)
    \/ \E c \in Conns : AcceptBusy(c)
    \/ LoopJoin

Thread(c) ==
    \/ Handshake(c)
    \/ Disconnected(c)
    \/ ThreadEnds(c)

Next ==
    \/ Shim
    \/ Worker
    \/ Loop
    \/ ListenFails
    \/ \E c \in Conns : Thread(c)
    \/ Serve
    \/ ServeFails
    \/ Record
    \/ \E c \in Strays : StrayConnects(c)
    \/ \E c \in Strays : StrayWrites(c)
    \/ \E c \in Strays : StrayLeaves(c)

\* A start, and the wait for an answer, both of which end by themselves.
Starting == StartFails \/ Connect \/ Connected
Awaiting == Timeout \/ Receive \/ ReceiveFatal

\* Threads run, and the waits of the shim are bounded by their deadlines; no
\* call is ever forced on DreamMaker, a stray need never do anything, and the
\* service may take forever over a request.
Fairness ==
    /\ WF_vars(Starting)
    /\ WF_vars(Awaiting)
    /\ WF_vars(Reap)
    /\ WF_vars(Worker)
    /\ WF_vars(Loop)
    /\ \A c \in Conns : WF_vars(Thread(c))
    /\ WF_vars(Record)

Spec == Init /\ [][Next]_vars /\ Fairness

-----------------------------------------------------------------------------

\* What a call returns is the service's answer to that very call: an answer that
\* arrives after round_trip gave up at client.rs:391 is never taken for the
\* answer of a later request, although an error frame is not matched by its id.
OwnAnswer ==
    answer.kind \in {"ok", "error"} => answer.of = answer.call

\* The active flag admits one connection at a time to handle_primary, whatever
\* other connections are refused, fail or vanish meanwhile.
OneAdmitted ==
    service = "running"
        => Cardinality({c \in Conns : threads[c] \in {"handshake", "serving", "leaving"}}) <= 1

\* Whom the service talks to and about what: one connection at a time, and each call
\* is given its own answer.
AnswersMatch == OwnAnswer /\ OneAdmitted

\* A session that is gone leaves no dogmosd behind: every way out of
\* start_service_session, terminate_service, shutdown and Drop kills the child
\* or has seen it exit.
NoneRuns ==
    main.pc = "down" => service # "running"

\* The diagnostic reported with a timeout or a dead session is the last line the
\* service wrote, even a line the stderr reader had not reached: the process is
\* killed and the reader joined before latest() is called.
LastWords ==
    answer.kind \in {"timeout", "stopped"} /\ main.call = answer.call /\ main.pc # "await"
        => answer.line = diag.last

\* How a session ends: no process is left, and its last line is known.
NoOrphan == NoneRuns /\ LastWords

\* The shim fails closed: after a call that timed out or lost the connection, no
\* later call of the session is ever answered by the service.
FailsClosed ==
    [][answer.kind \in {"timeout", "fatal", "stopped"}
          => answer'.kind \notin {"ok", "error"}]_vars

\* A poisoned or closed client's worker thread ends: it is never left blocked on
\* the pipe of a service that was killed.
WorkerStops ==
    (worker.pc # "none" /\ ~client.sender) ~> worker.pc = "done"

-----------------------------------------------------------------------------
(* Three promises the session does not keep (README, section 4). No run    *)
(* checks them.                                                            *)

\* dogmosd does not survive its authenticated client: a session that ends, by
\* Shutdown, by an error or by a disconnect, ends the process.
ServiceExits ==
    (threads["shim"] = "leaving" /\ server.shutdown) ~> service = "exited"

\* A connection of another process never ends the service under the
\* authenticated session: it is answered Busy.
StraysHarmless ==
    [][threads["shim"] = "serving" /\ service = "running" /\ reaped' = reaped
          => service' = "running"]_vars

\* A request the service could decode is answered, with a typed error when it
\* conflicts with the service's state: it does not end the session.
ConflictsAnswered ==
    [][threads["shim"] = "serving" /\ threads'["shim"] = "leaving"
          => pipe["shim"].in = << >> \/ pipe'["shim"].out # pipe["shim"].out]_vars

=============================================================================
