---------------------------- MODULE SessionProofs ----------------------------
(***************************************************************************)
(* Proofs about the session between the shim and dogmosd, for any number   *)
(* of other processes on the socket, any operations and any calls.         *)
(***************************************************************************)
EXTENDS Session, FiniteSetTheorems, SequenceTheorems, TLAPS

(***************************************************************************)
(* Types.                                                                  *)
(***************************************************************************)
Requests == [call : Nat, id : Nat, op : Ops \cup {"handshake", "echo"}]
Frames   == [call : Nat, id : Nat, kind : {"ok", "error", "busy"}]
Asks     == [call : Nat, op : Ops]
Replies  == [call : Nat, kind : {"ok", "error", "busy", "fatal"}]

MainType ==
    main \in [pc : {"unstarted", "connecting", "idle", "await", "reap", "down"},
              call : Nat, op : Ops \cup {"none"}, seen : Nat]

ClientType == client \in [sender : BOOLEAN, buffer : BOOLEAN]

WorkerType == worker \in [pc : {"none", "recv", "read", "done"}, call : Nat, id : Nat]

ChanType == chan \in [req : Seq(Asks), resp : Seq(Replies)]

AnswerType ==
    answer \in [call : Nat, kind : {"none", "ok", "error", "timeout", "stopped", "fatal"},
                of : Nat, line : Nat]

DiagType == diag \in [pending : Seq(Nat), seq : Nat, latest : Nat, last : Nat]

ServerType ==
    server \in [loop : {"init", "test", "accept", "join", "end"}, active : BOOLEAN,
                shutdown : BOOLEAN, primary : SUBSET Conns]

ThreadsType == threads \in [Conns -> {"none", "handshake", "serving", "leaving", "done"}]

PipeType ==
    pipe \in [Conns -> [state : {"unused", "queued", "open", "closed", "left"},
                        in : Seq(Requests), out : Seq(Frames)]]

ShimTypes    == MainType /\ ClientType /\ WorkerType /\ ChanType /\ AnswerType /\ nextId \in Nat
ServiceTypes == /\ service \in {"none", "running", "exited"} /\ lastId \in Nat
                /\ ServerType /\ ThreadsType /\ PipeType
TypeInv      == ShimTypes /\ DiagType /\ ServiceTypes

-----------------------------------------------------------------------------
(* The operators.                                                          *)

\* What the reader has recorded and what it has not: the newest line of both is
\* the last one the service wrote.
NewestLine(d) == IF d.pending = << >> THEN d.latest = d.last
                 ELSE d.pending[Len(d.pending)] = d.last

\* Joining the stderr reader loses nothing: the newest line is then the latest.
LEMMA DrainedSound ==
    ASSUME DiagType
    PROVE  /\ Drained(diag) \in [pending : Seq(Nat), seq : Nat, latest : Nat, last : Nat]
           /\ Drained(diag).pending = << >>
           /\ Drained(diag).last = diag.last
           /\ NewestLine(diag) => Drained(diag).latest = diag.last
<1>1. CASE diag.pending = << >>
    BY <1>1 DEF DiagType, Drained, NewestLine
<1>2. CASE diag.pending # << >>
    <2>1. /\ Len(diag.pending) \in Nat
          /\ diag.pending[Len(diag.pending)] \in Nat
        BY <1>2 DEF DiagType
    <2>2. Drained(diag) = [pending |-> << >>, seq |-> diag.seq + Len(diag.pending),
                           latest |-> diag.pending[Len(diag.pending)], last |-> diag.last]
        BY <1>2 DEF DiagType, Drained
    <2> QED
        BY <1>2, <2>1, <2>2 DEF DiagType, NewestLine
<1> QED
    BY <1>1, <1>2

\* The shim's connection is one of the connections.
LEMMA ShimIsConn == "shim" \in Conns
    BY DEF Conns

\* A dying process takes its threads and sockets with it.
LEMMA DieSound ==
    ASSUME ServiceTypes, Die
    PROVE  /\ service' = "exited" /\ ServerType' /\ ThreadsType' /\ PipeType'
           /\ \A c \in Conns : threads'[c] = IF threads[c] = "none" THEN "none" ELSE "done"
           /\ \A c \in Conns : pipe'[c].out = pipe[c].out
           /\ \A c \in Conns : pipe[c].state = "unused" => pipe'[c] = pipe[c]
           /\ \A c \in Conns : pipe[c].state # "unused" =>
                                   pipe'[c].state = "closed" /\ pipe'[c].in = << >>
<1>1. service' = "exited" /\ server' = [server EXCEPT !.loop = "end"]
    BY DEF Die
<1>2. ServerType'
    BY <1>1 DEF ServiceTypes, ServerType
<1>3. threads' = [c \in Conns |-> IF threads[c] = "none" THEN "none" ELSE "done"]
    BY DEF Die
<1>4. pipe' = [c \in Conns |-> IF pipe[c].state = "unused" THEN pipe[c]
                               ELSE [pipe[c] EXCEPT !.state = "closed", !.in = << >>]]
    BY DEF Die
<1>5. ThreadsType'
    BY <1>3 DEF ThreadsType
<1>6. \A c \in Conns :
        /\ pipe'[c] \in [state : {"unused", "queued", "open", "closed", "left"},
                         in : Seq(Requests), out : Seq(Frames)]
        /\ pipe'[c].out = pipe[c].out
        /\ pipe[c].state # "unused" => pipe'[c].state = "closed" /\ pipe'[c].in = << >>
    <2> TAKE c \in Conns
    <2>1. CASE pipe[c].state = "unused"
        BY <1>4, <2>1 DEF ServiceTypes, PipeType
    <2>2. CASE pipe[c].state # "unused"
        <3>1. pipe'[c] = [state |-> "closed", in |-> << >>, out |-> pipe[c].out]
            BY <1>4, <2>2 DEF ServiceTypes, PipeType
        <3> QED
            BY <2>2, <3>1 DEF ServiceTypes, PipeType
    <2> QED
        BY <2>1, <2>2
<1>7. PipeType'
    BY <1>4, <1>6 DEF PipeType
<1> QED
    BY <1>1, <1>2, <1>3, <1>4, <1>5, <1>6, <1>7

\* Child::kill leaves no process that runs.
LEMMA KillSound ==
    ASSUME ServiceTypes, Kill
    PROVE  /\ service' # "running" /\ service' \in {"none", "exited"}
           /\ ServerType' /\ ThreadsType' /\ PipeType'
<1>1. CASE service = "running"
    BY <1>1, DieSound DEF Kill
<1>2. CASE service # "running"
    BY <1>2 DEF Kill, ServiceTypes, ServerType, ThreadsType, PipeType
<1> QED
    BY <1>1, <1>2

\* The counter of calls aside, a session that is gone looks like one that never was.
LEMMA QuietTyped ==
    Quiet \in [pc : {"down"}, call : {0}, op : {"none"}, seen : {0}]
    BY DEF Quiet, Nil

\* Where a call leaves the DreamMaker thread.
LEMMA AfterSound ==
    ASSUME MainType
    PROVE  /\ After \in [pc : {"idle", "down"}, call : Nat, op : Ops \cup {"none"}, seen : Nat]
           /\ After.call = main.call
           /\ After.pc = IF main.op = "shutdown" THEN "down" ELSE "idle"
<1>1. CASE main.op = "shutdown"
    <2>1. After = [pc |-> "down", call |-> main.call, op |-> "none", seen |-> 0]
        BY <1>1 DEF After, Quiet
    <2> QED
        BY <1>1, <2>1 DEF MainType
<1>2. CASE main.op # "shutdown"
    <2>1. After = [pc |-> "idle", call |-> main.call, op |-> main.op, seen |-> main.seen]
        BY <1>2 DEF After, MainType
    <2> QED
        BY <1>2, <2>1 DEF MainType
<1> QED
    BY <1>1, <1>2

\* terminate_service: the process is gone, the reader joined, the sender dropped.
LEMMA TerminateSound ==
    ASSUME ServiceTypes, DiagType, ClientType, Terminate
    PROVE  /\ service' \in {"none", "exited"}
           /\ ServerType' /\ ThreadsType' /\ PipeType' /\ DiagType' /\ ClientType'
           /\ diag'.last = diag.last /\ diag'.pending = << >>
           /\ NewestLine(diag) => diag'.latest = diag.last
           /\ ~client'.sender
<1>1. Kill /\ diag' = Drained(diag) /\ client' = [client EXCEPT !.sender = FALSE]
    BY DEF Terminate
<1>2. ClientType'
    BY <1>1 DEF ClientType
<1>3. ~client'.sender
    BY <1>1 DEF ClientType
<1> QED
    BY <1>1, <1>2, <1>3, KillSound, DrainedSound DEF DiagType

-----------------------------------------------------------------------------
(* Every action keeps the types.                                           *)

LEMMA StartTyped ==
    ASSUME TypeInv, Start \/ StartFails \/ Connect \/ Connected
    PROVE  TypeInv'
<1> USE DEF TypeInv, ShimTypes, ServiceTypes
<1>1. CASE Start
    <2>1. MainType'
        BY <1>1 DEF Start, MainType
    <2> QED
        BY <1>1, <2>1 DEF Start, ClientType, WorkerType, ChanType, AnswerType, DiagType,
                          serverVars, ServerType, ThreadsType, PipeType
<1>2. CASE StartFails
    <2>1. ServerType' /\ ThreadsType' /\ PipeType' /\ service' \in {"none", "exited"}
        BY <1>2, KillSound DEF StartFails
    <2>2. DiagType'
        BY <1>2, DrainedSound DEF StartFails, DiagType
    <2>3. MainType'
        BY <1>2, QuietTyped DEF StartFails, MainType
    <2> QED
        BY <1>2, <2>1, <2>2, <2>3 DEF StartFails, ClientType, WorkerType, ChanType, AnswerType
<1>3. CASE Connect
    <2>1. PipeType'
        <3>1. [call |-> Nil, id |-> 1, op |-> "handshake"] \in Requests
            BY DEF Requests, Nil
        <3>2. << [call |-> Nil, id |-> 1, op |-> "handshake"] >> \in Seq(Requests)
              /\ << >> \in Seq(Frames)
            BY <3>1
        <3> QED
            BY <1>3, <3>2 DEF Connect, PipeType
    <2> QED
        BY <1>3, <2>1 DEF Connect, shimVars, serverVars, MainType, ClientType, WorkerType,
                          ChanType, AnswerType, DiagType, ServerType, ThreadsType
<1>4. CASE Connected
    <2>1. Tail(pipe["shim"].out) \in Seq(Frames)
        BY <1>4, ShimIsConn DEF Connected, PipeType
    <2>2. PipeType'
        BY <1>4, <2>1 DEF Connected, PipeType
    <2>3. ClientType'
        BY <1>4 DEF Connected, ClientType
    <2> QED
        BY <1>4, <2>2, <2>3 DEF Connected, serverVars, MainType, WorkerType,
                          ChanType, AnswerType, DiagType, ServerType, ThreadsType
<1> QED
    BY <1>1, <1>2, <1>3, <1>4

LEMMA CallTyped ==
    ASSUME TypeInv, NEW op \in Ops, Request(op)
    PROVE  TypeInv'
<1> USE DEF TypeInv, ShimTypes, ServiceTypes
<1>1. main.call + 1 \in Nat
    BY DEF MainType
<1>2. CASE client.sender /\ client.buffer
    <2>1. /\ main' = [pc |-> "await", call |-> main.call + 1, op |-> op, seen |-> diag.seq]
          /\ client' = [client EXCEPT !.buffer = FALSE]
          /\ chan' = [chan EXCEPT !.req = << [call |-> main.call + 1, op |-> op] >>]
          /\ UNCHANGED << worker, nextId, answer, diag, service, serverVars, pipe >>
        BY <1>2 DEF Request
    <2>2. MainType'
        BY <1>1, <2>1 DEF MainType, DiagType
    <2>3. ClientType'
        BY <2>1 DEF ClientType
    <2>4. ChanType'
        <3>1. [call |-> main.call + 1, op |-> op] \in Asks
            BY <1>1 DEF Asks
        <3>2. << [call |-> main.call + 1, op |-> op] >> \in Seq(Asks)
            BY <3>1
        <3> QED
            BY <2>1, <3>2 DEF ChanType
    <2> QED
        BY <2>1, <2>2, <2>3, <2>4 DEF serverVars, WorkerType, AnswerType, DiagType,
                                      ServerType, ThreadsType, PipeType
<1>3. CASE ~(client.sender /\ client.buffer)
    <2>1. /\ Terminate
          /\ main' = IF op = "shutdown" THEN [Quiet EXCEPT !.call = main.call + 1]
                     ELSE [main EXCEPT !.call = main.call + 1, !.op = op]
          /\ answer' = [call |-> main.call + 1, kind |-> "stopped", of |-> Nil,
                        line |-> diag'.latest]
          /\ UNCHANGED << worker, chan, nextId, lastId >>
        BY <1>3 DEF Request
    <2>2. /\ service' \in {"none", "exited"} /\ ClientType'
          /\ ServerType' /\ ThreadsType' /\ PipeType' /\ DiagType'
        BY <2>1, TerminateSound
    <2>3. AnswerType'
        BY <1>1, <2>1, <2>2 DEF AnswerType, DiagType, Nil
    <2>4. \/ main' = [pc |-> "down", call |-> main.call + 1, op |-> "none", seen |-> 0]
          \/ main' = [pc |-> main.pc, call |-> main.call + 1, op |-> op, seen |-> main.seen]
        BY <2>1 DEF MainType, Quiet
    <2>5. MainType'
        BY <1>1, <2>4 DEF MainType
    <2> QED
        BY <2>1, <2>2, <2>3, <2>5 DEF WorkerType, ChanType
<1> QED
    BY <1>2, <1>3

LEMMA ReturnTyped ==
    ASSUME TypeInv, Timeout \/ Receive \/ ReceiveFatal \/ Reap \/ Health
    PROVE  TypeInv'
<1> USE DEF TypeInv, ShimTypes, ServiceTypes
<1>1. CASE Timeout
    <2>1. /\ service' \in {"none", "exited"} /\ ClientType'
          /\ ServerType' /\ ThreadsType' /\ PipeType' /\ DiagType'
        BY <1>1, TerminateSound DEF Timeout
    <2>2. MainType'
        BY <1>1, AfterSound DEF Timeout, MainType
    <2>3. AnswerType'
        BY <1>1, <2>1 DEF Timeout, AnswerType, DiagType, MainType, Nil
    <2> QED
        BY <1>1, <2>1, <2>2, <2>3 DEF Timeout, WorkerType, ChanType
<1>2. CASE Receive
    <2> DEFINE r == Head(chan.resp)
    <2>1. r \in Replies
        BY <1>2 DEF Receive, ChanType
    <2>2. /\ chan' = [chan EXCEPT !.resp = << >>]
          /\ client' = [client EXCEPT !.buffer = TRUE]
          /\ answer' = [call |-> main.call, kind |-> r.kind, of |-> r.call,
                        line |-> IF r.kind = "error" /\ main.seen < diag.seq
                                 THEN diag.latest ELSE Nil]
          /\ r.kind \in {"ok", "error"}
          /\ UNCHANGED << worker, nextId, lastId >>
        BY <1>2 DEF Receive
    <2>3. ChanType'
        BY <2>2, << >> \in Seq(Replies) DEF ChanType
    <2>8. AnswerType'
        BY <2>1, <2>2 DEF Replies, AnswerType, MainType, DiagType, Nil
    <2>4. ClientType'
        BY <2>2 DEF ClientType
    <2>5. \/ Kill /\ diag' = Drained(diag) /\ main' = After
          \/ /\ main' = After \/ main' = [main EXCEPT !.pc = "reap"]
             /\ UNCHANGED << service, server, threads, pipe, diag >>
        BY <1>2 DEF Receive
    <2>6. DiagType' /\ service' \in {"none", "running", "exited"}
          /\ ServerType' /\ ThreadsType' /\ PipeType'
        BY <2>5, KillSound, DrainedSound DEF DiagType, ServerType, ThreadsType, PipeType
    <2>7. MainType'
        BY <2>5, AfterSound DEF MainType
    <2> QED
        BY <2>2, <2>3, <2>4, <2>6, <2>7, <2>8 DEF WorkerType
<1>3. CASE ReceiveFatal
    <2>1. Head(chan.resp) \in Replies
        BY <1>3 DEF ReceiveFatal, ChanType
    <2>2. ChanType'
        BY <1>3, << >> \in Seq(Replies) DEF ReceiveFatal, ChanType
    <2>6. AnswerType'
        BY <1>3, <2>1 DEF ReceiveFatal, Replies, AnswerType, MainType, Nil
    <2>3. ClientType'
        BY <1>3 DEF ReceiveFatal, ClientType
    <2>4. DiagType' /\ service' \in {"none", "running", "exited"}
          /\ ServerType' /\ ThreadsType' /\ PipeType'
        BY <1>3, KillSound, DrainedSound
           DEF ReceiveFatal, DiagType, ServerType, ThreadsType, PipeType
    <2>5. MainType'
        BY <1>3, AfterSound DEF ReceiveFatal, MainType
    <2> QED
        BY <1>3, <2>2, <2>3, <2>4, <2>5, <2>6 DEF ReceiveFatal, WorkerType
<1>4. CASE Reap
    <2>1. DiagType'
        BY <1>4, DrainedSound DEF Reap, DiagType
    <2>2. ClientType'
        BY <1>4 DEF Reap, ClientType
    <2>3. MainType'
        BY <1>4, AfterSound DEF Reap, MainType
    <2> QED
        BY <1>4, <2>1, <2>2, <2>3 DEF Reap, WorkerType, ChanType, AnswerType, serverVars,
                                      ServerType, ThreadsType, PipeType
<1>5. CASE Health
    BY <1>5 DEF Health, MainType, ClientType, WorkerType, ChanType, AnswerType, DiagType,
                serverVars, ServerType, ThreadsType, PipeType
<1> QED
    BY <1>1, <1>2, <1>3, <1>4, <1>5

LEMMA WorkerTyped ==
    ASSUME TypeInv, Worker
    PROVE  TypeInv'
<1> USE DEF TypeInv, ShimTypes, ServiceTypes
<1>0. pipe["shim"] \in [state : {"unused", "queued", "open", "closed", "left"},
                        in : Seq(Requests), out : Seq(Frames)]
    BY ShimIsConn DEF PipeType
<1>1. CASE WorkerSend
    <2> DEFINE r == Head(chan.req)
    <2>1. r \in Asks /\ nextId' = nextId + 1
        BY <1>1 DEF WorkerSend, ChanType
    <2>2. CASE pipe["shim"].state = "closed"
        <3>1. << [call |-> r.call, kind |-> "fatal"] >> \in Seq(Replies) /\ << >> \in Seq(Asks)
            BY <2>1 DEF Asks, Replies
        <3>2. /\ chan' = [req |-> << >>, resp |-> << [call |-> r.call, kind |-> "fatal"] >>]
              /\ UNCHANGED << worker, pipe, main, client, answer, diag, service, serverVars >>
            BY <1>1, <2>2 DEF WorkerSend
        <3>3. ChanType'
            BY <3>1, <3>2 DEF ChanType
        <3> QED
            BY <2>1, <3>2, <3>3 DEF MainType, ClientType, WorkerType,
                AnswerType, DiagType, serverVars, ServerType, ThreadsType, PipeType
    <2>3. CASE pipe["shim"].state # "closed"
        <3>1. [call |-> r.call, id |-> nextId, op |-> r.op] \in Requests
            BY <2>1 DEF Asks, Requests
        <3>2. Append(pipe["shim"].in, [call |-> r.call, id |-> nextId, op |-> r.op])
                \in Seq(Requests)
            BY <1>0, <3>1, AppendProperties
        <3>3. PipeType'
            BY <1>1, <2>3, <3>2 DEF WorkerSend, PipeType
        <3>4. ChanType'
            BY <1>1, <2>3, << >> \in Seq(Asks) DEF WorkerSend, ChanType
        <3>5. WorkerType'
            BY <1>1, <2>1, <2>3 DEF WorkerSend, WorkerType, Asks
        <3> QED
            BY <1>1, <2>1, <3>3, <3>4, <3>5 DEF WorkerSend, MainType, ClientType,
                AnswerType, DiagType, serverVars, ServerType, ThreadsType
    <2> QED
        BY <2>2, <2>3
<1>2. CASE WorkerRead
    <2> DEFINE f == Head(pipe["shim"].out)
               kind == IF f.kind = "error" \/ f.id = worker.id THEN f.kind ELSE "fatal"
    <2>1. f \in Frames /\ Tail(pipe["shim"].out) \in Seq(Frames)
        BY <1>0, <1>2 DEF WorkerRead
    <2>2. [call |-> f.call, kind |-> kind] \in Replies
        BY <2>1 DEF Frames, Replies
    <2>3. << [call |-> f.call, kind |-> kind] >> \in Seq(Replies)
        BY <2>2
    <2>4. ChanType'
        BY <1>2, <2>3 DEF WorkerRead, ChanType
    <2>5. PipeType'
        BY <1>2, <2>1 DEF WorkerRead, PipeType
    <2>6. WorkerType'
        BY <1>2 DEF WorkerRead, WorkerType, Nil
    <2> QED
        BY <1>2, <2>4, <2>5, <2>6 DEF WorkerRead, MainType, ClientType,
            AnswerType, DiagType, serverVars, ServerType, ThreadsType
<1>3. CASE WorkerBroken
    <2>1. << [call |-> worker.call, kind |-> "fatal"] >> \in Seq(Replies)
        BY DEF WorkerType, Replies
    <2>2. ChanType'
        BY <1>3, <2>1 DEF WorkerBroken, ChanType
    <2>3. WorkerType'
        BY <1>3 DEF WorkerBroken, WorkerType, Nil
    <2> QED
        BY <1>3, <2>2, <2>3 DEF WorkerBroken, MainType, ClientType,
            AnswerType, DiagType, serverVars, ServerType, ThreadsType, PipeType
<1>4. CASE WorkerEnds
    <2>1. WorkerType'
        BY <1>4 DEF WorkerEnds, WorkerType
    <2>2. PipeType'
        BY <1>4, << >> \in Seq(Requests) DEF WorkerEnds, Close, PipeType
    <2> QED
        BY <1>4, <2>1, <2>2 DEF WorkerEnds, MainType, ClientType, ChanType,
            AnswerType, DiagType, serverVars, ServerType, ThreadsType
<1> QED
    BY <1>1, <1>2, <1>3, <1>4 DEF Worker

\* Closing a connection keeps the pipes pipes.
LEMMA CloseTyped ==
    ASSUME PipeType, NEW c \in Conns, pipe' = Close(c)
    PROVE  PipeType'
    BY << >> \in Seq(Requests) DEF Close, PipeType

LEMMA LoopTyped ==
    ASSUME TypeInv, Loop \/ ListenFails
    PROVE  TypeInv'
<1> USE DEF TypeInv, ShimTypes, ServiceTypes
<1>0. ASSUME UNCHANGED << shimVars, diag, lastId >>, ServerType', ThreadsType', PipeType',
             service' \in {"none", "running", "exited"}
      PROVE  TypeInv'
    BY <1>0 DEF shimVars, MainType, ClientType, WorkerType, ChanType, AnswerType, DiagType
<1>1. CASE Listen \/ LoopTest \/ LoopIdle
    <2>1. UNCHANGED << shimVars, diag, lastId, service, threads, pipe >>
          /\ \E l \in {"test", "join", "accept"} : server' = [server EXCEPT !.loop = l]
        BY <1>1 DEF Listen, LoopTest, LoopIdle
    <2>2. ServerType'
        BY <2>1 DEF ServerType
    <2> QED
        BY <1>0, <2>1, <2>2 DEF ThreadsType, PipeType
<1>2. CASE LoopJoin \/ ListenFails
    BY <1>0, <1>2, DieSound DEF LoopJoin, ListenFails
<1>3. ASSUME NEW c \in Conns, AcceptPrimary(c)
      PROVE  TypeInv'
    <2>1. ServerType'
        BY <1>3 DEF AcceptPrimary, ServerType
    <2>2. ThreadsType'
        BY <1>3 DEF AcceptPrimary, ThreadsType
    <2>3. PipeType'
        BY <1>3 DEF AcceptPrimary, PipeType
    <2> QED
        BY <1>0, <1>3, <2>1, <2>2, <2>3 DEF AcceptPrimary
<1>4. ASSUME NEW c \in Conns, AcceptBusy(c)
      PROVE  TypeInv'
    <2>1. CASE Die
        BY <1>0, <1>4, <2>1, DieSound DEF AcceptBusy
    <2>2. CASE ~Die
        <3>1. /\ server' = [server EXCEPT !.loop = "test"]
              /\ pipe' = [pipe EXCEPT ![c].state = "closed", ![c].in = << >>,
                                    ![c].out = << [call |-> Nil, id |-> 0, kind |-> "busy"] >>]
              /\ UNCHANGED << service, threads, shimVars, diag, lastId >>
            BY <1>4, <2>2 DEF AcceptBusy
        <3>2. ServerType'
            BY <3>1 DEF ServerType
        <3>3. << [call |-> Nil, id |-> 0, kind |-> "busy"] >> \in Seq(Frames)
              /\ << >> \in Seq(Requests)
            BY DEF Frames, Nil
        <3>4. PipeType'
            BY <3>1, <3>3 DEF PipeType
        <3> QED
            BY <1>0, <3>1, <3>2, <3>4 DEF ThreadsType
    <2> QED
        BY <2>1, <2>2
<1> QED
    BY <1>1, <1>2, <1>3, <1>4 DEF Loop

LEMMA ThreadTyped ==
    ASSUME TypeInv, NEW c \in Conns, Thread(c)
    PROVE  TypeInv'
<1> USE DEF TypeInv, ShimTypes, ServiceTypes
<1>0. ASSUME UNCHANGED << shimVars, diag, service >>, lastId' \in Nat,
             ServerType', ThreadsType', PipeType'
      PROVE  TypeInv'
    BY <1>0 DEF shimVars, MainType, ClientType, WorkerType, ChanType, AnswerType, DiagType
<1>1. CASE Handshake(c)
    <2>1. ServerType' /\ ThreadsType'
        BY <1>1 DEF Handshake, ServerType, ThreadsType
    <2>2. Head(pipe[c].in) \in Requests /\ Tail(pipe[c].in) \in Seq(Requests)
        BY <1>1 DEF Handshake, PipeType
    <2>3. PipeType' /\ lastId' \in Nat
        <3>1. CASE Head(pipe[c].in).op = "handshake" /\ c = "shim"
            <4>1. [call |-> Nil, id |-> 1, kind |-> "ok"] \in Frames
                BY DEF Frames, Nil
            <4>2. pipe[c].out \in Seq(Frames)
                BY DEF PipeType
            <4>3. Append(pipe[c].out, [call |-> Nil, id |-> 1, kind |-> "ok"]) \in Seq(Frames)
                BY <4>1, <4>2, AppendProperties
            <4>5. pipe' = [pipe EXCEPT ![c].in = Tail(pipe[c].in),
                    ![c].out = Append(pipe[c].out, [call |-> Nil, id |-> 1, kind |-> "ok"])]
                BY <1>1, <3>1 DEF Handshake
            <4>4. PipeType'
                BY <2>2, <4>3, <4>5 DEF PipeType
            <4> QED
                BY <1>1, <2>2, <3>1, <4>4 DEF Handshake, Requests
        <3>2. CASE ~(Head(pipe[c].in).op = "handshake" /\ c = "shim")
            BY <1>1, <3>2, CloseTyped DEF Handshake
        <3> QED
            BY <3>1, <3>2
    <2> QED
        BY <1>0, <1>1, <2>1, <2>3 DEF Handshake
<1>2. CASE Disconnected(c)
    <2>1. ServerType'
        BY <1>2 DEF Disconnected, ServerType, ThreadsType
    <2>2. ThreadsType'
        BY <1>2 DEF Disconnected, ThreadsType
    <2> QED
        BY <1>0, <1>2, <2>1, <2>2 DEF Disconnected, PipeType
<1>3. CASE ThreadEnds(c)
    <2>1. ServerType'
        BY <1>3 DEF ThreadEnds, ServerType
    <2>2. ThreadsType'
        BY <1>3 DEF ThreadEnds, ThreadsType
    <2> QED
        BY <1>0, <1>3, <2>1, <2>2 DEF ThreadEnds, PipeType
<1> QED
    BY <1>1, <1>2, <1>3 DEF Thread

LEMMA ServeTyped ==
    ASSUME TypeInv, Serve \/ ServeFails
    PROVE  TypeInv'
<1> USE DEF TypeInv, ShimTypes, ServiceTypes
<1>0. ASSUME UNCHANGED << shimVars, service >>, lastId' \in Nat, DiagType',
             ServerType', ThreadsType', PipeType'
      PROVE  TypeInv'
    BY <1>0 DEF shimVars, MainType, ClientType, WorkerType, ChanType, AnswerType
<1> DEFINE r == Head(pipe["shim"].in)
<1>1. /\ pipe["shim"].in \in Seq(Requests) /\ pipe["shim"].out \in Seq(Frames)
      /\ pipe["shim"].in # << >>
    BY ShimIsConn DEF PipeType, Serve, ServeFails
<1>2. r \in Requests /\ Tail(pipe["shim"].in) \in Seq(Requests)
    BY <1>1
<1>3. ASSUME NEW kind \in {"ok", "error"}, Answer(r, kind)
      PROVE  PipeType'
    <2>1. [call |-> r.call, id |-> r.id, kind |-> kind] \in Frames
        BY <1>2 DEF Requests, Frames
    <2>2. Append(pipe["shim"].out, [call |-> r.call, id |-> r.id, kind |-> kind]) \in Seq(Frames)
        BY <1>1, <2>1, AppendProperties
    <2> QED
        BY <1>2, <1>3, <2>2 DEF Answer, PipeType
<1>4. CASE Serve
    <2>1. PipeType'
        BY <1>3, <1>4 DEF Serve
    <2>2. lastId' \in Nat /\ UNCHANGED << shimVars, service >>
        BY <1>2, <1>4 DEF Serve, Requests
    <2>3. DiagType'
        <3>1. diag' = diag \/ diag' = [diag EXCEPT !.pending = Append(diag.pending, r.call),
                                                   !.last = r.call]
            BY <1>4 DEF Serve
        <3>2. r.call \in Nat /\ Append(diag.pending, r.call) \in Seq(Nat)
            BY <1>2, AppendProperties DEF Requests, DiagType
        <3> QED
            BY <3>1, <3>2 DEF DiagType
    <2>4. \/ UNCHANGED << threads, server >>
          \/ /\ threads' = [threads EXCEPT !["shim"] = "leaving"]
             /\ server' = [server EXCEPT !.shutdown = TRUE]
        BY <1>4 DEF Serve
    <2>5. ServerType'
        BY <2>4 DEF ServerType
    <2>6. ThreadsType'
        BY <2>4 DEF ThreadsType
    <2> QED
        BY <1>0, <2>1, <2>2, <2>3, <2>5, <2>6
<1>5. CASE ServeFails
    <2>1. lastId' \in Nat
        BY <1>2, <1>5 DEF ServeFails, Requests
    <2>2. PipeType'
        BY <1>5, CloseTyped, ShimIsConn DEF ServeFails
    <2>3. ServerType'
        BY <1>5 DEF ServeFails, ServerType
    <2>4. ThreadsType'
        BY <1>5 DEF ServeFails, ThreadsType
    <2> QED
        BY <1>0, <1>5, <2>1, <2>2, <2>3, <2>4 DEF ServeFails, DiagType
<1> QED
    BY <1>4, <1>5

LEMMA StrayTyped ==
    ASSUME TypeInv, NEW c \in Strays, StrayConnects(c) \/ StrayWrites(c) \/ StrayLeaves(c)
    PROVE  TypeInv'
<1> USE DEF TypeInv, ShimTypes, ServiceTypes
<1>1. UNCHANGED << shimVars, diag, service, serverVars >> /\ c \in Conns
    BY DEF StrayConnects, StrayWrites, StrayLeaves, Conns
<1>2. PipeType'
    <2>1. ASSUME NEW op \in {"handshake", "echo"}
          PROVE  << [call |-> Nil, id |-> 1, op |-> op] >> \in Seq(Requests)
        BY DEF Requests, Nil
    <2> QED
        BY <1>1, <2>1, << >> \in Seq(Requests)
           DEF StrayConnects, StrayWrites, StrayLeaves, PipeType
<1> QED
    BY <1>1, <1>2 DEF shimVars, serverVars, MainType, ClientType, WorkerType, ChanType,
                      AnswerType, DiagType, ServerType, ThreadsType

LEMMA TypesKept ==
    ASSUME TypeInv, [Next]_vars
    PROVE  TypeInv'
<1>1. CASE Record
    <2>1. Head(diag.pending) \in Nat /\ Tail(diag.pending) \in Seq(Nat)
        BY <1>1 DEF TypeInv, DiagType, Record
    <2>3. diag' = [pending |-> Tail(diag.pending), seq |-> diag.seq + 1,
                   latest |-> Head(diag.pending), last |-> diag.last]
        BY <1>1 DEF TypeInv, Record, DiagType
    <2>2. DiagType'
        BY <2>1, <2>3 DEF TypeInv, DiagType
    <2> QED
        BY <1>1, <2>2 DEF Record, TypeInv, ShimTypes, ServiceTypes, shimVars, serverVars,
            MainType, ClientType, WorkerType, ChanType, AnswerType, ServerType, ThreadsType,
            PipeType
<1>2. CASE UNCHANGED vars
    BY <1>2 DEF vars, TypeInv, ShimTypes, ServiceTypes, MainType, ClientType, WorkerType,
        ChanType, AnswerType, DiagType, ServerType, ThreadsType, PipeType
<1>3. CASE Shim
    BY <1>3, StartTyped, CallTyped, ReturnTyped DEF Shim
<1> QED
    BY <1>1, <1>2, <1>3, WorkerTyped, LoopTyped, ThreadTyped, ServeTyped, StrayTyped DEF Next

LEMMA TypesInitial == Init => TypeInv
    BY DEF Init, TypeInv, ShimTypes, ServiceTypes, MainType, ClientType, WorkerType,
        ChanType, AnswerType, DiagType, ServerType, ThreadsType, PipeType, Quiet, NoAnswer, Nil

\* Every variable of the session keeps its type, for any strays, operations and calls.
THEOREM SessionTypes == Spec => []TypeInv
    BY TypesInitial, TypesKept, PTL DEF Spec

(***************************************************************************)
(* Fates: what a call that failed leaves behind.                           *)
(***************************************************************************)
\* A session that timed out, lost its connection or was stopped has lost its
\* sender for good.
Gone ==
    answer.kind \in {"timeout", "fatal", "stopped"}
        => ~client.sender /\ main.pc \in {"idle", "down"}

\* The process behind a timeout or a stopped session is gone, and with it whoever
\* could write another line.
Silenced ==
    answer.kind \in {"timeout", "stopped"} => service # "running" /\ answer.line = diag.last

Fates == NoneRuns /\ Gone /\ Silenced /\ NewestLine(diag)

LEMMA FatesInitial == Init => Fates
    BY DEF Init, Fates, NoneRuns, Gone, Silenced, NewestLine, Quiet, NoAnswer, Nil

\* A step that leaves the caller, its client, its answer, the diagnostics and the
\* process alone, except that the process may end.
LEMMA FatesUntouched ==
    ASSUME Fates, UNCHANGED << main, client, answer, diag >>,
           service' = service \/ service' # "running"
    PROVE  Fates'
    BY DEF Fates, NoneRuns, Gone, Silenced, NewestLine

\* Recording the oldest line leaves the newest one the newest.
LEMMA NewestOfTail ==
    ASSUME NEW S, NEW s \in Seq(S), s # << >>
    PROVE  IF Tail(s) = << >> THEN Head(s) = s[Len(s)] ELSE Tail(s)[Len(Tail(s))] = s[Len(s)]
<1>1. Len(s) \in Nat /\ Len(s) # 0
    BY EmptySeq
<1>4. Tail(s) \in Seq(S) /\ Len(Tail(s)) = Len(s) - 1
    BY HeadTailProperties
<1>2. CASE Len(s) = 1
    <2>1. Len(Tail(s)) = 0
        BY <1>2, <1>4
    <2>2. Tail(s) = << >>
        BY <1>4, <2>1, EmptySeq
    <2>3. Head(s) = s[1]
        OBVIOUS
    <2> QED
        BY <1>2, <2>2, <2>3
<1>3. CASE Len(s) # 1
    <2>1. Len(Tail(s)) = Len(s) - 1
        BY <1>4
    <2>2. Len(Tail(s)) \in 1 .. Len(Tail(s))
        BY <1>1, <1>3, <2>1
    <2>3. Tail(s)[Len(Tail(s))] = s[Len(Tail(s)) + 1]
        BY <2>2, HeadTailProperties
    <2>4. Len(Tail(s)) + 1 = Len(s)
        BY <1>1, <2>1
    <2>5. Tail(s) # << >>
        <3>1. Len(Tail(s)) # 0
            BY <1>1, <1>3, <2>1
        <3>2. Len(<< >>) = 0
            OBVIOUS
        <3> QED
            BY <3>1, <3>2, Zenon
    <2> QED
        BY <2>3, <2>4, <2>5
<1> QED
    BY <1>2, <1>3

LEMMA FatesKept ==
    ASSUME TypeInv, Fates, [Next]_vars
    PROVE  Fates'
<1> USE DEF TypeInv, ShimTypes
<1>1. CASE Start
    BY <1>1 DEF Start, Fates, NoneRuns, Gone, Silenced, NewestLine, MainType
<1>2. CASE StartFails
    <2>1. /\ service' # "running" /\ DiagType' /\ diag'.last = diag.last
          /\ diag'.pending = << >> /\ diag'.latest = diag.last
          /\ main.pc = "connecting" /\ UNCHANGED << client, answer >>
        BY <1>2, KillSound, DrainedSound DEF StartFails, Fates, DiagType
    <2> QED
        BY <2>1 DEF Fates, NoneRuns, Gone, Silenced, NewestLine
<1>3. CASE Connected
    BY <1>3 DEF Connected, Fates, NoneRuns, Gone, Silenced, NewestLine, MainType
<1>4. ASSUME NEW op \in Ops, Request(op)
      PROVE  Fates'
    <2>1. CASE client.sender /\ client.buffer
        <3>1. main'.pc = "await" /\ UNCHANGED << answer, diag, service >>
            BY <1>4, <2>1 DEF Request
        <3> QED
            BY <2>1, <3>1 DEF Fates, NoneRuns, Gone, Silenced, NewestLine
    <2>2. CASE ~(client.sender /\ client.buffer)
        <3>1. Terminate /\ main.pc = "idle" /\ main'.pc \in {"idle", "down"}
              /\ answer'.kind = "stopped" /\ answer'.line = diag'.latest
            <4>1. /\ Terminate /\ main.pc = "idle"
                  /\ main' = IF op = "shutdown" THEN [Quiet EXCEPT !.call = main.call + 1]
                             ELSE [main EXCEPT !.call = main.call + 1, !.op = op]
                  /\ answer' = [call |-> main.call + 1, kind |-> "stopped", of |-> Nil,
                                line |-> diag'.latest]
                BY <1>4, <2>2 DEF Request
            <4>2. main'.pc \in {"idle", "down"}
                BY <4>1 DEF Quiet, MainType
            <4> QED
                BY <4>1, <4>2
        <3>2. service' # "running" /\ ~client'.sender
              /\ diag'.last = diag.last /\ diag'.pending = << >> /\ diag'.latest = diag.last
            BY <3>1, TerminateSound DEF Fates
        <3> QED
            BY <3>1, <3>2 DEF Fates, NoneRuns, Gone, Silenced, NewestLine
    <2> QED
        BY <2>1, <2>2
<1>5. CASE Timeout
    <2>1. main'.pc \in {"idle", "down"} /\ answer'.line = diag'.latest
        BY <1>5, AfterSound DEF Timeout
    <2>2. service' # "running" /\ ~client'.sender
          /\ diag'.last = diag.last /\ diag'.pending = << >> /\ diag'.latest = diag.last
        BY <1>5, TerminateSound DEF Timeout, Fates
    <2> QED
        BY <2>1, <2>2 DEF Fates, NoneRuns, Gone, Silenced, NewestLine
<1>6. CASE Receive
    <2>1. answer'.kind \in {"ok", "error"} /\ main.pc = "await"
        BY <1>6 DEF Receive
    <2>2. \/ Kill /\ diag' = Drained(diag)
          \/ /\ main.op = "shutdown" => main' = [main EXCEPT !.pc = "reap"]
             /\ main.op # "shutdown" => main' = After
             /\ UNCHANGED << service, diag >>
        BY <1>6 DEF Receive
    <2>3. CASE Kill /\ diag' = Drained(diag)
        BY <2>1, <2>3, KillSound, DrainedSound DEF Fates, NoneRuns, Gone, Silenced, NewestLine
    <2>4. CASE /\ main.op = "shutdown" => main' = [main EXCEPT !.pc = "reap"]
               /\ main.op # "shutdown" => main' = After
               /\ UNCHANGED << service, diag >>
        <3>1. main'.pc # "down"
            BY <2>4, AfterSound DEF MainType
        <3> QED
            BY <2>1, <2>4, <3>1 DEF Fates, NoneRuns, Gone, Silenced, NewestLine
    <2> QED
        BY <2>2, <2>3, <2>4
<1>7. CASE ReceiveFatal
    <2>1. answer'.kind = "fatal" /\ ~client'.sender /\ main' = After
        BY <1>7 DEF ReceiveFatal
    <2>2. main'.pc \in {"idle", "down"} /\ (main'.pc = "down" <=> main.op = "shutdown")
        BY <2>1, AfterSound
    <2>3. NewestLine(diag') /\ (main.op = "shutdown" => service' # "running")
        BY <1>7, KillSound, DrainedSound DEF ReceiveFatal, Fates, NewestLine
    <2> QED
        BY <2>1, <2>2, <2>3 DEF Fates, NoneRuns, Gone, Silenced
<1>8. CASE Reap
    <2>1. NewestLine(diag') /\ service' = service /\ service = "exited" /\ main.pc = "reap"
          /\ answer' = answer
        BY <1>8, DrainedSound DEF Reap, Fates, NewestLine
    <2> QED
        BY <2>1 DEF Fates, NoneRuns, Gone, Silenced
<1>9. CASE Serve
    <2>1. service = "running" /\ UNCHANGED << main, client, answer, service >>
        BY <1>9 DEF Serve, shimVars
    <2>2. diag' = diag \/ \E n \in Nat :
              diag' = [diag EXCEPT !.pending = Append(diag.pending, n), !.last = n]
        <3>1. Head(pipe["shim"].in) \in Requests
            BY <1>9, ShimIsConn DEF Serve, ServiceTypes, PipeType
        <3>2. Head(pipe["shim"].in).call \in Nat
            BY <3>1 DEF Requests
        <3> QED
            BY <1>9, <3>2 DEF Serve
    <2>3. NewestLine(diag')
        <3>1. ASSUME NEW n \in Nat,
                     diag' = [diag EXCEPT !.pending = Append(diag.pending, n), !.last = n]
              PROVE  NewestLine(diag')
            <4>1. diag'.pending = Append(diag.pending, n) /\ diag'.last = n
                BY <3>1 DEF DiagType
            <4>2. /\ Append(diag.pending, n) # << >>
                  /\ Append(diag.pending, n)[Len(Append(diag.pending, n))] = n
                BY AppendProperties DEF DiagType
            <4> QED
                BY <4>1, <4>2 DEF NewestLine
        <3> QED
            BY <2>2, <3>1 DEF Fates
    <2> QED
        BY <2>1, <2>3 DEF Fates, NoneRuns, Gone, Silenced
<1>10. CASE Record
    <2>1. /\ diag' = [pending |-> Tail(diag.pending), seq |-> diag.seq + 1,
                      latest |-> Head(diag.pending), last |-> diag.last]
          /\ UNCHANGED << main, client, answer, service >> /\ diag.pending # << >>
        BY <1>10 DEF Record, shimVars, DiagType
    <2>2. NewestLine(diag')
        <3>1. diag.pending \in Seq(Nat) /\ diag.pending[Len(diag.pending)] = diag.last
            BY <2>1 DEF Fates, NewestLine, DiagType
        <3> QED
            BY <2>1, <3>1, NewestOfTail DEF NewestLine
    <2> QED
        BY <2>1, <2>2 DEF Fates, NoneRuns, Gone, Silenced
<1>11. CASE ListenFails \/ Loop
    BY <1>11, FatesUntouched
       DEF ListenFails, Loop, Listen, LoopTest, LoopIdle, AcceptPrimary, AcceptBusy, LoopJoin,
           Die, shimVars
<1>12. CASE Connect \/ Health \/ ServeFails \/ Worker
    BY <1>12, FatesUntouched
       DEF Connect, Health, ServeFails, Worker, WorkerSend, WorkerRead, WorkerBroken,
           WorkerEnds, shimVars
<1>13. ASSUME NEW c \in Conns, Thread(c)
       PROVE  Fates'
    BY <1>13, FatesUntouched DEF Thread, Handshake, Disconnected, ThreadEnds, shimVars
<1>14. ASSUME NEW c \in Strays, StrayConnects(c) \/ StrayWrites(c) \/ StrayLeaves(c)
       PROVE  Fates'
    BY <1>14, FatesUntouched DEF StrayConnects, StrayWrites, StrayLeaves, shimVars
<1>15. CASE UNCHANGED vars
    BY <1>15, FatesUntouched DEF vars
<1> QED
    BY <1>1, <1>2, <1>3, <1>4, <1>5, <1>6, <1>7, <1>8, <1>9, <1>10, <1>11, <1>12, <1>13,
       <1>14, <1>15 DEF Next, Shim

(***************************************************************************)
(* Admission: one connection at a time inside handle_primary.              *)
(***************************************************************************)
Inside(c) == threads[c] \in {"handshake", "serving", "leaving"}

\* Whoever is inside handle_primary holds the active flag, alone.
Admitted ==
    /\ \A c \in Conns : Inside(c) => server.active
    /\ \A c, d \in Conns : Inside(c) /\ Inside(d) => c = d

LEMMA AdmittedInitial == Init => Admitted
    BY DEF Init, Admitted, Inside

\* A step that lets nobody in and does not clear the flag.
LEMMA NobodyEnters ==
    ASSUME Admitted, \A c \in Conns : Inside(c)' => Inside(c), server.active => server'.active
    PROVE  Admitted'
    BY DEF Admitted

\* The end of the process puts everybody out.
LEMMA NobodyLeft ==
    ASSUME ServiceTypes, Die
    PROVE  Admitted'
    BY DieSound DEF Admitted, Inside

LEMMA AdmittedKept ==
    ASSUME TypeInv, Admitted, [Next]_vars
    PROVE  Admitted'
<1> USE DEF TypeInv, ServiceTypes
<1>1. CASE UNCHANGED << server, threads >>
    BY <1>1, NobodyEnters DEF Inside
<1>2. CASE Die
    BY <1>2, NobodyLeft
<1>3. CASE Listen \/ LoopTest \/ LoopIdle
    <2>1. threads' = threads /\ server'.active = server.active
        BY <1>3 DEF Listen, LoopTest, LoopIdle, ServerType
    <2> QED
        BY <2>1, NobodyEnters DEF Inside
<1>4. ASSUME NEW c \in Conns, AcceptPrimary(c)
      PROVE  Admitted'
    <2>1. server'.active /\ ~server.active /\ threads' = [threads EXCEPT ![c] = "handshake"]
        BY <1>4 DEF AcceptPrimary, ServerType
    <2>2. \A d \in Conns : ~Inside(d)
        BY <2>1 DEF Admitted
    <2>3. \A d \in Conns : Inside(d)' => d = c
        BY <2>1, <2>2 DEF Inside, ThreadsType
    <2> QED
        BY <2>1, <2>3 DEF Admitted
<1>5. ASSUME NEW c \in Conns, AcceptBusy(c), ~Die
      PROVE  Admitted'
    <2>1. threads' = threads /\ server' = [server EXCEPT !.loop = "test"]
        BY <1>5 DEF AcceptBusy
    <2> QED
        BY <2>1, NobodyEnters DEF Inside, ServerType
<1>6. ASSUME NEW c \in Conns, Handshake(c)
      PROVE  Admitted'
    <2>1. /\ threads[c] = "handshake" /\ server' = server
          /\ \E t \in {"serving", "leaving"} : threads' = [threads EXCEPT ![c] = t]
        BY <1>6 DEF Handshake
    <2>2. \A d \in Conns : Inside(d)' => Inside(d)
        BY <2>1 DEF Inside, ThreadsType
    <2> QED
        BY <2>1, <2>2, NobodyEnters
<1>7. ASSUME NEW c \in Conns, Disconnected(c)
      PROVE  Admitted'
    <2>1. \A d \in Conns : Inside(d)' => Inside(d)
        BY <1>7 DEF Disconnected, Inside, ThreadsType
    <2>2. server.active => server'.active
        BY <1>7 DEF Disconnected, ServerType
    <2> QED
        BY <2>1, <2>2, NobodyEnters
<1>8. ASSUME NEW c \in Conns, ThreadEnds(c)
      PROVE  Admitted'
    <2>1. Inside(c) /\ threads' = [threads EXCEPT ![c] = "done"]
        BY <1>8 DEF ThreadEnds, Inside
    <2>2. \A d \in Conns : ~Inside(d)'
        BY <2>1 DEF Admitted, Inside, ThreadsType
    <2> QED
        BY <2>2 DEF Admitted
<1>9. CASE Serve \/ ServeFails
    <2>1. /\ threads["shim"] = "serving"
          /\ \/ UNCHANGED << threads, server >>
             \/ /\ threads' = [threads EXCEPT !["shim"] = "leaving"]
                /\ server' = [server EXCEPT !.shutdown = TRUE]
        BY <1>9 DEF Serve, ServeFails
    <2>2. \A d \in Conns : Inside(d)' => Inside(d)
        BY <2>1 DEF Inside, ThreadsType
    <2>3. server.active => server'.active
        BY <2>1 DEF ServerType
    <2> QED
        BY <2>2, <2>3, NobodyEnters
<1>10. CASE Shim
    BY <1>1, <1>2, <1>10
       DEF Shim, Start, StartFails, Connect, Connected, Request, Timeout, Receive, ReceiveFatal,
           Reap, Health, Terminate, Kill, serverVars
<1>11. CASE Worker \/ Record \/ UNCHANGED vars
    BY <1>1, <1>11
       DEF Worker, WorkerSend, WorkerRead, WorkerBroken, WorkerEnds, Record, serverVars, vars
<1>12. ASSUME NEW c \in Strays, StrayConnects(c) \/ StrayWrites(c) \/ StrayLeaves(c)
       PROVE  Admitted'
    BY <1>1, <1>12 DEF StrayConnects, StrayWrites, StrayLeaves, serverVars
<1>13. CASE LoopJoin \/ ListenFails
    BY <1>2, <1>13 DEF LoopJoin, ListenFails
<1> QED
    BY <1>2, <1>3, <1>4, <1>5, <1>6, <1>7, <1>8, <1>9, <1>10, <1>11, <1>12, <1>13
       DEF Next, Loop, Thread

(***************************************************************************)
(* Flight: one request at a time between the DreamMaker thread and the     *)
(* service.                                                                *)
(***************************************************************************)
\* The shim's end of the socket, and what is on it.
Asked    == pipe["shim"].in
Answered == pipe["shim"].out

\* The shim's connection was admitted to handle_primary and has said hello.
Greeted == threads["shim"] \notin {"none", "handshake"}

\* A connection starts empty and a closed one has nothing left to serve; only a
\* stray leaves.
ShimPipe ==
    /\ pipe["shim"].state # "left"
    /\ pipe["shim"].state = "unused" => /\ Asked = << >> /\ Answered = << >>
                                        /\ worker.pc = "none"
    /\ pipe["shim"].state = "closed" => Asked = << >>

Before ==
    main.pc = "unstarted" =>
        /\ chan.req = << >> /\ chan.resp = << >> /\ pipe["shim"].state = "unused"

\* The handshake: one frame on the way, the greeting or its answer.
Connecting ==
    main.pc = "connecting" =>
        /\ chan.req = << >> /\ chan.resp = << >> /\ worker.pc = "none"
        /\ Len(Asked) + Len(Answered) <= 1
        /\ Answered # << >> /\ Head(Answered).kind = "ok" => Greeted

\* Between two calls of a session that still has its sender nothing is under way.
Resting ==
    main.pc = "idle" /\ client.sender =>
        /\ client.buffer /\ Greeted
        /\ chan.req = << >> /\ chan.resp = << >> /\ worker.pc = "recv"
        /\ Asked = << >> /\ Answered = << >>

\* The one request of a call is in one place, and names that call.
Waited ==
    main.pc = "await" =>
        /\ client.sender /\ ~client.buffer /\ Greeted
        /\ \/ /\ worker.pc = "recv" /\ Asked = << >> /\ Answered = << >>
              /\ \/ Len(chan.req) = 1 /\ Head(chan.req).call = main.call /\ chan.resp = << >>
                 \/ Len(chan.resp) = 1 /\ Head(chan.resp).call = main.call /\ chan.req = << >>
           \/ /\ worker.pc = "read" /\ worker.call = main.call
              /\ chan.req = << >> /\ chan.resp = << >>
              /\ \/ Asked = << >> /\ Answered = << >>
                 \/ Len(Asked) = 1 /\ Head(Asked).call = main.call /\ Answered = << >>
                 \/ Len(Answered) = 1 /\ Head(Answered).call = main.call /\ Asked = << >>

OneInFlight == ShimPipe /\ Before /\ Connecting /\ Resting /\ Waited /\ OwnAnswer


\* Sequences of at most one element.
LEMMA AtMostOne ==
    ASSUME NEW S, NEW s \in Seq(S)
    PROVE  /\ Len(s) \in Nat
           /\ Len(s) = 0 <=> s = << >>
           /\ Len(s) = 1 => s # << >> /\ Tail(s) = << >> /\ Head(s) \in S
<1>1. Len(s) \in Nat /\ (s # << >> => Len(s) # 0) /\ Len(<< >>) = 0
    BY EmptySeq, LenProperties
<1>2. Len(s) = 0 <=> s = << >>
    BY <1>1, Zenon
<1>3. ASSUME Len(s) = 1
      PROVE  Tail(s) = << >> /\ Head(s) \in S
    <2>1. s # << >>
        BY <1>1, <1>3
    <2>2. Tail(s) \in Seq(S) /\ Len(Tail(s)) = 0 /\ Head(s) \in S
        BY <1>3, <2>1, HeadTailProperties
    <2> QED
        BY <2>2, EmptySeq
<1> QED
    BY <1>1, <1>2, <1>3

\* One of two sequences has the one element there is.
LEMMA OneOfTwo ==
    ASSUME NEW m \in Nat, NEW n \in Nat, m + n <= 1
    PROVE  /\ n # 0 => m = 0 /\ n = 1
           /\ m # 0 => n = 0 /\ m = 1
    OBVIOUS

LEMMA FlightInitial == Init => OneInFlight
    BY ShimIsConn DEF Init, OneInFlight, ShimPipe, Before, Connecting, Resting, Waited,
       OwnAnswer, Asked, Answered, Quiet, NoAnswer, Nil

\* The types of what lies between the two.
LEMMA FlightTypes ==
    ASSUME TypeInv
    PROVE  /\ Asked \in Seq(Requests) /\ Answered \in Seq(Frames)
           /\ chan.req \in Seq(Asks) /\ chan.resp \in Seq(Replies)
    BY ShimIsConn DEF TypeInv, ShimTypes, ServiceTypes, ChanType, PipeType, Asked, Answered

\* A step that leaves the shim, and what is on its connection, alone.
LEMMA FlightUntouched ==
    ASSUME OneInFlight, UNCHANGED << main, client, worker, chan, answer >>,
           Asked' = Asked, Answered' = Answered, Greeted => Greeted',
           \/ pipe'["shim"].state = pipe["shim"].state
           \/ pipe["shim"].state = "queued" /\ pipe'["shim"].state = "open"
    PROVE  OneInFlight'
    BY DEF OneInFlight, ShimPipe, Before, Connecting, Resting, Waited, OwnAnswer

\* The shim's connection is closed under it.
LEMMA FlightCloses ==
    ASSUME TypeInv, OneInFlight, UNCHANGED << main, client, worker, chan, answer >>,
           pipe["shim"].state # "unused", pipe'["shim"].state = "closed",
           Asked' = << >>, Answered' = Answered, Greeted => Greeted'
    PROVE  OneInFlight'
<1>1. Len(Asked) \in Nat /\ Len(Answered) \in Nat /\ Len(<< >>) = 0
    BY FlightTypes, AtMostOne
<1>2. ShimPipe' /\ Before' /\ OwnAnswer'
    BY DEF OneInFlight, ShimPipe, Before, OwnAnswer
<1>3. Connecting'
    BY <1>1 DEF OneInFlight, Connecting
<1>4. Resting' /\ Waited'
    BY DEF OneInFlight, Resting, Waited
<1> QED
    BY <1>2, <1>3, <1>4 DEF OneInFlight

\* The end of the process.
LEMMA FlightDies ==
    ASSUME TypeInv, OneInFlight, UNCHANGED << main, client, worker, chan, answer >>, Die
    PROVE  OneInFlight'
<1>1. ServiceTypes
    BY DEF TypeInv
<1>2. /\ threads'["shim"] = IF threads["shim"] = "none" THEN "none" ELSE "done"
      /\ pipe'["shim"].out = pipe["shim"].out
      /\ pipe["shim"].state = "unused" => pipe'["shim"] = pipe["shim"]
      /\ pipe["shim"].state # "unused" =>
             pipe'["shim"].state = "closed" /\ pipe'["shim"].in = << >>
    BY <1>1, DieSound, ShimIsConn
<1>3. Greeted => Greeted'
    BY <1>2 DEF Greeted
<1> QED
    BY <1>2, <1>3, FlightUntouched, FlightCloses DEF Asked, Answered

\* Once the call is over and the sender gone, or the session is down, nothing is
\* promised of what may still lie on the connection.
LEMMA FlightOver ==
    ASSUME TypeInv, OneInFlight, worker' = worker, OwnAnswer',
           Kill \/ UNCHANGED << service, server, threads, pipe >>,
           main'.pc \in {"down", "reap"} \/ (main'.pc = "idle" /\ ~client'.sender)
    PROVE  OneInFlight'
<1>1. ServiceTypes
    BY DEF TypeInv
<1>2. ShimPipe'
    <2>1. CASE Die
        <3>1. /\ pipe'["shim"].out = pipe["shim"].out
              /\ pipe["shim"].state = "unused" => pipe'["shim"] = pipe["shim"]
              /\ pipe["shim"].state # "unused" =>
                     pipe'["shim"].state = "closed" /\ pipe'["shim"].in = << >>
            BY <1>1, <2>1, DieSound, ShimIsConn
        <3> QED
            BY <3>1 DEF OneInFlight, ShimPipe, Asked, Answered
    <2>2. CASE pipe' = pipe
        BY <2>2 DEF OneInFlight, ShimPipe, Asked, Answered
    <2> QED
        BY <2>1, <2>2 DEF Kill
<1> QED
    BY <1>2 DEF OneInFlight, Before, Connecting, Resting, Waited

\* The start, up to the first call.
LEMMA FlightStarts ==
    ASSUME TypeInv, OneInFlight, Start \/ StartFails \/ Connect \/ Connected
    PROVE  OneInFlight'
<1> USE DEF OneInFlight
<1>1. CASE Start
    <2>1. main.pc = "unstarted" /\ main'.pc = "connecting"
          /\ UNCHANGED << client, worker, chan, answer, pipe, threads >>
        BY <1>1 DEF Start, serverVars, TypeInv, ShimTypes, MainType
    <2>2. Len(<< >>) = 0
        OBVIOUS
    <2>3. Asked = << >> /\ Answered = << >> /\ worker.pc = "none"
          /\ chan.req = << >> /\ chan.resp = << >>
        BY <2>1 DEF ShimPipe, Before
    <2>4. Connecting'
        BY <2>1, <2>2, <2>3 DEF Connecting, Asked, Answered
    <2> QED
        BY <2>1, <2>4 DEF ShimPipe, Before, Resting, Waited, OwnAnswer, Asked, Answered
<1>2. CASE StartFails
    BY <1>2, FlightOver DEF StartFails, Quiet, OwnAnswer
<1>3. CASE Connect
    <2>1. /\ main.pc = "connecting"
          /\ UNCHANGED << main, client, worker, chan, answer, threads >>
          /\ pipe["shim"].state = "unused"
          /\ pipe'["shim"] = [state |-> "queued",
                 in |-> << [call |-> Nil, id |-> 1, op |-> "handshake"] >>, out |-> << >>]
        BY <1>3, ShimIsConn DEF Connect, shimVars, serverVars, TypeInv, ServiceTypes, PipeType
    <2>2. Len(Asked') = 1 /\ Len(Answered') = 0 /\ Answered' = << >>
        BY <2>1 DEF Asked, Answered
    <2>3. Connecting'
        BY <2>1, <2>2 DEF Connecting
    <2> QED
        BY <2>1, <2>3 DEF ShimPipe, Before, Resting, Waited, OwnAnswer, Asked, Answered
<1>4. CASE Connected
    <2>1. /\ main.pc = "connecting" /\ main'.pc = "idle"
          /\ client'.sender /\ client'.buffer /\ worker'.pc = "recv"
          /\ UNCHANGED << chan, answer, threads >>
          /\ Answered # << >> /\ Head(Answered).kind = "ok"
          /\ pipe' = [pipe EXCEPT !["shim"].out = Tail(pipe["shim"].out)]
        BY <1>4 DEF Connected, serverVars, Answered, TypeInv, ShimTypes, MainType, WorkerType
    <2>2. /\ Len(Asked) \in Nat /\ Len(Answered) \in Nat /\ Len(Answered) # 0
          /\ Len(Asked) + Len(Answered) <= 1
        BY <2>1, FlightTypes, AtMostOne DEF Connecting
    <2>3. Len(Asked) = 0 /\ Len(Answered) = 1
        BY <2>2, OneOfTwo
    <2>4. Asked = << >> /\ Tail(Answered) = << >> /\ Greeted
        BY <2>1, <2>3, FlightTypes, AtMostOne DEF Connecting
    <2>5. /\ Asked' = Asked /\ Answered' = Tail(Answered)
          /\ pipe'["shim"].state = pipe["shim"].state /\ pipe["shim"].state # "unused"
        BY <2>1, ShimIsConn DEF Asked, Answered, TypeInv, ServiceTypes, PipeType, ShimPipe
    <2>6. Resting'
        BY <2>1, <2>4, <2>5 DEF Resting, Connecting, Greeted
    <2> QED
        BY <2>1, <2>4, <2>5, <2>6 DEF ShimPipe, Before, Connecting, Waited, OwnAnswer
<1> QED
    BY <1>1, <1>2, <1>3, <1>4

\* A call: its request is the only thing under way.
LEMMA FlightCalls ==
    ASSUME TypeInv, OneInFlight, NEW op \in Ops, Request(op)
    PROVE  OneInFlight'
<1> USE DEF OneInFlight
<1>1. CASE client.sender /\ client.buffer
    <2>1. /\ main.pc = "idle" /\ main'.pc = "await" /\ main'.call = main.call + 1
          /\ chan' = [chan EXCEPT !.req = << [call |-> main.call + 1, op |-> op] >>]
          /\ client' = [client EXCEPT !.buffer = FALSE]
          /\ UNCHANGED << worker, answer, threads, pipe >>
        BY <1>1 DEF Request, serverVars
    <2>2. client'.sender /\ ~client'.buffer
        BY <1>1, <2>1 DEF TypeInv, ShimTypes, ClientType
    <2>3. /\ chan'.req = << [call |-> main.call + 1, op |-> op] >>
          /\ chan'.resp = chan.resp
        BY <2>1 DEF TypeInv, ShimTypes, ChanType
    <2>4. Len(chan'.req) = 1 /\ Head(chan'.req).call = main.call + 1
        BY <2>3
    <2>5. /\ Greeted /\ chan.resp = << >> /\ worker.pc = "recv"
          /\ Asked = << >> /\ Answered = << >>
        BY <1>1, <2>1 DEF Resting
    <2>6. Waited'
        BY <2>1, <2>2, <2>3, <2>4, <2>5 DEF Waited, Greeted, Asked, Answered
    <2> QED
        BY <2>1, <2>6 DEF ShimPipe, Before, Connecting, Resting, OwnAnswer, Asked, Answered
<1>2. CASE ~(client.sender /\ client.buffer)
    <2>1. /\ Terminate /\ main.pc = "idle" /\ worker' = worker
          /\ main' = IF op = "shutdown" THEN [Quiet EXCEPT !.call = main.call + 1]
                     ELSE [main EXCEPT !.call = main.call + 1, !.op = op]
          /\ answer' = [call |-> main.call + 1, kind |-> "stopped", of |-> Nil,
                        line |-> diag'.latest]
        BY <1>2 DEF Request
    <2>2. main'.pc \in {"idle", "down"}
        BY <2>1 DEF Quiet, TypeInv, ShimTypes, MainType
    <2>3. ~client'.sender
        BY <2>1, TerminateSound DEF TypeInv, ShimTypes
    <2> QED
        BY <2>1, <2>2, <2>3, FlightOver DEF Terminate, OwnAnswer
<1> QED
    BY <1>1, <1>2

\* A call returns.
LEMMA FlightReturns ==
    ASSUME TypeInv, OneInFlight, Timeout \/ Receive \/ ReceiveFatal \/ Reap \/ Health
    PROVE  OneInFlight'
<1> USE DEF OneInFlight
<1>0. MainType /\ ClientType /\ ChanType /\ ServiceTypes /\ DiagType
    BY DEF TypeInv, ShimTypes
<1>1. CASE Timeout
    <2>1. main'.pc \in {"idle", "down"} /\ answer'.kind = "timeout"
        BY <1>0, <1>1, AfterSound DEF Timeout
    <2>2. ~client'.sender
        BY <1>0, <1>1, TerminateSound DEF Timeout
    <2> QED
        BY <1>1, <2>1, <2>2, FlightOver DEF Timeout, Terminate, OwnAnswer
<1>2. CASE Receive
    <2> DEFINE r == Head(chan.resp)
    <2>1. /\ main.pc = "await" /\ chan.resp # << >>
          /\ chan' = [chan EXCEPT !.resp = << >>]
          /\ client' = [client EXCEPT !.buffer = TRUE]
          /\ answer'.call = main.call /\ answer'.of = r.call /\ worker' = worker
        BY <1>2 DEF Receive
    <2>2. /\ client.sender /\ Greeted /\ worker.pc = "recv"
          /\ Asked = << >> /\ Answered = << >>
          /\ r.call = main.call /\ chan.req = << >>
        BY <2>1 DEF Waited
    <2>3. OwnAnswer'
        BY <2>1, <2>2 DEF OwnAnswer
    <2>4. \/ Kill /\ main' = After /\ main.op = "shutdown"
          \/ /\ main' = [main EXCEPT !.pc = "reap"] \/ main' = After
             /\ UNCHANGED << service, server, threads, pipe >>
        BY <1>2 DEF Receive
    <2>5. CASE main'.pc \in {"down", "reap"}
        BY <2>1, <2>3, <2>4, <2>5, FlightOver
    <2>6. CASE main'.pc = "idle"
        <3>1. UNCHANGED << threads, pipe >>
            BY <1>0, <2>4, <2>6, AfterSound
        <3>2. client'.sender /\ client'.buffer
            BY <1>0, <2>1, <2>2 DEF ClientType
        <3>3. chan'.req = << >> /\ chan'.resp = << >>
            BY <1>0, <2>1, <2>2 DEF ChanType
        <3>4. Resting'
            BY <2>1, <2>2, <3>1, <3>2, <3>3 DEF Resting, Greeted, Asked, Answered
        <3> QED
            BY <2>1, <2>3, <2>6, <3>1, <3>4
               DEF ShimPipe, Before, Connecting, Waited, Asked, Answered
    <2>7. main'.pc \in {"idle", "down", "reap"}
        BY <1>0, <2>4, AfterSound DEF MainType
    <2> QED
        BY <2>5, <2>6, <2>7
<1>3. CASE ReceiveFatal
    <2>1. main'.pc \in {"idle", "down"} /\ answer'.kind = "fatal" /\ ~client'.sender
        BY <1>0, <1>3, AfterSound DEF ReceiveFatal
    <2> QED
        BY <1>3, <2>1, FlightOver DEF ReceiveFatal, OwnAnswer
<1>4. CASE Reap
    <2>1. main'.pc \in {"idle", "down"}
        BY <1>0, <1>4, AfterSound DEF Reap
    <2>2. ~client'.sender
        BY <1>0, <1>4 DEF Reap, ClientType
    <2> QED
        BY <1>4, <2>1, <2>2, FlightOver DEF Reap, serverVars, OwnAnswer
<1>5. CASE Health
    BY <1>5, FlightUntouched DEF Health, serverVars, Asked, Answered, Greeted
<1> QED
    BY <1>1, <1>2, <1>3, <1>4, <1>5

\* The worker carries the request to the service and its answer back.
LEMMA FlightWorks ==
    ASSUME TypeInv, OneInFlight, Worker
    PROVE  OneInFlight'
<1> USE DEF OneInFlight
<1>0. WorkerType /\ ChanType /\ PipeType /\ UNCHANGED << main, client, answer, threads >>
    BY DEF TypeInv, ShimTypes, ServiceTypes, Worker, WorkerSend, WorkerRead, WorkerBroken,
           WorkerEnds, serverVars
<1>1. CASE WorkerSend
    <2> DEFINE r == Head(chan.req)
    <2>1. worker.pc = "recv" /\ chan.req # << >>
        BY <1>1 DEF WorkerSend
    <2>2. CASE pipe["shim"].state = "closed"
        <3>1. /\ UNCHANGED << worker, pipe >>
              /\ chan' = [req |-> << >>, resp |-> << [call |-> r.call, kind |-> "fatal"] >>]
            BY <1>1, <2>2 DEF WorkerSend
        <3>2. /\ chan'.req = << >> /\ Len(chan'.resp) = 1
              /\ Head(chan'.resp).call = r.call
            BY <3>1
        <3>3. Waited'
            BY <1>0, <2>1, <3>1, <3>2 DEF Waited, Greeted, Asked, Answered
        <3> QED
            BY <1>0, <2>1, <3>1, <3>3
               DEF ShimPipe, Before, Connecting, Resting, OwnAnswer, Asked, Answered
    <2>3. CASE pipe["shim"].state # "closed"
        <3> DEFINE q == [call |-> r.call, id |-> nextId, op |-> r.op]
        <3>1. /\ worker' = [pc |-> "read", call |-> r.call, id |-> nextId]
              /\ chan' = [chan EXCEPT !.req = << >>]
              /\ pipe' = [pipe EXCEPT !["shim"].in = Append(pipe["shim"].in, q)]
            BY <1>1, <2>3 DEF WorkerSend
        <3>2. chan'.req = << >> /\ chan'.resp = chan.resp
            BY <1>0, <3>1 DEF ChanType
        <3>3. /\ Asked' = Append(Asked, q) /\ Answered' = Answered
              /\ pipe'["shim"].state = pipe["shim"].state
            BY <1>0, <3>1, ShimIsConn DEF Asked, Answered, PipeType
        <3>4. Asked = << >> => Len(Append(Asked, q)) = 1 /\ Head(Append(Asked, q)) = q
            OBVIOUS
        <3>5. Waited'
            BY <1>0, <2>1, <3>1, <3>2, <3>3, <3>4 DEF Waited, Greeted
        <3> QED
            BY <1>0, <2>1, <2>3, <3>3, <3>5
               DEF ShimPipe, Before, Connecting, Resting, OwnAnswer
    <2> QED
        BY <2>2, <2>3
<1>2. CASE WorkerRead
    <2> DEFINE f == Head(pipe["shim"].out)
               kind == IF f.kind = "error" \/ f.id = worker.id THEN f.kind ELSE "fatal"
    <2>1. /\ worker.pc = "read" /\ Answered # << >> /\ worker'.pc = "recv"
          /\ chan' = [chan EXCEPT !.resp = << [call |-> f.call, kind |-> kind] >>]
          /\ pipe' = [pipe EXCEPT !["shim"].out = Tail(pipe["shim"].out)]
        BY <1>2 DEF WorkerRead, Answered
    <2>2. /\ chan'.req = chan.req /\ Len(chan'.resp) = 1
          /\ Head(chan'.resp).call = Head(Answered).call
        BY <1>0, <2>1 DEF ChanType, Answered
    <2>3. /\ Asked' = Asked /\ Answered' = Tail(Answered)
          /\ pipe'["shim"].state = pipe["shim"].state
        BY <1>0, <2>1, ShimIsConn DEF Asked, Answered, PipeType
    <2>4. Len(Answered) = 1 => Tail(Answered) = << >>
        BY FlightTypes, AtMostOne
    <2>5. Waited'
        BY <1>0, <2>1, <2>2, <2>3, <2>4 DEF Waited, Greeted
    <2> QED
        BY <1>0, <2>1, <2>3, <2>5
           DEF ShimPipe, Before, Connecting, Resting, OwnAnswer
<1>3. CASE WorkerBroken
    <2>1. /\ worker.pc = "read" /\ pipe' = pipe /\ worker'.pc = "recv"
          /\ Answered = << >> /\ pipe["shim"].state = "closed"
          /\ chan' = [chan EXCEPT !.resp = << [call |-> worker.call, kind |-> "fatal"] >>]
        BY <1>3 DEF WorkerBroken, Answered
    <2>2. /\ chan'.req = chan.req /\ Len(chan'.resp) = 1
          /\ Head(chan'.resp).call = worker.call
        BY <1>0, <2>1 DEF ChanType
    <2>3. Asked = << >> /\ Asked' = Asked /\ Answered' = Answered
        BY <2>1 DEF ShimPipe, Asked, Answered
    <2>4. Waited'
        BY <1>0, <2>1, <2>2, <2>3 DEF Waited, Greeted
    <2> QED
        BY <1>0, <2>1, <2>3, <2>4
           DEF ShimPipe, Before, Connecting, Resting, OwnAnswer
<1>4. CASE WorkerEnds
    <2>1. /\ worker.pc = "recv" /\ ~client.sender /\ chan' = chan
          /\ pipe' = Close("shim")
        BY <1>4 DEF WorkerEnds
    <2>2. Asked' = << >> /\ pipe'["shim"].state = "closed"
        BY <1>0, <2>1, ShimIsConn DEF Close, Asked, PipeType
    <2> QED
        BY <1>0, <2>1, <2>2 DEF ShimPipe, Before, Connecting, Resting, Waited, OwnAnswer
<1> QED
    BY <1>1, <1>2, <1>3, <1>4 DEF Worker

\* The service: the handshake, the answers, the ways out.
LEMMA FlightServed ==
    ASSUME TypeInv, OneInFlight,
           Handshake("shim") \/ Serve \/ ServeFails
    PROVE  OneInFlight'
<1> USE DEF OneInFlight
<1>0. /\ ThreadsType /\ PipeType /\ UNCHANGED << main, client, worker, chan, answer >>
      /\ Asked # << >>
    BY DEF TypeInv, ServiceTypes, Handshake, Serve, ServeFails, shimVars, Asked
<1>1. pipe["shim"].state \notin {"unused", "closed"}
    BY <1>0 DEF ShimPipe
<1>2. ASSUME NEW f, Greeted => f.call = Head(Asked).call, Greeted',
             pipe' = [pipe EXCEPT !["shim"].in = Tail(pipe["shim"].in),
                                  !["shim"].out = Append(pipe["shim"].out, f)]
      PROVE  OneInFlight'
    <2>1. /\ Asked' = Tail(Asked) /\ Answered' = Append(Answered, f)
          /\ pipe'["shim"].state = pipe["shim"].state
        BY <1>0, <1>2, ShimIsConn DEF Asked, Answered, PipeType
    <2>2. Answered = << >> => Len(Append(Answered, f)) = 1 /\ Head(Append(Answered, f)) = f
        OBVIOUS
    <2>3. Len(Asked) = 1 => Tail(Asked) = << >>
        BY FlightTypes, AtMostOne
    <2>4. Waited'
        BY <1>0, <1>2, <2>1, <2>2, <2>3 DEF Waited
    <2>5. ASSUME main.pc = "connecting"
          PROVE  Len(Asked') + Len(Answered') <= 1
        <3>1. Len(Asked) \in Nat /\ Len(Answered) \in Nat /\ Len(Asked) # 0
              /\ Len(Asked) + Len(Answered) <= 1
            BY <1>0, <2>5, FlightTypes, AtMostOne DEF Connecting
        <3>2. Len(Asked) = 1 /\ Len(Answered) = 0
            BY <3>1, OneOfTwo
        <3>3. Asked' = << >> /\ Len(Answered') = 1
            BY <2>1, <2>2, <2>3, <3>2, FlightTypes, AtMostOne
        <3> QED
            BY <3>3
    <2>6. Connecting'
        BY <1>0, <1>2, <2>5 DEF Connecting
    <2> QED
        BY <1>0, <1>1, <2>1, <2>4, <2>6 DEF ShimPipe, Before, Resting, OwnAnswer
<1>3. ASSUME pipe' = Close("shim"), Greeted'
      PROVE  OneInFlight'
    <2>1. Asked' = << >> /\ Answered' = Answered /\ pipe'["shim"].state = "closed"
        BY <1>0, <1>3, ShimIsConn DEF Close, Asked, Answered, PipeType
    <2> QED
        BY <1>0, <1>1, <1>3, <2>1, FlightCloses
<1>4. CASE Handshake("shim")
    <2>1. ~Greeted
        BY <1>4 DEF Handshake, Greeted
    <2>2. Greeted'
        BY <1>0, <1>4, ShimIsConn DEF Handshake, ThreadsType, Greeted
    <2> QED
        BY <1>2, <1>3, <1>4, <2>1, <2>2 DEF Handshake
<1>5. CASE Serve
    <2>1. Greeted'
        BY <1>0, <1>5, ShimIsConn DEF Serve, ThreadsType, Greeted
    <2>2. PICK kind \in {"ok", "error"} : Answer(Head(Asked), kind)
        BY <1>5 DEF Serve, Asked
    <2> DEFINE f == [call |-> Head(Asked).call, id |-> Head(Asked).id, kind |-> kind]
    <2>3. /\ pipe' = [pipe EXCEPT !["shim"].in = Tail(pipe["shim"].in),
                                  !["shim"].out = Append(pipe["shim"].out, f)]
          /\ f.call = Head(Asked).call
        BY <2>2 DEF Answer
    <2> HIDE DEF f
    <2> QED
        BY <1>2, <2>1, <2>3
<1>6. CASE ServeFails
    <2>1. Greeted'
        BY <1>0, <1>6, ShimIsConn DEF ServeFails, ThreadsType, Greeted
    <2> QED
        BY <1>3, <1>6, <2>1 DEF ServeFails
<1> QED
    BY <1>4, <1>5, <1>6

\* The accept loop: the shim is let in, or told that the service is busy.
LEMMA FlightAccepted ==
    ASSUME TypeInv, OneInFlight, NEW c \in Conns, AcceptPrimary(c) \/ AcceptBusy(c)
    PROVE  OneInFlight'
<1> USE DEF OneInFlight
<1>0. ThreadsType /\ PipeType /\ UNCHANGED << main, client, worker, chan, answer >>
    BY DEF TypeInv, ServiceTypes, AcceptPrimary, AcceptBusy, shimVars
<1>1. CASE Die
    BY <1>0, <1>1, FlightDies
<1>2. CASE c # "shim" /\ ~Die
    <2>1. pipe'["shim"] = pipe["shim"] /\ threads'["shim"] = threads["shim"]
        BY <1>0, <1>2, ShimIsConn DEF AcceptPrimary, AcceptBusy, ThreadsType, PipeType
    <2> QED
        BY <1>0, <2>1, FlightUntouched DEF Asked, Answered, Greeted
<1>3. CASE c = "shim" /\ AcceptPrimary(c)
    <2>1. ~Greeted /\ pipe["shim"].state = "queued"
        BY <1>3 DEF AcceptPrimary, Waiting, Greeted, ShimPipe
    <2>2. Asked' = Asked /\ Answered' = Answered /\ pipe'["shim"].state = "open"
        BY <1>0, <1>3, <2>1, ShimIsConn DEF AcceptPrimary, PipeType, Asked, Answered
    <2> QED
        BY <1>0, <2>1, <2>2, FlightUntouched
<1>4. CASE c = "shim" /\ AcceptBusy(c) /\ ~Die
    <2> DEFINE busy == [call |-> Nil, id |-> 0, kind |-> "busy"]
    <2>1. /\ pipe' = [pipe EXCEPT !["shim"].state = "closed", !["shim"].in = << >>,
                                  !["shim"].out = << busy >>]
          /\ threads["shim"] = "none" /\ pipe["shim"].state = "queued"
        BY <1>4 DEF AcceptBusy, Waiting
    <2>2. ~Greeted
        BY <2>1 DEF Greeted
    <2>3. pipe'["shim"].state = "closed" /\ Asked' = << >> /\ Answered' = << busy >>
        BY <1>0, <2>1, ShimIsConn DEF PipeType, Asked, Answered
    <2>4. Len(Asked') + Len(Answered') <= 1 /\ Head(Answered').kind # "ok"
        BY <2>3
    <2> QED
        BY <1>0, <2>1, <2>2, <2>3, <2>4
           DEF ShimPipe, Before, Connecting, Resting, Waited, OwnAnswer
<1> QED
    BY <1>1, <1>2, <1>3, <1>4

LEMMA FlightKept ==
    ASSUME SessionAssumption, TypeInv, OneInFlight, [Next]_vars
    PROVE  OneInFlight'
<1>1. CASE Shim
    BY <1>1, FlightStarts, FlightCalls, FlightReturns DEF Shim
<1>2. CASE Worker
    BY <1>2, FlightWorks
<1>3. CASE Listen \/ LoopTest \/ LoopIdle \/ Record \/ UNCHANGED vars
    <2>1. UNCHANGED << main, client, worker, chan, answer, threads, pipe >>
        BY <1>3 DEF Listen, LoopTest, LoopIdle, Record, vars, shimVars, serverVars
    <2> QED
        BY <2>1, FlightUntouched DEF Asked, Answered, Greeted
<1>4. CASE LoopJoin \/ ListenFails
    BY <1>4, FlightDies DEF LoopJoin, ListenFails, shimVars
<1>5. ASSUME NEW c \in Conns, Thread(c)
      PROVE  OneInFlight'
    <2>0. ThreadsType /\ PipeType /\ UNCHANGED << main, client, worker, chan, answer >>
        BY <1>5 DEF TypeInv, ServiceTypes, Thread, Handshake, Disconnected, ThreadEnds, shimVars
    <2>1. CASE Handshake(c) /\ c = "shim"
        BY <2>1, FlightServed
    <2>2. CASE Handshake(c) /\ c # "shim"
        <3>1. pipe'["shim"] = pipe["shim"] /\ threads'["shim"] = threads["shim"]
            BY <2>0, <2>2, ShimIsConn DEF Handshake, Close, ThreadsType, PipeType
        <3> QED
            BY <2>0, <3>1, FlightUntouched DEF Asked, Answered, Greeted
    <2>3. CASE Disconnected(c) \/ ThreadEnds(c)
        <3>1. pipe' = pipe /\ (Greeted => Greeted')
            BY <2>0, <2>3, ShimIsConn DEF Disconnected, ThreadEnds, ThreadsType, Greeted
        <3> QED
            BY <2>0, <3>1, FlightUntouched DEF Asked, Answered
    <2> QED
        BY <1>5, <2>1, <2>2, <2>3 DEF Thread
<1>6. CASE Serve \/ ServeFails
    BY <1>6, FlightServed
<1>7. ASSUME NEW c \in Strays, StrayConnects(c) \/ StrayWrites(c) \/ StrayLeaves(c)
      PROVE  OneInFlight'
    <2>1. c # "shim" /\ c \in Conns
        BY DEF SessionAssumption, Conns
    <2>2. pipe'["shim"] = pipe["shim"] /\ threads' = threads
          /\ UNCHANGED << main, client, worker, chan, answer >>
        BY <1>7, <2>1, ShimIsConn DEF StrayConnects, StrayWrites, StrayLeaves, TypeInv,
           ServiceTypes, PipeType, serverVars, shimVars
    <2> QED
        BY <2>2, FlightUntouched DEF Asked, Answered, Greeted
<1> QED
    BY <1>1, <1>2, <1>3, <1>4, <1>5, <1>6, <1>7, FlightAccepted DEF Next, Loop

(***************************************************************************)
(* The results.                                                            *)
(***************************************************************************)

\* The session's inductive invariant: types, what failed calls leave behind, the
\* admission of connections, and the one request that is under way.
THEOREM SessionInvariant ==
    ASSUME SessionAssumption
    PROVE  Spec => [](TypeInv /\ Fates /\ Admitted /\ OneInFlight)
<1>1. Init => TypeInv /\ Fates /\ Admitted /\ OneInFlight
    BY TypesInitial, FatesInitial, AdmittedInitial, FlightInitial
<1>2. TypeInv /\ Fates /\ Admitted /\ OneInFlight /\ [Next]_vars
        => (TypeInv /\ Fates /\ Admitted /\ OneInFlight)'
    BY TypesKept, FatesKept, AdmittedKept, FlightKept
<1> QED
    BY <1>1, <1>2, PTL DEF Spec

\* A session that is gone leaves no dogmosd behind, whichever way it went, and the
\* diagnostic it reports is the last line the service wrote.
THEOREM NoOrphanTheorem ==
    ASSUME SessionAssumption
    PROVE  Spec => []NoOrphan
<1>1. Fates => NoOrphan
    BY DEF Fates, Silenced, NoOrphan, NoneRuns, LastWords
<1> QED
    BY <1>1, SessionInvariant, PTL

\* At most one connection is inside handle_primary.
LEMMA AloneInside ==
    ASSUME Admitted
    PROVE  OneAdmitted
<1> DEFINE inside == {c \in Conns : threads[c] \in {"handshake", "serving", "leaving"}}
<1>1. CASE inside = {}
    BY <1>1, FS_EmptySet DEF OneAdmitted
<1>2. CASE inside # {}
    <2>1. PICK c \in Conns : inside = {c}
        BY <1>2 DEF Admitted, Inside
    <2>2. Cardinality({c}) = 1
        BY FS_Singleton
    <2> QED
        BY <2>1, <2>2 DEF OneAdmitted
<1> QED
    BY <1>1, <1>2

\* What a call returns is the service's answer to that very call, however many
\* calls timed out or failed before it; and one connection is served at a time.
THEOREM AnswersTheorem ==
    ASSUME SessionAssumption
    PROVE  Spec => []AnswersMatch
<1>1. Admitted /\ OneInFlight => AnswersMatch
    BY AloneInside DEF OneInFlight, AnswersMatch
<1> QED
    BY <1>1, SessionInvariant, PTL

\* After a timeout, a lost connection or a stopped client no later call of the
\* session is answered by the service.
THEOREM FailsClosedTheorem ==
    ASSUME SessionAssumption
    PROVE  Spec => FailsClosed
<1>1. ASSUME Fates, [Next]_vars, answer.kind \in {"timeout", "fatal", "stopped"}
      PROVE  answer'.kind \notin {"ok", "error"}
    <2>1. main.pc \in {"idle", "down"}
        BY <1>1 DEF Fates, Gone
    <2>2. answer' = answer \/ answer'.kind \in {"stopped", "timeout", "fatal"}
        <3>1. CASE Shim
            <4>1. ASSUME NEW op \in Ops, Request(op)
                  PROVE  answer' = answer \/ answer'.kind = "stopped"
                BY <4>1 DEF Request
            <4> QED
                BY <2>1, <3>1, <4>1 DEF Shim, Start, StartFails, Connect, Connected, Timeout,
                                        Receive, ReceiveFatal, Reap, Health, shimVars
        <3>2. CASE Worker \/ Loop \/ ListenFails
            BY <3>2 DEF Worker, WorkerSend, WorkerRead, WorkerBroken, WorkerEnds, Loop, Listen,
                LoopTest, LoopIdle, AcceptPrimary, AcceptBusy, LoopJoin, ListenFails, shimVars
        <3>3. CASE \E c \in Conns : Thread(c)
            BY <3>3 DEF Thread, Handshake, Disconnected, ThreadEnds, shimVars
        <3>4. CASE Serve \/ ServeFails \/ Record \/ UNCHANGED vars
            BY <3>4 DEF Serve, ServeFails, Record, shimVars, vars
        <3>5. CASE \E c \in Strays : StrayConnects(c) \/ StrayWrites(c) \/ StrayLeaves(c)
            BY <3>5 DEF StrayConnects, StrayWrites, StrayLeaves, shimVars
        <3> QED
            BY <1>1, <3>1, <3>2, <3>3, <3>4, <3>5 DEF Next
    <2> QED
        BY <1>1, <2>2
<1>2. Fates /\ [Next]_vars =>
        [answer.kind \in {"timeout", "fatal", "stopped"}
           => answer'.kind \notin {"ok", "error"}]_vars
    BY <1>1
<1> QED
    BY <1>2, SessionInvariant, PTL DEF Spec, FailsClosed
=============================================================================
