----------------------------- MODULE GrpcServer -----------------------------
(***************************************************************************)
(* The gRPC server runtime of crates/tpt-proto-grpc/src/server.rs: the     *)
(* accept loop and its drain, one task per connection, one detached task   *)
(* per RPC, the semaphore that bounds concurrent RPCs, the select! of      *)
(* handler, shutdown and deadline, the response written to the stream, and *)
(* the status handed to the observability sinks.                           *)
(*                                                                         *)
(* The server's shutdown token is an instance of Cancellation whose        *)
(* waiters are the accept loop, the connection loops and the RPC tasks:    *)
(* each select! that awaits shutdown.cancelled() is one waiter, and a new  *)
(* round of a loop is a new wait.  Threads of the embedding program may    *)
(* block on a clone of it (Server::shutdown_token).                        *)
(*                                                                         *)
(* External, modelled by how server.rs uses it: tokio's Semaphore is FIFO; *)
(* select! polls its branches in random order; h2 writes queued frames     *)
(* only while the connection is polled, fails every stream of a dropped    *)
(* connection, and resets a stream whose handles are dropped unfinished.   *)
(***************************************************************************)
EXTENDS Integers, Sequences, FiniteSets

CONSTANTS Conns,       \* TCP connections
          Rpcs,        \* RPCs, on any connection
          Requests,    \* the requests a peer may send
          Stops,       \* callers of Server::shutdown()
          Blockers,    \* threads that wait() on Server::shutdown_token()
          Listener,    \* the accept loop, as a waiter
          MaxRpcs,     \* ServerConfig::max_concurrent_rpcs
          Deliveries,  \* bound: what a request read whole may turn out to be
          MaxItems,    \* bound: response messages of one stream
          None         \* no request yet, nothing recorded yet

Kinds == {"unary", "server", "client", "bidi"}     \* MethodKind
\* What the security policy and the registry say of it are independent.
Request == [kind : Kinds, deadline : BOOLEAN, denied : BOOLEAN, known : BOOLEAN]

Codes == {"Ok", "InvalidArgument", "PermissionDenied", "Unimplemented",
          "DeadlineExceeded", "Unavailable", "Internal", "Aborted",
          "Unauthenticated"}

\* "open": nothing was delivered that the task has still to read.
Bodies == {"open", "message", "empty", "bad"}

ASSUME ServerAssumption ==
    /\ MaxRpcs \in Nat \ {0}
    /\ MaxItems \in Nat
    /\ IsFiniteSet(Rpcs)
    /\ Requests \subseteq Request
    /\ None \notin Codes \cup Request
    /\ Deliveries \subseteq Bodies
    /\ Listener \notin Conns \cup Rpcs
    /\ Blockers \cap ({Listener} \cup Conns \cup Rpcs) = {}

VARIABLES
    listener,     \* "accepting", "draining" (join_next), "returned"
    conn,         \* each connection's task
    task,         \* each RPC's task
    req,          \* each RPC's connection and request
    body,         \* what the request stream has delivered
    permits,      \* available permits of rpc_semaphore
    permitQueue,  \* tasks parked in rpc_semaphore.acquire(), in order
    frames,       \* the frames written to each RPC's h2 stream
    flushed,      \* how many of them reached the peer
    dead,         \* the stream is reset or its connection is gone
    recorded,     \* status given to finish_with_status and emit_call_log
    cancelled, waiter, canceller     \* the shutdown token

token == <<cancelled, waiter, canceller>>
semaphore == <<permits, permitQueue>>
stream == <<body, frames, flushed, dead>>
vars == <<listener, conn, task, req, semaphore, stream, recorded, token>>

Tasks == {Listener} \cup Conns \cup Rpcs
Waiters == Tasks \cup Blockers

Shutdown == INSTANCE Cancellation WITH
    AsyncWaiters <- Tasks, SyncWaiters <- Blockers, Cancellers <- Stops

\* "stopped": its loop was left on shutdown; "closed": for any other reason.
ConnStates == {"none", "handshake", "serving", "stopped", "closed"}

\* "spawned"   the task has not run yet
\* "acquiring" parked in the semaphore's queue
\* "granted"   the permit is assigned, handle_request is about to run
\* "reading"   in the select!, read_single_message awaits the request
\* "handling"  in the select!, the handler runs
\* "streaming" past the select!, awaiting the response stream's next item
TaskStates == {"none", "spawned", "acquiring", "granted", "reading",
               "handling", "streaming", "done"}
InSelect == {"reading", "handling"}
HoldsPermit == {"granted", "reading", "handling", "streaming"}
Running == {"spawned", "acquiring"} \cup HoldsPermit
Unread == {"spawned", "acquiring", "granted", "reading"}

Terminals == Codes \cup {"reset"}
Frames == {"headers", "data"} \cup Terminals

ReadsSingle == {"unary", "server"}
StreamsResponse == {"server", "bidi"}

Calls == [conn : Conns, req : Requests]

TypeOK ==
    /\ listener \in {"accepting", "draining", "returned"}
    /\ conn \in [Conns -> ConnStates]
    /\ task \in [Rpcs -> TaskStates]
    /\ req \in [Rpcs -> Calls \cup {None}]
    /\ body \in [Rpcs -> Bodies]
    /\ permits \in Nat
    /\ permitQueue \in Seq(Rpcs)
    /\ frames \in [Rpcs -> Seq(Frames)]
    /\ flushed \in [Rpcs -> Nat]
    /\ dead \in [Rpcs -> BOOLEAN]
    /\ recorded \in [Rpcs -> Codes \cup {None}]
    /\ Shutdown!TypeOK

Init ==
    /\ listener = "accepting"
    /\ conn = [c \in Conns |-> "none"]
    /\ task = [r \in Rpcs |-> "none"]
    /\ req = [r \in Rpcs |-> None]
    /\ body = [r \in Rpcs |-> "open"]
    /\ permits = MaxRpcs
    /\ permitQueue = <<>>
    /\ frames = [r \in Rpcs |-> <<>>]
    /\ flushed = [r \in Rpcs |-> 0]
    /\ dead = [r \in Rpcs |-> FALSE]
    /\ recorded = [r \in Rpcs |-> None]
    /\ Shutdown!Init

-----------------------------------------------------------------------------
\* Helpers.

OnConn(r, c) == req[r] # None /\ req[r].conn = c

\* A loop drops its cancelled() future and, next round, creates another; this
\* cannot happen inside the poll that loads the flag and registers.
NewRound(w) ==
    /\ waiter[w] # "checked"
    /\ waiter' = [waiter EXCEPT ![w] = "idle"]
    /\ UNCHANGED <<cancelled, canceller>>

\* Faulty variant: the permit is not returned.
EndTaskLeaks(r) ==
    /\ task' = [task EXCEPT ![r] = "done"]
    /\ UNCHANGED semaphore

\* Dropping the Permit hands it to the head of the queue, if there is one.
EndTask(r) ==
    IF permitQueue = <<>>
      THEN /\ task' = [task EXCEPT ![r] = "done"]
           /\ permits' = permits + 1
           /\ UNCHANGED permitQueue
      ELSE /\ task' = [task EXCEPT ![r] = "done", ![Head(permitQueue)] = "granted"]
           /\ permitQueue' = Tail(permitQueue)
           /\ UNCHANGED permits

\* send_response, send_data and send_trailers fail on a dead stream.
Write(r, fs) == frames' = [frames EXCEPT ![r] = IF dead[r] THEN @ ELSE @ \o fs]

\* finish_with_status, then emit_call_log: only the first status counts.
Record(r, code) ==
    recorded' = [recorded EXCEPT ![r] = IF @ = None THEN code ELSE @]

\* The rest of handle_request from a result without a response stream; the
\* request stream is dropped, read or not.
Finish(r, code, fs) ==
    /\ Record(r, code)
    /\ Write(r, fs)
    /\ EndTask(r)
    /\ NewRound(r)
    /\ body' = [body EXCEPT ![r] = "open"]
    /\ UNCHANGED <<listener, conn, req, flushed, dead>>

\* Faulty variant: the error is recorded but the default status is sent.
FailAsOk(r, code) == Finish(r, code, <<"headers", "Ok">>)

\* finish_with_status_respond after a failed send_headers writes nothing either.
Fail(r, code) == Finish(r, code, <<"headers", code>>)

\* handle_connection returns: the Connection is dropped and h2 fails every
\* stream on it, the finished ones with unwritten frames too.
CloseConn(c, how) ==
    /\ conn' = [conn EXCEPT ![c] = how]
    /\ dead' = [r \in Rpcs |-> dead[r] \/ OnConn(r, c)]
    /\ NewRound(c)
    /\ UNCHANGED <<listener, task, req, semaphore, body, frames, flushed, recorded>>

-----------------------------------------------------------------------------
\* Server::shutdown(), and the waiters of its token.

Stop(k) ==
    /\ Shutdown!Store(k) \/ Shutdown!Notify(k)
    /\ UNCHANGED <<listener, conn, task, req, semaphore, stream, recorded>>

InShutdownSelect(w) ==
    \/ w = Listener /\ listener = "accepting"
    \/ w \in Conns /\ conn[w] = "serving"
    \/ w \in Rpcs /\ task[w] \in InSelect

\* A select! polls its shutdown.cancelled() branch.
PollShutdown(w) ==
    /\ InShutdownSelect(w)
    /\ Shutdown!Check(w) \/ Shutdown!Register(w)
    /\ UNCHANGED <<listener, conn, task, req, semaphore, stream, recorded>>

\* A thread outside of the server is in wait().
Block(b) ==
    /\ Shutdown!EnterWait(b) \/ Shutdown!CheckInWait(b) \/ Shutdown!Register(b)
    /\ UNCHANGED <<listener, conn, task, req, semaphore, stream, recorded>>

-----------------------------------------------------------------------------
\* serve_with_acceptor: the accept loop, then the drain.

Accept(c) ==
    /\ listener = "accepting"
    /\ conn[c] = "none"
    /\ conn' = [conn EXCEPT ![c] = "handshake"]
    /\ NewRound(Listener)
    /\ UNCHANGED <<listener, task, req, semaphore, stream, recorded>>

AcceptError ==
    /\ listener = "accepting"
    /\ NewRound(Listener)
    /\ UNCHANGED <<listener, conn, task, req, semaphore, stream, recorded>>

StopAccepting ==
    /\ listener = "accepting"
    /\ waiter[Listener] = "released"
    /\ listener' = "draining"
    /\ NewRound(Listener)
    /\ UNCHANGED <<conn, task, req, semaphore, stream, recorded>>

\* Faulty variant: the drain has no timeout.
ReturnWhenJoined ==
    /\ listener = "draining"
    /\ \A c \in Conns : conn[c] \notin {"handshake", "serving"}
    /\ listener' = "returned"
    /\ UNCHANGED <<conn, task, req, semaphore, stream, recorded, token>>

\* Every connection task of the JoinSet is joined, or the timeout elapses.
Return ==
    /\ listener = "draining"
    /\ listener' = "returned"
    /\ UNCHANGED <<conn, task, req, semaphore, stream, recorded, token>>

\* abort_all, or the drop of the JoinSet, cuts a connection task short.
AbortConn(c) ==
    /\ listener = "returned"
    /\ conn[c] \in {"handshake", "serving"}
    /\ CloseConn(c, "closed")

-----------------------------------------------------------------------------
\* handle_connection, and the peer at the other end.

Handshake(c) ==
    /\ conn[c] = "handshake"
    /\ \E outcome \in {"serving", "closed"} : conn' = [conn EXCEPT ![c] = outcome]
    /\ UNCHANGED <<listener, task, req, semaphore, stream, recorded, token>>

\* conn.accept() yields a request the peer sent; its task is spawned, outside
\* of the JoinSet the drain joins.
AcceptRpc(c, r, q) ==
    /\ conn[c] = "serving"
    /\ task[r] = "none"
    /\ task' = [task EXCEPT ![r] = "spawned"]
    /\ req' = [req EXCEPT ![r] = [conn |-> c, req |-> q]]
    /\ NewRound(c)
    /\ UNCHANGED <<listener, conn, semaphore, stream, recorded>>

\* conn.accept() yields an error: logged, and the loop goes on.
StreamError(c) ==
    /\ conn[c] = "serving"
    /\ NewRound(c)
    /\ UNCHANGED <<listener, conn, task, req, semaphore, stream, recorded>>

\* graceful_shutdown() queues GOAWAY; the loop breaks without polling again.
StopConn(c) ==
    /\ conn[c] = "serving"
    /\ waiter[c] = "released"
    /\ CloseConn(c, "stopped")

\* The keepalive task cancels conn_shutdown, or conn.accept() yields None.
LoseConn(c) ==
    /\ conn[c] = "serving"
    /\ CloseConn(c, "closed")

\* The peer sends (the rest of) its request: one message and END_STREAM, only
\* END_STREAM, or bytes that do not deframe.  What a handler reads from its
\* request stream shows only in what the handler does.
ReceiveBody(r) ==
    /\ req[r] # None
    /\ req[r].req.kind \in ReadsSingle
    /\ ~req[r].req.denied /\ req[r].req.known
    /\ conn[req[r].conn] = "serving"
    /\ task[r] \in Unread /\ ~dead[r]
    /\ body[r] = "open"
    /\ \E b \in Deliveries : body' = [body EXCEPT ![r] = b]
    /\ UNCHANGED <<listener, conn, task, req, semaphore, frames, flushed, dead,
                   recorded, token>>

\* The peer resets the stream: frames not yet written are discarded.
ResetStream(r) ==
    /\ req[r] # None
    /\ conn[req[r].conn] = "serving"
    /\ task[r] \in Running /\ ~dead[r]
    /\ dead' = [dead EXCEPT ![r] = TRUE]
    /\ UNCHANGED <<listener, conn, task, req, semaphore, body, frames, flushed,
                   recorded, token>>

\* Polling the connection writes what its streams have queued.
Flush(r) ==
    /\ req[r] # None
    /\ conn[req[r].conn] = "serving"
    /\ waiter[req[r].conn] # "checked"
    /\ ~dead[r]
    /\ flushed[r] # Len(frames[r])
    /\ flushed' = [flushed EXCEPT ![r] = Len(frames[r])]
    /\ UNCHANGED <<listener, conn, task, req, semaphore, body, frames, dead,
                   recorded, token>>

-----------------------------------------------------------------------------
\* An RPC's task: the permit, then handle_request up to the select!.

\* Faulty variant: acquire() takes a permit that is not there.
RequestPermitUnchecked(r) ==
    /\ task[r] = "spawned"
    /\ permits' = permits - 1
    /\ task' = [task EXCEPT ![r] = "granted"]
    /\ UNCHANGED <<listener, conn, req, permitQueue, stream, recorded, token>>

\* acquire(): at once when a permit is free, else behind the others.
RequestPermit(r) ==
    /\ task[r] = "spawned"
    /\ IF permits > 0
         THEN /\ permits' = permits - 1
              /\ task' = [task EXCEPT ![r] = "granted"]
              /\ UNCHANGED permitQueue
         ELSE /\ permitQueue' = Append(permitQueue, r)
              /\ task' = [task EXCEPT ![r] = "acquiring"]
              /\ UNCHANGED permits
    /\ UNCHANGED <<listener, conn, req, stream, recorded, token>>

\* SecurityPolicy::apply fails, before the routing result is looked at.
Deny(r) ==
    /\ task[r] = "granted"
    /\ req[r].req.denied
    /\ \E code \in {"Unauthenticated", "PermissionDenied"} : Fail(r, code)

\* Faulty variant: the routing result is looked at first.
RejectUnknownFirst(r) ==
    /\ task[r] = "granted"
    /\ ~req[r].req.known
    /\ Fail(r, "Unimplemented")

\* The policy lets it pass, and no registered method has the request's path.
RejectUnknown(r) ==
    /\ task[r] = "granted"
    /\ ~req[r].req.denied /\ ~req[r].req.known
    /\ Fail(r, "Unimplemented")

\* dispatch: read_single_message, or the handler with the request stream.
Dispatch(r) ==
    /\ task[r] = "granted"
    /\ ~req[r].req.denied /\ req[r].req.known
    /\ task' = [task EXCEPT ![r] = IF req[r].req.kind \in ReadsSingle
                                    THEN "reading" ELSE "handling"]
    /\ UNCHANGED <<listener, conn, req, semaphore, stream, recorded, token>>

-----------------------------------------------------------------------------
\* An RPC's task: the branches of the select!.

ReadMessage(r) ==
    /\ task[r] = "reading"
    /\ body[r] = "message" /\ ~dead[r]
    /\ waiter[r] # "checked"
    /\ task' = [task EXCEPT ![r] = "handling"]
    /\ body' = [body EXCEPT ![r] = "open"]
    /\ UNCHANGED <<listener, conn, req, semaphore, frames, flushed, dead, recorded,
                   token>>

\* "missing request message" is an Ok(HandlerOutput) with an error status.
MissingMessage(r) ==
    /\ task[r] = "reading"
    /\ body[r] = "empty" /\ ~dead[r]
    /\ Finish(r, "Ok", <<"headers", "InvalidArgument">>)

\* The body of a dead stream ends in an error, whatever it delivered before.
BadBody(r) ==
    /\ task[r] = "reading"
    /\ body[r] = "bad" \/ dead[r]
    /\ Fail(r, "Internal")

SeeShutdown(r) ==
    /\ task[r] \in InSelect
    /\ waiter[r] = "released"
    /\ Fail(r, "Unavailable")

\* Faulty variant: the deadline covers the handler only.
SeeDeadlineInHandler(r) ==
    /\ task[r] = "handling"
    /\ req[r].req.deadline
    /\ Fail(r, "DeadlineExceeded")

\* The sleep may elapse at any time after the deadline was computed.
SeeDeadline(r) ==
    /\ task[r] \in InSelect
    /\ req[r].req.deadline
    /\ Fail(r, "DeadlineExceeded")

\* The handler answers with one message; when it does not encode (too large)
\* send_message fails after the headers and the stream is dropped.
ReturnMessage(r) ==
    /\ task[r] = "handling"
    /\ req[r].req.kind \notin StreamsResponse
    /\ \E fs \in {<<"headers", "data", "Ok">>, <<"headers", "reset">>} :
         Finish(r, "Ok", fs)

\* Faulty variant: a streamed call is recorded when its stream ends.
ReturnStreamUnrecorded(r) ==
    /\ task[r] = "handling"
    /\ req[r].req.kind \in StreamsResponse
    /\ ~dead[r]
    /\ Write(r, <<"headers">>)
    /\ task' = [task EXCEPT ![r] = "streaming"]
    /\ NewRound(r)
    /\ UNCHANGED <<listener, conn, req, semaphore, body, flushed, dead, recorded>>

\* The handler answers with a stream: the headers are sent and the call is
\* recorded, the permit stays.
ReturnStream(r) ==
    /\ task[r] = "handling"
    /\ req[r].req.kind \in StreamsResponse
    /\ IF dead[r]
         THEN Finish(r, "Ok", <<>>)
         ELSE /\ Record(r, "Ok")
              /\ Write(r, <<"headers">>)
              /\ task' = [task EXCEPT ![r] = "streaming"]
              /\ NewRound(r)
              /\ UNCHANGED <<listener, conn, req, semaphore, body, flushed, dead>>

ReturnError(r) ==
    /\ task[r] = "handling"
    /\ Fail(r, "Aborted")

\* A panic unwinds the task: Drop finishes the CallInstrumentor as Ok.
Panic(r) ==
    /\ task[r] \in {"handling", "streaming"}
    /\ Finish(r, "Ok", <<"reset">>)

-----------------------------------------------------------------------------
\* An RPC's task: the loop over the response stream.

\* An item whose send_message fails ends the call without trailers.
StreamItem(r) ==
    /\ task[r] = "streaming"
    /\ \/ /\ dead[r]
          /\ Finish(r, "Ok", <<>>)
       \/ /\ ~dead[r]
          /\ Len(frames[r]) <= MaxItems
          /\ Write(r, <<"data">>)
          /\ UNCHANGED <<listener, conn, task, req, semaphore, body, flushed,
                         dead, recorded, token>>
       \/ Finish(r, "Ok", <<"reset">>)

\* Faulty variant: no return after the trailers of an Err item.
StreamEndFallsThrough(r) ==
    /\ task[r] = "streaming"
    /\ \E fs \in {<<"Ok">>, <<"Aborted", "Ok">>} : Finish(r, "Ok", fs)

\* The stream ends, or yields an Err item.
StreamEnd(r) ==
    /\ task[r] = "streaming"
    /\ \E code \in {"Ok", "Aborted"} : Finish(r, "Ok", <<code>>)

-----------------------------------------------------------------------------

ListenerNext == AcceptError \/ StopAccepting \/ Return

ConnNext(c) ==
    \/ Accept(c) \/ Handshake(c) \/ StreamError(c) \/ StopConn(c)
    \/ LoseConn(c) \/ AbortConn(c)
    \/ \E r \in Rpcs, q \in Requests : AcceptRpc(c, r, q)

PeerNext(r) == ReceiveBody(r) \/ ResetStream(r) \/ Flush(r)

TaskNext(r) ==
    \/ RequestPermit(r) \/ Deny(r) \/ RejectUnknown(r) \/ Dispatch(r)
    \/ ReadMessage(r) \/ MissingMessage(r) \/ BadBody(r)
    \/ SeeShutdown(r) \/ SeeDeadline(r)
    \/ ReturnMessage(r) \/ ReturnStream(r) \/ ReturnError(r) \/ Panic(r)
    \/ StreamItem(r) \/ StreamEnd(r)

Next ==
    \/ ListenerNext
    \/ \E k \in Stops : Stop(k)
    \/ \E w \in Tasks : PollShutdown(w)
    \/ \E b \in Blockers : Block(b)
    \/ \E c \in Conns : ConnNext(c)
    \/ \E r \in Rpcs : PeerNext(r) \/ TaskNext(r)

(***************************************************************************)
(* The runtime polls every task whose future is ready and its timers       *)
(* elapse.  Nothing is assumed of peers, of handlers or of the streams     *)
(* handlers return, nor that anybody calls shutdown().  Strong fairness    *)
(* where the step competes with rounds of the same loop: select! picks its *)
(* branches at random, and an aborted task is dropped at its next yield.   *)
(***************************************************************************)
Fairness ==
    /\ SF_vars(StopAccepting) /\ WF_vars(Return)
    /\ \A k \in Stops : WF_vars(Shutdown!Notify(k) /\ Stop(k))
    /\ \A w \in Tasks : WF_vars(PollShutdown(w))
    /\ \A c \in Conns : SF_vars(StopConn(c)) /\ SF_vars(AbortConn(c))
    /\ \A r \in Rpcs :
         /\ WF_vars(Flush(r)) /\ WF_vars(RequestPermit(r))
         /\ WF_vars(Deny(r)) /\ WF_vars(RejectUnknown(r)) /\ WF_vars(Dispatch(r))
         /\ WF_vars(ReadMessage(r)) /\ WF_vars(MissingMessage(r))
         /\ WF_vars(BadBody(r))
         /\ WF_vars(SeeShutdown(r)) /\ WF_vars(SeeDeadline(r))

Spec == Init /\ [][Next]_vars
FairSpec == Spec /\ Fairness

-----------------------------------------------------------------------------
\* Safety.

(***************************************************************************)
(* The promises of the token, kept while the loops of the server take and  *)
(* drop its futures and threads block on it (cancellation.rs:44-72).       *)
(***************************************************************************)
ReleasedOnlyWhenCancelled == Shutdown!ReleasedOnlyWhenCancelled
LateWaiterNeverParks == Shutdown!LateWaiterNeverParks

Holders == {r \in Rpcs : task[r] \in HoldsPermit}

(***************************************************************************)
(* max_concurrent_rpcs bounds the RPCs past acquire(): every permit is     *)
(* either free or held by exactly one task, whatever way the task ended    *)
(* (answer, denial, deadline, shutdown, panic, dead stream), and nobody    *)
(* queues while a permit is free.  (server.rs:110, 490-503)                *)
(***************************************************************************)
PermitAccounting ==
    /\ permits + Cardinality(Holders) = MaxRpcs
    /\ permits > 0 => permitQueue = <<>>

(***************************************************************************)
(* What handle_request writes is a gRPC response on every path: headers    *)
(* first, then messages, and one terminal (trailers or reset) which is     *)
(* last; the terminal is there exactly when the task is over, unless the   *)
(* stream died under it.  (server.rs:604-635, 684-732)                     *)
(***************************************************************************)
ResponseWellFormed ==
    \A r \in Rpcs :
        LET n == Len(frames[r]) IN
        /\ \A i \in 1..n : frames[r][i] \in Terminals => i = n
        /\ \A i \in 1..n : frames[r][i] = "headers" <=> i = 1 /\ frames[r][i] # "reset"
        /\ n > 0 /\ frames[r][n] \in Terminals => task[r] = "done"
        /\ task[r] = "done" /\ ~dead[r] => n > 0 /\ frames[r][n] \in Terminals

(***************************************************************************)
(* The sinks never report a failure the peer sees as success, and an error *)
(* they report is the one on the wire.  (The converse does happen: a       *)
(* missing request message and an Err item of a response stream are errors *)
(* on the wire and Ok in the sinks.)                                       *)
(***************************************************************************)
ReportedErrorIsSent ==
    \A r \in Rpcs : \A i \in DOMAIN frames[r] :
        frames[r][i] \in Codes /\ recorded[r] # frames[r][i] => recorded[r] = "Ok"

(***************************************************************************)
(* Whoever the policy denies learns nothing: no handler runs, no message   *)
(* is sent, and the status says only that; for a method the server does    *)
(* not have too, so that a denied peer cannot tell which methods exist.    *)
(* (server.rs:586-637)                                                     *)
(***************************************************************************)
DeniedNeverServed ==
    \A r \in Rpcs : req[r] # None /\ req[r].req.denied =>
        /\ task[r] \notin InSelect \cup {"streaming"}
        /\ \A i \in DOMAIN frames[r] :
             frames[r][i] \in {"headers", "Unauthenticated", "PermissionDenied"}
        /\ recorded[r] \in {None, "Unauthenticated", "PermissionDenied"}

(***************************************************************************)
(* Once handle_request reaches its select! the outcome is recorded when    *)
(* the call leaves it, never before and never again: a status does not     *)
(* change, and a call still in the select! has none.                       *)
(***************************************************************************)
RecordedOnce ==
    /\ [][\A r \in Rpcs : recorded[r] # None => recorded'[r] = recorded[r]]_vars
    /\ [](\A r \in Rpcs : recorded[r] # None <=> task[r] \in {"streaming", "done"})

-----------------------------------------------------------------------------
\* Liveness.

(***************************************************************************)
(* serve() returns when shutdown() finds the accept loop parked, and by    *)
(* then or later every connection task is over, stuck handshakes included  *)
(* (the drain timeout).  (server.rs:373-414)                               *)
(***************************************************************************)
ParkedListenerReturns ==
    \A k \in Stops :
        (waiter[Listener] = "parked" /\ canceller[k] = "stored")
            ~> (listener = "returned" /\ \A c \in Conns : conn[c] \notin {"handshake", "serving"})

(***************************************************************************)
(* When every request carries a deadline and no response is streamed, an   *)
(* accepted RPC ends, however long its queue, its peer and its handler     *)
(* take: timeout enforcement frees the permits.  (server.rs:491, 653-670)  *)
(***************************************************************************)
BoundedCallsEnd == \A r \in Rpcs : (task[r] = "spawned") ~> (task[r] = "done")

-----------------------------------------------------------------------------
\* What the documentation says and the code does not do.

(***************************************************************************)
(* "Begin graceful shutdown: stop accepting new connections and drain      *)
(* in-flight RPCs." (server.rs:332-333): a connection stopped by shutdown  *)
(* has answered every RPC it accepted, and the peer has the answer.        *)
(***************************************************************************)
DrainedBeforeClose ==
    [][\A c \in Conns : conn[c] # "stopped" /\ conn'[c] = "stopped" =>
         \A r \in Rpcs : OnConn(r, c) =>
             dead[r] \/ (task[r] = "done" /\ flushed[r] = Len(frames[r]))]_vars

(***************************************************************************)
(* "cancelled streams release resources promptly" (docs/grpc.md:114).      *)
(***************************************************************************)
CancelledStreamsRelease ==
    \A r \in Rpcs : (dead[r] /\ task[r] \in HoldsPermit) ~> (task[r] \notin HoldsPermit)

(***************************************************************************)
(* "Both client- and server-side expiry are handled." (docs/grpc.md:70),   *)
(* "timeout enforcement" (docs/grpc.md:123): an RPC with a deadline ends.  *)
(***************************************************************************)
DeadlineEndsCall ==
    \A r \in Rpcs :
        (task[r] \in HoldsPermit /\ req[r].req.deadline) ~> (task[r] \notin HoldsPermit)
=============================================================================
