------------------------------ MODULE GrpcClient ------------------------------
(***************************************************************************)
(* The client of crates/tpt-proto-grpc/src/client.rs: the cached           *)
(* connection, the retries of unary calls, and the four call shapes.       *)
(* Module OneShot adds the other transport.                                *)
(*                                                                         *)
(* External: h2 and the peer.  A stream has a request half (messages sent, *)
(* ended or not) and a response half (a head, messages, trailers).  The    *)
(* peer runs a request when it is there, answers with or without trailers, *)
(* resets, or refuses with a head that ends the stream; the connection may *)
(* break.  What was received before that may or may not be read.           *)
(***************************************************************************)
EXTENDS Naturals, Sequences, FiniteSets

CONSTANTS Calls,
          Endpoints,       \* how many endpoints the load balancer names
          MaxRetries,      \* RetryPolicy::max_retries
          Retryable,       \* RetryPolicy::retryable
          Sizes,           \* of response messages
          MaxMessageSize,  \* Endpoint::max_message_size
          MaxResponses,    \* bound: messages of one response
          MaxRequests,     \* bound: messages of one streamed request
          MaxOthers        \* bound: connections made by other callers

Shapes == {"unary", "server_streaming", "client_streaming", "bidi_streaming"}
\* UNAVAILABLE and the like are the client's own; NOT_FOUND stands for a
\* status of the server, ABORTED for one of the caller's request stream.
Errors == {"UNAVAILABLE", "DEADLINE_EXCEEDED", "INTERNAL", "RESOURCE_EXHAUSTED",
           "NOT_FOUND", "ABORTED"}
None == "NONE"

ASSUME ClientAssumption ==
    /\ Endpoints \in Nat /\ MaxRetries \in Nat /\ MaxMessageSize \in Nat
    /\ MaxResponses \in Nat /\ MaxRequests \in Nat /\ MaxOthers \in Nat
    /\ Sizes \subseteq Nat /\ Retryable \subseteq Errors

VARIABLES call,      \* of each call, its shape and its transport
          pc,        \* where it is
          cached,    \* Client::conn, 0 if there is none
          conns,     \* every connection made so far: "up" or "down"
          on,        \* the connection a call uses
          ep,        \* the endpoint it tries next
          failures,  \* the statuses its attempts ended with; their number is
                     \* `attempt`
          lastErr,   \* last_err of the endpoint loop
          stream,    \* the h2 stream of each of its attempts
          writer,    \* the task that feeds its request stream
          frames,    \* the messages it has read from the response
          result,    \* what it told its caller
          others     \* connections made by other callers of this client

vars == <<call, pc, cached, conns, on, ep, failures, lastErr, stream, writer,
          frames, result, others>>

Attempts == 0..MaxRetries
attempt(c) == Len(failures[c])
\* The messages of one response: several only where they can be told apart.
Streams == [state : {"none", "open", "reset"},
            ended : BOOLEAN,    \* the request was ended by END_STREAM
            whole : BOOLEAN,    \* everything the caller gave was sent
            sent : 0..(MaxRequests + 1),
            ran : BOOLEAN,      \* the server ran it
            head : BOOLEAN,     \* the peer sent the response head
            seen : BOOLEAN,     \* the client saw it
            msgs : Seq(Sizes),
            fin : {None, "OK", "BARE"} \cup Errors]  \* trailers; BARE if none
NoStream == [state |-> "none", ended |-> FALSE, whole |-> FALSE, sent |-> 0,
             ran |-> FALSE, head |-> FALSE, seen |-> FALSE, msgs |-> <<>>,
             fin |-> None]

SingleRequest(c) == call[c].shape \in {"unary", "server_streaming"}
SingleResponse(c) == call[c].shape \in {"unary", "client_streaming"}
Via(c, t) == call[c].via = t
now(c) == stream[c][attempt(c)]
Up(c) == on[c] \in DOMAIN conns /\ conns[on[c]] = "up"
Broken(c) == now(c).state # "open" \/ ~Up(c)

TypeOK ==
    /\ call \in [Calls -> [shape : Shapes, via : {"client", "one_shot"}]]
    /\ pc \in [Calls -> {"idle", "lookup", "dial", "handshake", "open", "sending",
                         "response", "join", "body", "streaming", "collect",
                         "backoff", "spinning", "done"}]
    /\ cached \in 0..Len(conns)
    /\ conns \in Seq({"up", "down"})
    /\ on \in [Calls -> 0..Len(conns)]
    /\ ep \in [Calls -> 1..(Endpoints + 1)]
    /\ failures \in [Calls -> Seq(Errors)]
    /\ \A c \in Calls : attempt(c) \in Attempts
    /\ lastErr \in [Calls -> Errors]
    /\ stream \in [Calls -> [Attempts -> Streams]]
    /\ writer \in [Calls -> {"off", "on", "failed", "done"}]
    /\ frames \in [Calls -> Seq(Sizes)]
    /\ others \in 0..MaxOthers
    /\ result \in [Calls -> {None, "REPLY", "STREAM", "PANIC"} \cup Errors]

InitWith(kinds) ==
    /\ call \in [Calls -> kinds]
    /\ pc = [c \in Calls |-> "idle"]
    /\ cached = 0
    /\ conns = <<>>
    /\ on = [c \in Calls |-> 0]
    /\ ep = [c \in Calls |-> 1]
    /\ failures = [c \in Calls |-> <<>>]
    /\ lastErr = [c \in Calls |-> "UNAVAILABLE"]
    /\ stream = [c \in Calls |-> [a \in Attempts |-> NoStream]]
    /\ writer = [c \in Calls |-> "off"]
    /\ frames = [c \in Calls |-> <<>>]
    /\ result = [c \in Calls |-> None]
    /\ others = 0

Goto(c, label) == pc' = [pc EXCEPT ![c] = label]
SetNow(c, s) == stream' = [stream EXCEPT ![c][attempt(c)] = s]

(***************************************************************************)
(* How an attempt ends.                                                    *)
(***************************************************************************)
\* The handles of the stream are dropped, and h2 resets a stream without
\* handles; the writer task has a handle of its own.
Released(c) ==
    IF now(c).state = "open" /\ now(c).fin = None /\ writer[c] # "on"
    THEN [now(c) EXCEPT !.state = "reset"] ELSE now(c)

\* Faulty variant: the count of attempts is not advanced.
FailForgetful(c, code) ==
    /\ SetNow(c, Released(c))
    /\ IF call[c].shape = "unary" /\ Via(c, "client") /\ code \in Retryable
       THEN Goto(c, "backoff") /\ UNCHANGED <<failures, frames, result>>
       ELSE /\ result' = [result EXCEPT ![c] = code]
            /\ Goto(c, "done")
            /\ UNCHANGED <<failures, frames>>

\* Faulty variant: every shape of call goes around again.
FailAnyShape(c, code) ==
    /\ SetNow(c, Released(c))
    /\ IF Via(c, "client") /\ attempt(c) < MaxRetries /\ code \in Retryable
       THEN /\ failures' = [failures EXCEPT ![c] = Append(@, code)]
            /\ frames' = [frames EXCEPT ![c] = <<>>]
            /\ Goto(c, "backoff")
            /\ UNCHANGED result
       ELSE /\ result' = [result EXCEPT ![c] = code]
            /\ Goto(c, "done")
            /\ UNCHANGED <<failures, frames>>

\* Faulty variant: one attempt too many.
FailOffByOne(c, code) ==
    /\ SetNow(c, Released(c))
    /\ IF /\ call[c].shape = "unary" /\ Via(c, "client")
          /\ attempt(c) <= MaxRetries /\ code \in Retryable
       THEN /\ failures' = [failures EXCEPT ![c] = Append(@, code)]
            /\ frames' = [frames EXCEPT ![c] = <<>>]
            /\ Goto(c, "backoff")
            /\ UNCHANGED result
       ELSE /\ result' = [result EXCEPT ![c] = code]
            /\ Goto(c, "done")
            /\ UNCHANGED <<failures, frames>>

\* unary() goes around again; everything else returns its error.
Fail(c, code) ==
    /\ SetNow(c, Released(c))
    /\ IF /\ call[c].shape = "unary" /\ Via(c, "client")
          /\ attempt(c) < MaxRetries
          /\ code \in Retryable
       THEN /\ failures' = [failures EXCEPT ![c] = Append(@, code)]
            /\ frames' = [frames EXCEPT ![c] = <<>>]
            /\ Goto(c, "backoff")
            /\ UNCHANGED result
       ELSE /\ result' = [result EXCEPT ![c] = code]
            /\ Goto(c, "done")
            /\ UNCHANGED <<failures, frames>>

Succeed(c) ==
    /\ result' = [result EXCEPT ![c] = "REPLY"]
    /\ SetNow(c, Released(c))
    /\ Goto(c, "done")
    /\ UNCHANGED failures

(***************************************************************************)
(* Client: the cached connection.                                          *)
(***************************************************************************)
Begin(c) ==
    /\ pc[c] = "idle"
    /\ Goto(c, "lookup")
    /\ UNCHANGED <<call, others, cached, conns, on, ep, failures, lastErr, stream,
                   writer, frames, result>>

\* connection(), first half: the cache is read under its lock, and the lock
\* is released before anything else happens.
LookUp(c) ==
    /\ pc[c] = "lookup" /\ Via(c, "client")
    /\ IF cached # 0
       THEN /\ on' = [on EXCEPT ![c] = cached]
            /\ Goto(c, "open")
            /\ UNCHANGED <<ep, lastErr>>
       ELSE Goto(c, "dial") /\ UNCHANGED on
    /\ UNCHANGED <<call, others, cached, conns, ep, failures, lastErr, stream, writer,
                   frames, result>>

\* connection(), second half: one endpoint after another.
NextEndpoint(c, code) ==
    /\ lastErr' = [lastErr EXCEPT ![c] = code]
    /\ ep' = [ep EXCEPT ![c] = @ + 1]
    /\ Goto(c, "dial")

\* connect(): the TCP connection is made, refused, or given up at the timeout.
Dial(c) ==
    /\ pc[c] = "dial" /\ Via(c, "client") /\ ep[c] <= Endpoints
    /\ \/ Goto(c, "handshake") /\ UNCHANGED <<ep, lastErr>>
       \/ \E code \in {"UNAVAILABLE", "DEADLINE_EXCEEDED"} : NextEndpoint(c, code)
    /\ UNCHANGED <<call, others, cached, conns, on, failures, stream, writer, frames, result>>

\* connect(), behind the timeout: the acceptor (TLS) and the h2 handshake are
\* awaited for as long as they take.  Whoever connects overwrites the cache.
Handshake(c) ==
    /\ pc[c] = "handshake" /\ ep[c] <= Endpoints
    /\ \/ /\ conns' = Append(conns, "up")
          /\ cached' = Len(conns) + 1
          /\ on' = [on EXCEPT ![c] = Len(conns) + 1]
          /\ ep' = [ep EXCEPT ![c] = 1]
          /\ lastErr' = [lastErr EXCEPT ![c] = "UNAVAILABLE"]
          /\ Goto(c, "open")
       \/ NextEndpoint(c, "UNAVAILABLE") /\ UNCHANGED <<conns, cached, on>>
    /\ UNCHANGED <<call, others, failures, stream, writer, frames, result>>

NoEndpointLeft(c) ==
    /\ pc[c] = "dial" /\ Via(c, "client") /\ ep[c] > Endpoints
    /\ Fail(c, lastErr[c])
    /\ ep' = [ep EXCEPT ![c] = 1]
    /\ lastErr' = [lastErr EXCEPT ![c] = "UNAVAILABLE"]
    /\ UNCHANGED <<call, others, cached, conns, on, writer>>

(***************************************************************************)
(* Client: one attempt.                                                    *)
(***************************************************************************)
Opened == [NoStream EXCEPT !.state = "open"]
Sent(s) == [s EXCEPT !.ended = TRUE, !.whole = TRUE, !.sent = 1]

\* send_request_headers(): the connection may be gone, or a header be unfit
\* for HTTP.  A streamed request gets the task that feeds it.
SendRequest(c) ==
    /\ pc[c] = "open"
    /\ \/ /\ Up(c)
          /\ SetNow(c, Opened)
          /\ writer' = [writer EXCEPT ![c] = IF SingleRequest(c) THEN "off" ELSE "on"]
          /\ Goto(c, IF SingleRequest(c) THEN "sending" ELSE "response")
          /\ UNCHANGED <<failures, frames, result>>
       \/ ~Up(c) /\ Fail(c, "UNAVAILABLE") /\ UNCHANGED writer
       \/ Fail(c, "INTERNAL") /\ UNCHANGED writer
    /\ UNCHANGED <<call, others, cached, conns, on, ep, lastErr>>

\* The message of a single request, and the end of the stream with it.  The
\* client frames it only now that its headers are on their way: if it is too
\* large, or the stream is reset already, the stream is left without it.
SendMessage(c) ==
    /\ pc[c] = "sending"
    /\ \/ /\ SetNow(c, IF Broken(c) THEN now(c) ELSE Sent(now(c)))
          /\ Goto(c, "response")
          /\ UNCHANGED <<failures, frames, result>>
       \/ (Via(c, "client") \/ Broken(c)) /\ Fail(c, "INTERNAL")
    /\ UNCHANGED <<call, others, cached, conns, on, ep, lastErr, writer>>

\* The response head: a call with one response goes on to read it, or waits
\* for its writer first; the others return the stream to the caller.
TakeHead(c) ==
    /\ pc[c] = "response" /\ Via(c, "client") /\ now(c).head
    /\ SetNow(c, [now(c) EXCEPT !.seen = TRUE])
    /\ Goto(c, CASE call[c].shape = "unary" -> "body"
                 [] call[c].shape = "client_streaming" -> "join"
                 [] OTHER -> "streaming")
    /\ result' = [result EXCEPT ![c] = IF SingleResponse(c) THEN None ELSE "STREAM"]
    /\ UNCHANGED <<call, others, cached, conns, on, ep, failures, lastErr, writer, frames>>

LoseHead(c) ==
    /\ pc[c] = "response" /\ Broken(c)
    /\ Fail(c, "UNAVAILABLE")
    /\ UNCHANGED <<call, others, cached, conns, on, ep, lastErr, writer>>

\* write_task.await: an error of the writer, the caller's or its own, is the
\* outcome, whatever the server answered.
JoinWriter(c) ==
    /\ pc[c] = "join" /\ writer[c] \in {"failed", "done"}
    /\ IF writer[c] = "failed"
       THEN \E code \in {"ABORTED", "INTERNAL"} : Fail(c, code)
       ELSE Goto(c, "body") /\ UNCHANGED <<failures, stream, frames, result>>
    /\ UNCHANGED <<call, others, cached, conns, on, ep, lastErr, writer>>

\* GrpcResponseBody: messages in order, then the trailers.  An error ends a
\* call with one response; a caller who holds the stream stops at it.
ReadError(c, code) ==
    IF pc[c] = "streaming"
    THEN /\ Goto(c, "done")
         /\ SetNow(c, Released(c))
         /\ UNCHANGED <<failures, frames, result>>
    ELSE Fail(c, code)

unread(c) == Len(frames[c]) < Len(now(c).msgs)
Reading(c) == pc[c] \in {"body", "streaming"} /\ Via(c, "client")

ReadMessage(c) ==
    /\ Reading(c) /\ unread(c)
    /\ LET size == now(c).msgs[Len(frames[c]) + 1] IN
       IF size > MaxMessageSize
       THEN ReadError(c, "RESOURCE_EXHAUSTED")
       ELSE /\ frames' = [frames EXCEPT ![c] = Append(@, size)]
            /\ UNCHANGED <<pc, failures, stream, result>>
    /\ UNCHANGED <<call, others, cached, conns, on, ep, lastErr, writer>>

\* Faulty variant: a lost body counts as an unavailable server.
ReadBrokenUnavailable(c) ==
    /\ Reading(c) /\ Broken(c)
    /\ ReadError(c, "UNAVAILABLE")
    /\ UNCHANGED <<call, others, cached, conns, on, ep, lastErr, writer>>

ReadBroken(c) ==
    /\ Reading(c) /\ Broken(c)
    /\ ReadError(c, "INTERNAL")
    /\ UNCHANGED <<call, others, cached, conns, on, ep, lastErr, writer>>

\* Faulty variant: the trailers are not looked at.
ReadEndBlind(c) ==
    /\ Reading(c) /\ ~unread(c) /\ now(c).fin # None
    /\ IF pc[c] = "streaming" THEN ReadError(c, None)
       ELSE Succeed(c) /\ UNCHANGED frames
    /\ UNCHANGED <<call, others, cached, conns, on, ep, lastErr, writer>>

\* The end: the status of the trailers, and OK where there are none.
\* read_unary() keeps the last message, and needs one.
ReadEnd(c) ==
    /\ Reading(c) /\ ~unread(c) /\ now(c).fin # None
    /\ CASE now(c).fin \in Errors -> ReadError(c, now(c).fin)
         [] pc[c] = "streaming" -> ReadError(c, None)
         [] now(c).fin \notin Errors /\ pc[c] = "body" /\ frames[c] = <<>> ->
                Fail(c, "INTERNAL")
         [] OTHER -> Succeed(c) /\ UNCHANGED frames
    /\ UNCHANGED <<call, others, cached, conns, on, ep, lastErr, writer>>

BackedOff(c) ==
    /\ pc[c] = "backoff"
    /\ Goto(c, "lookup")
    /\ UNCHANGED <<call, others, cached, conns, on, ep, failures, lastErr, stream,
                   writer, frames, result>>

(***************************************************************************)
(* The task that feeds a streamed request.  An item of the caller's stream *)
(* is an error, or too large to be framed: client_streaming leaves the     *)
(* request open, bidi_streaming ends it as if it were whole.               *)
(***************************************************************************)
Feed(c, s, w) ==
    /\ SetNow(c, s)
    /\ writer' = [writer EXCEPT ![c] = w]
    /\ UNCHANGED <<call, others, pc, cached, conns, on, ep, failures, lastErr, frames, result>>

Writing(c) == writer[c] = "on" /\ Via(c, "client")

WriterSends(c) ==
    /\ Writing(c) /\ now(c).sent < MaxRequests
    /\ IF ~Broken(c) THEN Feed(c, [now(c) EXCEPT !.sent = @ + 1], "on")
       ELSE Feed(c, now(c), IF call[c].shape = "client_streaming" THEN "failed" ELSE "done")

SourceEnds(c) ==
    /\ Writing(c)
    /\ Feed(c, IF Broken(c) THEN now(c)
               ELSE [now(c) EXCEPT !.ended = TRUE, !.whole = TRUE], "done")

\* Faulty variant: the stream is ended whatever last_err says.
SourceFailsEnding(c) ==
    /\ Writing(c)
    /\ Feed(c, IF Broken(c) THEN now(c) ELSE [now(c) EXCEPT !.ended = TRUE],
            IF call[c].shape = "client_streaming" THEN "failed" ELSE "done")

SourceFails(c) ==
    /\ Writing(c)
    /\ IF call[c].shape = "client_streaming"
       THEN Feed(c, now(c), "failed")
       ELSE Feed(c, IF Broken(c) THEN now(c) ELSE [now(c) EXCEPT !.ended = TRUE], "done")

(***************************************************************************)
(* The peer and the network.  What a peer sends on a stream nobody reads   *)
(* any more, and the loss of a connection nobody uses, change nothing.     *)
(***************************************************************************)
Answer(c, a, s) ==
    /\ stream' = [stream EXCEPT ![c][a] = s]
    /\ UNCHANGED <<call, others, pc, cached, conns, on, ep, failures, lastErr, writer,
                   frames, result>>

\* A single request is run once it has arrived, a streamed one at any time; a
\* reset on its way does not stop the server.
PeerRuns(c, a) ==
    LET s == stream[c][a] IN
    /\ s.state # "none" /\ ~s.ran /\ s.fin = None
    /\ SingleRequest(c) => s.ended
    /\ Answer(c, a, [s EXCEPT !.ran = TRUE])

PeerAnswers(c) ==
    LET s == now(c) IN
    /\ pc[c] # "done" /\ ~Broken(c) /\ s.fin = None
    /\ \/ ~s.head /\ Answer(c, attempt(c), [s EXCEPT !.head = TRUE])
       \/ /\ s.head /\ s.ran /\ Len(s.msgs) < MaxResponses
          /\ \E n \in Sizes : Answer(c, attempt(c), [s EXCEPT !.msgs = Append(@, n)])
       \/ s.head /\ s.ran /\ Answer(c, attempt(c), [s EXCEPT !.fin = "OK"])
       \/ /\ s.head
          /\ \E code \in {"NOT_FOUND", "UNAVAILABLE"} :
                Answer(c, attempt(c), [s EXCEPT !.fin = code])
       \/ Answer(c, attempt(c), [s EXCEPT !.head = TRUE, !.fin = "BARE"])

PeerResets(c) ==
    /\ now(c).state = "open" /\ Up(c)
    /\ pc[c] # "done" \/ writer[c] = "on"
    /\ Answer(c, attempt(c), [now(c) EXCEPT !.state = "reset"])

LoseConn(k) ==
    /\ conns[k] = "up"
    /\ cached = k \/ \E c \in Calls : on[c] = k /\ pc[c] # "done"
    /\ \E c \in Calls : pc[c] # "done"
    /\ conns' = [conns EXCEPT ![k] = "down"]
    /\ UNCHANGED <<call, others, pc, cached, on, ep, failures, lastErr, stream, writer,
                   frames, result>>

\* connection() of a caller that saw the cache empty, maybe long ago.
AnotherCaller ==
    /\ others < MaxOthers
    /\ others' = others + 1
    /\ conns' = Append(conns, "up")
    /\ cached' = Len(conns) + 1
    /\ \E c \in Calls : pc[c] # "done"
    /\ UNCHANGED <<call, pc, on, ep, failures, lastErr, stream, writer, frames, result>>

Peer == \/ \E c \in Calls : PeerAnswers(c) \/ PeerResets(c)
        \/ \E c \in Calls, a \in Attempts : PeerRuns(c, a)
        \/ \E k \in DOMAIN conns : LoseConn(k)

ClientStep(c) ==
    \/ LookUp(c) \/ Dial(c) \/ NoEndpointLeft(c)
    \/ SendRequest(c) \/ SendMessage(c)
    \/ TakeHead(c) \/ LoseHead(c) \/ JoinWriter(c)
    \/ ReadMessage(c) \/ ReadBroken(c) \/ ReadEnd(c) \/ BackedOff(c)
WriterStep(c) == WriterSends(c) \/ SourceEnds(c) \/ SourceFails(c)
=============================================================================
