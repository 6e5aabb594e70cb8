------------------------------- MODULE OneShot -------------------------------
(***************************************************************************)
(* Both implementations of the Transport trait, side by side: the client   *)
(* of module GrpcClient, and H2Transport of transport_http2.rs, which      *)
(* opens a connection per call, takes the response in whole, and cuts it   *)
(* into frames afterwards.                                                 *)
(***************************************************************************)
EXTENDS GrpcClient, FiniteSetsExt, Functions

CONSTANT HeaderLen  \* bytes of a frame header, 5

Bytes(msgs) == FoldFunction(LAMBDA n, sum : HeaderLen + n + sum, 0, msgs)

\* The message is framed and the endpoint parsed before anything is sent.
Prepare(c) ==
    /\ pc[c] = "lookup" /\ Via(c, "one_shot")
    /\ \/ Goto(c, "dial") /\ UNCHANGED <<failures, stream, frames, result>>
       \/ Fail(c, "INTERNAL")
    /\ UNCHANGED <<call, others, cached, conns, on, ep, lastErr, writer>>

\* exchange(), up to the request: connecting and shaking hands take as long
\* as they take.
DialOnce(c) ==
    /\ pc[c] = "dial" /\ Via(c, "one_shot")
    /\ \/ /\ conns' = Append(conns, "up")
          /\ on' = [on EXCEPT ![c] = Len(conns) + 1]
          /\ Goto(c, "open")
          /\ UNCHANGED <<failures, stream, frames, result>>
       \/ Fail(c, "UNAVAILABLE") /\ UNCHANGED <<conns, on>>
    /\ UNCHANGED <<call, others, cached, ep, lastErr, writer>>

\* The request driver.  It returns at the first error, and the request stays
\* open; nobody asks it how it went.
DriverSteps(c) ==
    /\ writer[c] = "on" /\ Via(c, "one_shot")
    /\ LET s == now(c) IN
       \/ /\ s.sent < MaxRequests
          /\ IF Broken(c) THEN Feed(c, s, "failed")
             ELSE Feed(c, [s EXCEPT !.sent = @ + 1], "on")
       \/ Feed(c, IF Broken(c) THEN s
                  ELSE [s EXCEPT !.ended = TRUE, !.whole = TRUE], "done")
       \/ Feed(c, s, "failed")

TakeHeadOnce(c) ==
    /\ pc[c] = "response" /\ Via(c, "one_shot") /\ now(c).head
    /\ SetNow(c, [now(c) EXCEPT !.seen = TRUE])
    /\ Goto(c, "collect")
    /\ UNCHANGED <<call, others, cached, conns, on, ep, failures, lastErr, writer, frames, result>>

\* collect_body() and the trailers: the limit is on all bytes together.
CollectFails(c) ==
    /\ pc[c] = "collect"
    /\ \/ Bytes(now(c).msgs) > MaxMessageSize /\ Fail(c, "RESOURCE_EXHAUSTED")
       \/ Broken(c) /\ Fail(c, "INTERNAL")
    /\ UNCHANGED <<call, others, cached, conns, on, ep, lastErr, writer>>

(***************************************************************************)
(* split_grpc_frames().  `total` is the length of a frame and is used as   *)
(* its end, so the loop is right for the first frame only.  The second one *)
(* is cut from the end of the first to its own length: an empty piece      *)
(* again and again if they are equally long, an index panic if it is       *)
(* shorter, and a wrong piece if it is longer, with the next header read   *)
(* from the middle of a frame.                                             *)
(***************************************************************************)
SplitFrames(msgs) ==
    IF Len(msgs) <= 1 THEN {[end |-> "whole", frames |-> msgs]}
    ELSE CASE msgs[2] < msgs[1] -> {[end |-> "panic", frames |-> <<>>]}
           [] msgs[2] = msgs[1] -> {[end |-> "spins", frames |-> <<>>]}
           [] msgs[2] > msgs[1] ->
                  [end : {"panic", "spins", "error"}, frames : {<<>>}]
                     \cup {[end |-> "garbled", frames |-> <<msgs[1]>>]}

Told(c, code) ==
    /\ result' = [result EXCEPT ![c] = code]
    /\ Goto(c, "done")

\* What the shapes make of the body.  Streaming calls do not look at the
\* status of the trailers; the others do, and then take the first frame.
Deliver(c) ==
    /\ pc[c] = "collect" /\ now(c).fin # None
    /\ Bytes(now(c).msgs) <= MaxMessageSize
    /\ IF SingleResponse(c) /\ now(c).fin \in Errors
       THEN Told(c, now(c).fin) /\ UNCHANGED frames
       ELSE \E split \in SplitFrames(now(c).msgs) :
              \/ split.end = "panic" /\ Told(c, "PANIC") /\ UNCHANGED frames
              \/ split.end = "spins" /\ Goto(c, "spinning") /\ UNCHANGED <<result, frames>>
              \/ split.end = "error" /\ Told(c, "INTERNAL") /\ UNCHANGED frames
              \/ /\ split.end \in {"whole", "garbled"}
                 /\ IF SingleResponse(c) /\ split.frames = <<>>
                    THEN Told(c, "INTERNAL") /\ UNCHANGED frames
                    ELSE /\ frames' = [frames EXCEPT ![c] = split.frames]
                         /\ Told(c, IF SingleResponse(c) THEN "REPLY" ELSE "STREAM")
    /\ SetNow(c, Released(c))
    /\ UNCHANGED <<call, others, cached, conns, on, ep, failures, lastErr, writer>>

OneShotStep(c) == Prepare(c) \/ TakeHeadOnce(c) \/ CollectFails(c) \/ Deliver(c)

\* Steps that others decide on: the peer of a connection that is being made.
Connected(c) == Handshake(c) \/ DialOnce(c)

Init == InitWith([shape : Shapes, via : {"client", "one_shot"}])

Next == \/ \E c \in Calls : Begin(c) \/ ClientStep(c) \/ WriterStep(c)
        \/ \E c \in Calls : OneShotStep(c) \/ DriverSteps(c) \/ Connected(c)
        \/ AnotherCaller
        \/ Peer

Spec == Init /\ [][Next]_vars

\* The runtime polls what is ready.  Nothing is asked of peers, connections
\* in the making included, of request streams, or of whoever makes the calls.
Fairness == \A c \in Calls : /\ WF_vars(ClientStep(c))
                             /\ WF_vars(OneShotStep(c))
FairSpec == Spec /\ Fairness

(***************************************************************************)
(* Properties.                                                             *)
(***************************************************************************)
ran(c) == {a \in Attempts : stream[c][a].ran}

\* Both transports keep what CallPromise says of a call: an outcome is told
\* once and stays, a reply comes from a run, and the server runs a call at
\* most once per attempt: once by the one-shot transport and for streams,
\* 1 + max_retries times for unary calls (client.rs:408, unary()).
Promise == INSTANCE CallPromise WITH
    limit <- [c \in Calls |-> IF call[c] = [shape |-> "unary", via |-> "client"]
                              THEN MaxRetries + 1 ELSE 1],
    Errors <- Errors \cup {"PANIC"},
    outcome <- [c \in Calls |-> IF result[c] = None THEN "PENDING" ELSE result[c]],
    runs <- [c \in Calls |-> Cardinality(ran(c))]
KeepsPromise == Promise!Spec

\* A retry never repeats what the client knows to be settled: once the head
\* of an attempt's response was seen, another attempt is opened only if the
\* server's status or the size of its reply was retryable; a connection lost
\* behind the head fails the call instead (client.rs:423).
SettledIsNotRepeated ==
    \A c \in Calls : \A a \in Attempts \ {0} :
        stream[c][a].state # "none" /\ stream[c][a - 1].seen =>
            \/ stream[c][a - 1].fin \in Retryable
            \/ /\ "RESOURCE_EXHAUSTED" \in Retryable
               /\ \E i \in DOMAIN stream[c][a - 1].msgs :
                    stream[c][a - 1].msgs[i] > MaxMessageSize

\* A request stream that failed is not presented to the server as a whole
\* one, except by bidi_streaming() of the client; and client_streaming()
\* reports a failed request whatever the server answered (client.rs:576).
CutRequestsShow ==
    \A c \in Calls :
        /\ \A a \in Attempts : stream[c][a].ended =>
              stream[c][a].whole \/ call[c] = [shape |-> "bidi_streaming", via |-> "client"]
        /\ call[c] = [shape |-> "client_streaming", via |-> "client"] /\ writer[c] = "failed"
              => result[c] # "REPLY"

\* A reply is the last message of a response that was read to its end, and
\* that the server finished with OK or, which the client takes for OK, without
\* trailers (client.rs:359-372); neither an error status nor a loss on the
\* way becomes a reply (client.rs:393, read_unary()).
RepliesAreFinal ==
    \A c \in Calls : result[c] = "REPLY" =>
        /\ now(c).ran /\ now(c).seen /\ now(c).fin \in {"OK", "BARE"}
        /\ frames[c] # <<>>
        /\ Via(c, "client") => frames[c] = now(c).msgs

\* A call that has begun gets its outcome, but for calls that wait for others
\* and go on waiting: for a connection to be made, for the peer on a healthy
\* stream, for the caller's own request stream (client.rs:214, 254-269).
WaitsForOthers(c) ==
    \/ pc[c] = "handshake" \/ (pc[c] = "dial" /\ Via(c, "one_shot"))
    \/ pc[c] = "response" /\ ~Broken(c) /\ ~now(c).head /\ writer[c] # "failed"
    \/ pc[c] = "join" /\ writer[c] = "on"
    \/ pc[c] = "body" /\ ~Broken(c) /\ now(c).fin = None /\ ~unread(c)
    \/ pc[c] = "collect" /\ ~Broken(c) /\ now(c).fin = None

\* Two ways in which a call hangs by itself.  When its request stream fails
\* the request is left open, so the peer waits for more of it, while the call
\* waits for the head (client.rs:576-581); split_grpc_frames() may spin.
HangsItself(c) ==
    \/ pc[c] = "response" /\ ~Broken(c) /\ ~now(c).head /\ writer[c] = "failed"
    \/ pc[c] = "spinning"

CallsEnd ==
    \A c \in Calls :
        <>[](pc[c] = "idle" \/ result[c] # None \/ WaitsForOthers(c) \/ HangsItself(c))

\* "issue real unary and streaming calls" (transport_http2.rs:4-5): a stream
\* H2Transport returned holds what the server sent.
StreamsArriveWhole ==
    \A c \in Calls :
        Via(c, "one_shot") /\ result[c] = "STREAM" /\ now(c).fin = "OK"
            => frames[c] = now(c).msgs
=============================================================================
