---------------------------- MODULE OneShotProofs ----------------------------
(***************************************************************************)
(* Proofs about the calls of a client, over either transport: any number   *)
(* of calls, endpoints, retries, messages and connections.                 *)
(***************************************************************************)
EXTENDS OneShot, FiniteSetTheorems, SequenceTheorems, TLAPS

USE ClientAssumption

-----------------------------------------------------------------------------
\* Types.

Steps == {"idle", "lookup", "dial", "handshake", "open", "sending", "response", "join",
          "body", "streaming", "collect", "backoff", "spinning", "done"}
Results == {None, "REPLY", "STREAM", "PANIC"} \cup Errors

\* The variables that belong to one call each.
CallTypes ==
    /\ pc \in [Calls -> Steps]
    /\ failures \in [Calls -> Seq(Errors)]
    /\ \A c \in Calls : attempt(c) \in Attempts
    /\ stream \in [Calls -> [Attempts -> Streams]]
    /\ writer \in [Calls -> {"off", "on", "failed", "done"}]
    /\ frames \in [Calls -> Seq(Sizes)]
    /\ result \in [Calls -> Results]

\* The variables that say how a call is connected.
LinkTypes ==
    /\ cached \in 0..Len(conns)
    /\ conns \in Seq({"up", "down"})
    /\ on \in [Calls -> 0..Len(conns)]
    /\ ep \in [Calls -> 1..(Endpoints + 1)]
    /\ lastErr \in [Calls -> Errors]
    /\ others \in 0..MaxOthers

LEMMA TypeParts ==
    TypeOK <=> /\ call \in [Calls -> [shape : Shapes, via : {"client", "one_shot"}]]
               /\ CallTypes /\ LinkTypes
BY DEF TypeOK, CallTypes, LinkTypes, Steps, Results

LEMMA NowType ==
    ASSUME CallTypes, NEW c \in Calls
    PROVE  /\ attempt(c) \in Attempts /\ attempt(c) \in Nat
           /\ now(c) \in Streams /\ Released(c) \in Streams
<1>1. attempt(c) \in Attempts /\ attempt(c) \in Nat
  BY DEF CallTypes, Attempts
<1>2. now(c) \in Streams
  BY <1>1 DEF CallTypes, now
<1>3. [now(c) EXCEPT !.state = "reset"] \in Streams
  BY <1>2 DEF Streams
<1> QED
  BY <1>1, <1>2, <1>3 DEF Released

\* The stream of the current attempt changes, no other does.
LEMMA SetNowType ==
    ASSUME CallTypes, NEW c \in Calls, NEW s \in Streams, SetNow(c, s)
    PROVE  /\ stream' \in [Calls -> [Attempts -> Streams]]
           /\ stream'[c][attempt(c)] = s
           /\ \A a \in Attempts \ {attempt(c)} : stream'[c][a] = stream[c][a]
           /\ \A d \in Calls \ {c} : stream'[d] = stream[d]
<1>1. attempt(c) \in Attempts
  BY NowType
<1> QED
  BY <1>1 DEF SetNow, CallTypes

LEMMA FailType ==
    ASSUME CallTypes, NEW c \in Calls, NEW code \in Errors, Fail(c, code),
           writer' \in [Calls -> {"off", "on", "failed", "done"}]
    PROVE  CallTypes'
<1>1. stream' \in [Calls -> [Attempts -> Streams]]
  BY NowType, SetNowType DEF Fail
<1>2. CASE /\ attempt(c) < MaxRetries
           /\ failures' = [failures EXCEPT ![c] = Append(@, code)]
           /\ frames' = [frames EXCEPT ![c] = <<>>]
           /\ Goto(c, "backoff") /\ UNCHANGED result
  <2>1. /\ Append(failures[c], code) \in Seq(Errors)
        /\ Len(Append(failures[c], code)) = attempt(c) + 1
    BY AppendProperties DEF CallTypes, attempt
  <2>2. attempt(c) + 1 \in Attempts
    BY <1>2, NowType DEF Attempts
  <2>3. \A d \in Calls : Len(failures'[d]) \in Attempts
    BY <1>2, <2>1, <2>2 DEF CallTypes, attempt
  <2> QED
    BY <1>1, <1>2, <2>1, <2>3 DEF CallTypes, Goto, Steps, attempt
<1>3. CASE /\ result' = [result EXCEPT ![c] = code] /\ Goto(c, "done")
           /\ UNCHANGED <<failures, frames>>
  BY <1>1, <1>3 DEF CallTypes, Goto, Steps, Results, attempt
<1> QED
  BY <1>2, <1>3 DEF Fail

\* What every step of a call that fails leaves alone.
LEMMA LinksKept ==
    ASSUME LinkTypes, UNCHANGED <<cached, conns, on, ep, lastErr, others>>
    PROVE  LinkTypes'
BY DEF LinkTypes

LEMMA CallsKept ==
    ASSUME CallTypes, UNCHANGED <<pc, failures, stream, writer, frames, result>>
    PROVE  CallTypes'
BY DEF CallTypes, attempt

\* Connections: who dials, and what the network does to them.
LEMMA LinkStep ==
    ASSUME TypeOK, [Next]_vars
    PROVE  LinkTypes'
<1>0. LinkTypes /\ Len(conns) \in Nat
  BY TypeParts DEF LinkTypes
<1>dial. ASSUME conns' = Append(conns, "up")
         PROVE  /\ conns' \in Seq({"up", "down"}) /\ Len(conns') = Len(conns) + 1
                /\ Len(conns) + 1 \in 0..Len(conns') /\ 0..Len(conns) \subseteq 0..Len(conns')
  BY <1>0, <1>dial, AppendProperties DEF LinkTypes
<1>next. ASSUME NEW c \in Calls, NEW code \in Errors, NextEndpoint(c, code), ep[c] <= Endpoints
         PROVE  lastErr' \in [Calls -> Errors] /\ ep' \in [Calls -> 1..(Endpoints + 1)]
  <2>1. lastErr' \in [Calls -> Errors]
    BY <1>0, <1>next DEF NextEndpoint, LinkTypes
  <2>2. ep[c] \in Nat /\ ep[c] + 1 \in 1..(Endpoints + 1)
    BY <1>0, <1>next DEF LinkTypes
  <2>3. ep' \in [Calls -> 1..(Endpoints + 1)]
    BY <1>0, <1>next, <2>2 DEF NextEndpoint, LinkTypes
  <2> QED
    BY <2>1, <2>3
<1>1. ASSUME NEW c \in Calls, Dial(c)
      PROVE  LinkTypes'
  <2>1. CASE UNCHANGED <<ep, lastErr>>
    BY <1>0, <1>1, <2>1, LinksKept DEF Dial
  <2>2. CASE \E code \in {"UNAVAILABLE", "DEADLINE_EXCEEDED"} : NextEndpoint(c, code)
    <3>1. lastErr' \in [Calls -> Errors] /\ ep' \in [Calls -> 1..(Endpoints + 1)]
      BY <1>1, <1>next, <2>2 DEF Dial, Errors
    <3> QED
      BY <1>0, <1>1, <3>1 DEF LinkTypes, Dial
  <2> QED
    BY <1>1, <2>1, <2>2 DEF Dial
<1>12. ASSUME NEW c \in Calls, Handshake(c)
       PROVE  LinkTypes'
  <2>1. CASE /\ conns' = Append(conns, "up") /\ cached' = Len(conns) + 1
             /\ on' = [on EXCEPT ![c] = Len(conns) + 1]
             /\ ep' = [ep EXCEPT ![c] = 1]
             /\ lastErr' = [lastErr EXCEPT ![c] = "UNAVAILABLE"]
    <3>1. on' \in [Calls -> 0..Len(conns')] /\ cached' \in 0..Len(conns')
      BY <1>0, <1>dial, <2>1 DEF LinkTypes
    <3>2. ep' \in [Calls -> 1..(Endpoints + 1)] /\ lastErr' \in [Calls -> Errors]
      BY <1>0, <2>1 DEF LinkTypes, Errors
    <3> QED
      BY <1>0, <1>12, <1>dial, <2>1, <3>1, <3>2 DEF LinkTypes, Handshake
  <2>2. CASE NextEndpoint(c, "UNAVAILABLE") /\ UNCHANGED <<conns, cached, on>>
    <3>1. lastErr' \in [Calls -> Errors] /\ ep' \in [Calls -> 1..(Endpoints + 1)]
      BY <1>12, <1>next, <2>2 DEF Handshake, Errors
    <3> QED
      BY <1>0, <1>12, <2>2, <3>1 DEF LinkTypes, Handshake
  <2> QED
    BY <1>12, <2>1, <2>2 DEF Handshake
<1>2. ASSUME NEW c \in Calls, DialOnce(c)
      PROVE  LinkTypes'
  <2>1. CASE conns' = Append(conns, "up") /\ on' = [on EXCEPT ![c] = Len(conns) + 1]
    <3>1. on' \in [Calls -> 0..Len(conns')]
      BY <1>0, <1>dial, <2>1 DEF LinkTypes
    <3> QED
      BY <1>0, <1>2, <1>dial, <2>1, <3>1 DEF LinkTypes, DialOnce
  <2>2. CASE UNCHANGED <<conns, on>>
    BY <1>0, <1>2, <2>2 DEF LinkTypes, DialOnce
  <2> QED
    BY <1>2, <2>1, <2>2 DEF DialOnce
<1>3. ASSUME NEW c \in Calls, LookUp(c)
      PROVE  LinkTypes'
  BY <1>0, <1>3 DEF LookUp, LinkTypes
<1>4. ASSUME NEW c \in Calls, NoEndpointLeft(c)
      PROVE  LinkTypes'
  BY <1>0, <1>4 DEF NoEndpointLeft, LinkTypes, Errors
<1>5. ASSUME NEW k \in DOMAIN conns, LoseConn(k)
      PROVE  LinkTypes'
  <2>1. conns' \in Seq({"up", "down"}) /\ Len(conns') = Len(conns)
    BY <1>0, <1>5, ExceptSeq DEF LoseConn, LinkTypes
  <2> QED
    BY <1>0, <1>5, <2>1 DEF LoseConn, LinkTypes
<1>6. CASE AnotherCaller
  <2>1. on \in [Calls -> 0..Len(conns')] /\ cached' \in 0..Len(conns')
    BY <1>0, <1>6, <1>dial DEF AnotherCaller, LinkTypes
  <2> QED
    BY <1>0, <1>6, <1>dial, <2>1 DEF AnotherCaller, LinkTypes
<1>7. ASSUME NEW c \in Calls,
             \/ Begin(c) \/ SendRequest(c) \/ SendMessage(c)
             \/ TakeHead(c) \/ LoseHead(c) \/ JoinWriter(c)
             \/ ReadMessage(c) \/ ReadBroken(c) \/ ReadEnd(c) \/ BackedOff(c)
      PROVE  LinkTypes'
  BY <1>0, <1>7, LinksKept
  DEF Begin, SendRequest, SendMessage, TakeHead, LoseHead, JoinWriter, ReadMessage,
      ReadBroken, ReadEnd, BackedOff
<1>8. ASSUME NEW c \in Calls, \/ Prepare(c) \/ TakeHeadOnce(c) \/ CollectFails(c)
                              \/ Deliver(c) \/ DriverSteps(c) \/ WriterStep(c)
      PROVE  LinkTypes'
  BY <1>0, <1>8, LinksKept
  DEF Prepare, TakeHeadOnce, CollectFails, Deliver, DriverSteps, WriterStep, Feed,
      WriterSends, SourceEnds, SourceFails
<1>9. ASSUME NEW c \in Calls, PeerAnswers(c) \/ PeerResets(c)
      PROVE  LinkTypes'
  BY <1>0, <1>9, LinksKept DEF PeerAnswers, PeerResets, Answer
<1>10. ASSUME NEW c \in Calls, NEW a \in Attempts, PeerRuns(c, a)
       PROVE  LinkTypes'
  BY <1>0, <1>10, LinksKept DEF PeerRuns, Answer
<1>11. CASE UNCHANGED vars
  BY <1>0, <1>11, LinksKept DEF vars
<1> QED
  BY <1>1, <1>2, <1>3, <1>4, <1>5, <1>6, <1>7, <1>8, <1>9, <1>10, <1>11, <1>12
  DEF Next, ClientStep, OneShotStep, Connected, Peer

\* Records of streams, as the steps change them.
LEMMA StreamTypes ==
    /\ NoStream \in Streams /\ Opened \in Streams
    /\ \A s \in Streams :
         /\ \A st \in {"none", "open", "reset"} : [s EXCEPT !.state = st] \in Streams
         /\ [s EXCEPT !.seen = TRUE] \in Streams /\ [s EXCEPT !.ran = TRUE] \in Streams
         /\ [s EXCEPT !.head = TRUE] \in Streams /\ [s EXCEPT !.ended = TRUE] \in Streams
         /\ [s EXCEPT !.ended = TRUE, !.whole = TRUE] \in Streams
         /\ Sent(s) \in Streams
         /\ s.sent < MaxRequests => [s EXCEPT !.sent = @ + 1] \in Streams
         /\ \A n \in Sizes : [s EXCEPT !.msgs = Append(@, n)] \in Streams
         /\ \A f \in {"OK", "BARE"} \cup Errors : /\ [s EXCEPT !.fin = f] \in Streams
                                                 /\ [s EXCEPT !.head = TRUE, !.fin = f] \in Streams
<1>1. NoStream \in Streams
  <2>1. <<>> \in Seq(Sizes) /\ 0 \in 0..(MaxRequests + 1)
    OBVIOUS
  <2> QED
    BY <2>1 DEF NoStream, Streams
<1>2. Opened \in Streams
  BY <1>1 DEF Opened, Streams, NoStream
<1>9. ASSUME NEW s \in Streams
      PROVE  Sent(s) \in Streams
  <2>1. 1 \in 0..(MaxRequests + 1)
    OBVIOUS
  <2> QED
    BY <2>1 DEF Sent, Streams
<1>3. ASSUME NEW s \in Streams
      PROVE  s.sent < MaxRequests => [s EXCEPT !.sent = @ + 1] \in Streams
  <2>1. s.sent \in 0..(MaxRequests + 1)
    BY DEF Streams
  <2>2. s.sent < MaxRequests => s.sent + 1 \in 0..(MaxRequests + 1)
    BY <2>1
  <2> QED
    BY <2>2 DEF Streams
<1>4. ASSUME NEW s \in Streams, NEW n \in Sizes
      PROVE  [s EXCEPT !.msgs = Append(@, n)] \in Streams
  <2>1. Append(s.msgs, n) \in Seq(Sizes)
    BY DEF Streams
  <2> QED
    BY <2>1 DEF Streams
<1>5. ASSUME NEW s \in Streams, NEW st \in {"none", "open", "reset"}
      PROVE  [s EXCEPT !.state = st] \in Streams
  BY DEF Streams
<1>6. ASSUME NEW s \in Streams
      PROVE  [s EXCEPT !.seen = TRUE] \in Streams /\ [s EXCEPT !.ran = TRUE] \in Streams
  BY DEF Streams
<1>7. ASSUME NEW s \in Streams
      PROVE  /\ [s EXCEPT !.head = TRUE] \in Streams /\ [s EXCEPT !.ended = TRUE] \in Streams
             /\ [s EXCEPT !.ended = TRUE, !.whole = TRUE] \in Streams
  BY DEF Streams
<1>8. ASSUME NEW s \in Streams, NEW f \in {"OK", "BARE"} \cup Errors
      PROVE  [s EXCEPT !.fin = f] \in Streams /\ [s EXCEPT !.head = TRUE, !.fin = f] \in Streams
  BY DEF Streams
<1> QED
  BY <1>1, <1>2, <1>3, <1>4, <1>5, <1>6, <1>7, <1>8, <1>9

\* A step that goes elsewhere with its stream, and may tell an outcome.
LEMMA MoveType ==
    ASSUME CallTypes, NEW c \in Calls, NEW s \in Streams, SetNow(c, s),
           pc' \in [Calls -> Steps], writer' \in [Calls -> {"off", "on", "failed", "done"}],
           frames' \in [Calls -> Seq(Sizes)], result' \in [Calls -> Results],
           UNCHANGED failures
    PROVE  CallTypes'
BY SetNowType DEF CallTypes, attempt

LEMMA FeedType ==
    ASSUME CallTypes, NEW c \in Calls, NEW s \in Streams,
           NEW w \in {"on", "failed", "done"}, Feed(c, s, w)
    PROVE  CallTypes'
<1>1. writer' \in [Calls -> {"off", "on", "failed", "done"}]
  BY DEF Feed, CallTypes
<1> QED
  BY <1>1, MoveType DEF Feed, CallTypes

LEMMA AnswerType ==
    ASSUME CallTypes, NEW c \in Calls, NEW a \in Attempts, NEW s \in Streams, Answer(c, a, s)
    PROVE  CallTypes'
BY DEF Answer, CallTypes, attempt

LEMMA SendType ==
    ASSUME CallTypes, NEW c \in Calls, SendRequest(c) \/ SendMessage(c)
    PROVE  CallTypes'
<1>1. CASE /\ SetNow(c, Opened)
           /\ Goto(c, IF SingleRequest(c) THEN "sending" ELSE "response")
           /\ writer' = [writer EXCEPT ![c] = IF SingleRequest(c) THEN "off" ELSE "on"]
           /\ UNCHANGED <<failures, frames, result>>
  <2>1. /\ writer' \in [Calls -> {"off", "on", "failed", "done"}]
        /\ pc' \in [Calls -> Steps]
    BY <1>1 DEF CallTypes, Goto, Steps
  <2> QED
    BY <1>1, <2>1, StreamTypes, MoveType DEF CallTypes
<1>2. CASE (Fail(c, "UNAVAILABLE") \/ Fail(c, "INTERNAL")) /\ UNCHANGED writer
  BY <1>2, FailType DEF CallTypes, Errors
<1>3. CASE /\ SetNow(c, IF Broken(c) THEN now(c) ELSE Sent(now(c))) /\ Goto(c, "response")
           /\ UNCHANGED <<failures, frames, result, writer>>
  <2>1. (IF Broken(c) THEN now(c) ELSE Sent(now(c))) \in Streams
    BY NowType, StreamTypes
  <2>2. pc' \in [Calls -> Steps]
    BY <1>3 DEF CallTypes, Goto, Steps
  <2> QED
    BY <1>3, <2>1, <2>2, MoveType DEF CallTypes
<1> QED
  BY <1>1, <1>2, <1>3 DEF SendRequest, SendMessage

LEMMA HeadType ==
    ASSUME CallTypes, NEW c \in Calls, TakeHead(c) \/ TakeHeadOnce(c)
    PROVE  CallTypes'
<1>1. /\ SetNow(c, [now(c) EXCEPT !.seen = TRUE])
      /\ UNCHANGED <<failures, writer, frames>>
      /\ pc' \in [Calls -> Steps] /\ result' \in [Calls -> Results]
  BY DEF TakeHead, TakeHeadOnce, CallTypes, Goto, Steps, Results
<1> QED
  BY <1>1, NowType, StreamTypes, MoveType DEF CallTypes

LEMMA ReadErrorType ==
    ASSUME CallTypes, NEW c \in Calls, NEW code \in Errors \cup {None}, ReadError(c, code),
           pc[c] = "streaming" \/ code # None, UNCHANGED writer
    PROVE  CallTypes'
<1>1. CASE pc[c] = "streaming"
  <2>1. /\ SetNow(c, Released(c)) /\ UNCHANGED <<failures, frames, result>>
        /\ pc' \in [Calls -> Steps]
    BY <1>1 DEF ReadError, CallTypes, Goto, Steps
  <2> QED
    BY <2>1, NowType, MoveType DEF CallTypes
<1>2. CASE pc[c] # "streaming"
  BY <1>2, FailType DEF ReadError, CallTypes
<1> QED
  BY <1>1, <1>2

LEMMA ReadType ==
    ASSUME CallTypes, NEW c \in Calls, ReadMessage(c) \/ ReadBroken(c) \/ ReadEnd(c)
    PROVE  CallTypes'
<1>codes. {"RESOURCE_EXHAUSTED", "INTERNAL"} \subseteq Errors /\ None \notin Errors
  BY DEF Errors, None
<1>0. now(c) \in Streams /\ now(c).msgs \in Seq(Sizes) /\ frames[c] \in Seq(Sizes)
  BY NowType DEF Streams, CallTypes
<1>1. CASE ReadMessage(c)
  <2> DEFINE size == now(c).msgs[Len(frames[c]) + 1]
  <2>1. size \in Sizes
    BY <1>0, <1>1 DEF ReadMessage, unread
  <2>2. CASE ReadError(c, "RESOURCE_EXHAUSTED")
    BY <1>1, <1>codes, <2>2, ReadErrorType DEF ReadMessage
  <2>3. CASE /\ frames' = [frames EXCEPT ![c] = Append(@, size)]
             /\ UNCHANGED <<pc, failures, stream, result>>
    <3>1. Append(frames[c], size) \in Seq(Sizes)
      BY <1>0, <2>1
    <3> QED
      BY <1>1, <2>3, <3>1 DEF ReadMessage, CallTypes, attempt
  <2> QED
    BY <1>1, <2>2, <2>3 DEF ReadMessage
<1>2. CASE ReadBroken(c)
  BY <1>2, <1>codes, ReadErrorType DEF ReadBroken
<1>3. CASE ReadEnd(c)
  <2>1. CASE now(c).fin \in Errors /\ ReadError(c, now(c).fin)
    BY <1>3, <1>codes, <2>1, ReadErrorType DEF ReadEnd
  <2>2. CASE pc[c] = "streaming" /\ ReadError(c, None)
    BY <1>3, <2>2, ReadErrorType DEF ReadEnd
  <2>3. CASE Fail(c, "INTERNAL")
    BY <1>3, <1>codes, <2>3, FailType DEF ReadEnd, CallTypes
  <2>4. CASE Succeed(c) /\ UNCHANGED frames
    <3>1. /\ SetNow(c, Released(c)) /\ UNCHANGED <<failures, frames, writer>>
          /\ pc' \in [Calls -> Steps] /\ result' \in [Calls -> Results]
      BY <1>3, <2>4 DEF ReadEnd, Succeed, CallTypes, Goto, Steps, Results
    <3> QED
      BY <3>1, NowType, MoveType DEF CallTypes
  <2> QED
    BY <1>3, <2>1, <2>2, <2>3, <2>4 DEF ReadEnd
<1> QED
  BY <1>1, <1>2, <1>3

\* What split_grpc_frames() gives back: the messages, the first, or nothing.
LEMMA SplitType ==
    ASSUME NEW msgs \in Seq(Sizes), NEW split \in SplitFrames(msgs)
    PROVE  /\ split.frames \in Seq(Sizes)
           /\ split.frames # <<>> => msgs # <<>>
<1>1. CASE Len(msgs) <= 1
  BY <1>1 DEF SplitFrames
<1>2. CASE ~(Len(msgs) <= 1)
  <2>0. Len(msgs) \in Nat /\ 1 \in 1..Len(msgs) /\ 2 \in 1..Len(msgs)
    BY <1>2
  <2>1. msgs[1] \in Sizes /\ msgs[2] \in Sizes /\ msgs # <<>>
    BY <2>0
  <2>2. <<msgs[1]>> \in Seq(Sizes) /\ <<>> \in Seq(Sizes)
    BY <2>1
  <2>3. split.frames \in {<<>>, <<msgs[1]>>}
    <3>1. msgs[1] \in Nat /\ msgs[2] \in Nat
      BY <2>1
    <3> QED
      BY <1>2, <3>1 DEF SplitFrames
  <2> QED
    BY <2>1, <2>2, <2>3
<1> QED
  BY <1>1, <1>2

LEMMA DeliverType ==
    ASSUME CallTypes, NEW c \in Calls, Deliver(c)
    PROVE  CallTypes'
<1>0. now(c).msgs \in Seq(Sizes)
  BY NowType DEF Streams
<1>1. SetNow(c, Released(c)) /\ UNCHANGED <<failures, writer>>
  BY DEF Deliver
<1>told. ASSUME NEW code \in Results, Told(c, code)
         PROVE  pc' \in [Calls -> Steps] /\ result' \in [Calls -> Results]
  BY <1>told DEF Told, Goto, CallTypes, Steps
<1>2. CASE SingleResponse(c) /\ now(c).fin \in Errors
  <2>1. Told(c, now(c).fin) /\ UNCHANGED frames
    BY <1>2 DEF Deliver
  <2> QED
    BY <1>1, <1>2, <1>told, <2>1, NowType, MoveType DEF Results, CallTypes
<1>3. CASE ~(SingleResponse(c) /\ now(c).fin \in Errors)
  <2>2. PICK split \in SplitFrames(now(c).msgs) :
          \/ \E code \in {"PANIC", "INTERNAL"} : Told(c, code) /\ UNCHANGED frames
          \/ Goto(c, "spinning") /\ UNCHANGED <<result, frames>>
          \/ /\ frames' = [frames EXCEPT ![c] = split.frames]
             /\ Told(c, IF SingleResponse(c) THEN "REPLY" ELSE "STREAM")
             /\ SingleResponse(c) => split.frames # <<>>
    BY <1>3 DEF Deliver
  <2>3. frames' \in [Calls -> Seq(Sizes)]
    BY <1>0, <2>2, SplitType DEF CallTypes
  <2>4. pc' \in [Calls -> Steps] /\ result' \in [Calls -> Results]
    <3>1. CASE Goto(c, "spinning") /\ UNCHANGED <<result, frames>>
      BY <3>1 DEF Goto, CallTypes, Steps
    <3> QED
      BY <1>told, <2>2, <3>1 DEF Results, Errors
  <2> QED
    BY <1>1, <2>3, <2>4, NowType, MoveType DEF CallTypes
<1> QED
  BY <1>2, <1>3
LEMMA CallsStep ==
    ASSUME TypeOK, [Next]_vars
    PROVE  CallTypes'
<1>0. CallTypes /\ LinkTypes
  BY TypeParts
<1>1. ASSUME NEW c \in Calls, \/ Begin(c) \/ LookUp(c) \/ Dial(c) \/ Handshake(c)
                              \/ BackedOff(c)
      PROVE  CallTypes'
  <2>1. pc' \in [Calls -> Steps] /\ UNCHANGED <<failures, stream, writer, frames, result>>
    BY <1>0, <1>1
    DEF Begin, LookUp, Dial, Handshake, NextEndpoint, BackedOff, Goto, CallTypes, Steps
  <2> QED
    BY <1>0, <2>1 DEF CallTypes, attempt
<1>2. ASSUME NEW c \in Calls, NoEndpointLeft(c)
      PROVE  CallTypes'
  <2>1. lastErr[c] \in Errors
    BY <1>0 DEF LinkTypes
  <2> QED
    BY <1>0, <1>2, <2>1, FailType DEF NoEndpointLeft, CallTypes
<1>3. ASSUME NEW c \in Calls, LoseHead(c)
      PROVE  CallTypes'
  BY <1>0, <1>3, FailType DEF LoseHead, CallTypes, Errors
<1>4. ASSUME NEW c \in Calls, JoinWriter(c)
      PROVE  CallTypes'
  <2>1. CASE \E code \in {"ABORTED", "INTERNAL"} : Fail(c, code)
    BY <1>0, <1>4, <2>1, FailType DEF JoinWriter, CallTypes, Errors
  <2>2. CASE Goto(c, "body") /\ UNCHANGED <<failures, stream, frames, result>>
    BY <1>0, <1>4, <2>2 DEF JoinWriter, CallTypes, attempt, Goto, Steps
  <2> QED
    BY <1>4, <2>1, <2>2 DEF JoinWriter
<1>5. ASSUME NEW c \in Calls, Prepare(c) \/ DialOnce(c)
      PROVE  CallTypes'
  <2>1. CASE /\ Goto(c, "open") \/ Goto(c, "dial")
             /\ UNCHANGED <<failures, stream, frames, result>>
    BY <1>0, <1>5, <2>1 DEF Prepare, DialOnce, CallTypes, attempt, Goto, Steps
  <2>2. CASE \E code \in {"INTERNAL", "UNAVAILABLE"} : Fail(c, code)
    BY <1>0, <1>5, <2>2, FailType DEF Prepare, DialOnce, CallTypes, Errors
  <2> QED
    BY <1>5, <2>1, <2>2 DEF Prepare, DialOnce
<1>6. ASSUME NEW c \in Calls, CollectFails(c)
      PROVE  CallTypes'
  BY <1>0, <1>6, FailType DEF CollectFails, CallTypes, Errors
<1>7. ASSUME NEW c \in Calls, WriterStep(c) \/ DriverSteps(c)
      PROVE  CallTypes'
  BY <1>0, <1>7, NowType, StreamTypes, FeedType
  DEF WriterStep, WriterSends, SourceEnds, SourceFails, DriverSteps
<1>8. ASSUME NEW c \in Calls, PeerAnswers(c) \/ PeerResets(c)
      PROVE  CallTypes'
  BY <1>0, <1>8, NowType, StreamTypes, AnswerType DEF PeerAnswers, PeerResets, Errors
<1>9. ASSUME NEW c \in Calls, NEW a \in Attempts, PeerRuns(c, a)
      PROVE  CallTypes'
  <2>1. stream[c][a] \in Streams
    BY <1>0 DEF CallTypes
  <2> QED
    BY <1>0, <1>9, <2>1, StreamTypes, AnswerType DEF PeerRuns
<1>10. ASSUME \/ \E k \in DOMAIN conns : LoseConn(k)
              \/ AnotherCaller \/ UNCHANGED vars
       PROVE  CallTypes'
  BY <1>0, <1>10, CallsKept DEF LoseConn, AnotherCaller, vars
<1>11. ASSUME NEW c \in Calls,
              \/ SendRequest(c) \/ SendMessage(c) \/ TakeHead(c)
              \/ ReadMessage(c) \/ ReadBroken(c) \/ ReadEnd(c)
              \/ TakeHeadOnce(c) \/ Deliver(c)
       PROVE  CallTypes'
  BY <1>0, <1>11, SendType, HeadType, ReadType, DeliverType
<1> QED
  BY <1>1, <1>2, <1>3, <1>4, <1>5, <1>6, <1>7, <1>8, <1>9, <1>10, <1>11
  DEF Next, ClientStep, OneShotStep, Connected, Peer

\* Nothing turns a call into another one.
LEMMA CallKept ==
    ASSUME [Next]_vars
    PROVE  UNCHANGED call
<1>1. ASSUME NEW c \in Calls, Begin(c) \/ ClientStep(c) \/ WriterStep(c)
      PROVE  UNCHANGED call
  BY <1>1 DEF Begin, ClientStep, WriterStep, LookUp, Dial, NoEndpointLeft, SendRequest,
     SendMessage, TakeHead, LoseHead, JoinWriter, ReadMessage, ReadBroken, ReadEnd, BackedOff,
     WriterSends, SourceEnds, SourceFails, Feed
<1>2. ASSUME NEW c \in Calls, OneShotStep(c) \/ DriverSteps(c) \/ Connected(c)
      PROVE  UNCHANGED call
  BY <1>2 DEF OneShotStep, DriverSteps, Connected, Handshake, DialOnce, Prepare, TakeHeadOnce, CollectFails,
     Deliver, Feed
<1>3. CASE AnotherCaller \/ Peer \/ UNCHANGED vars
  BY <1>3 DEF AnotherCaller, Peer, PeerAnswers, PeerResets, PeerRuns, LoseConn, Answer, vars
<1> QED
  BY <1>1, <1>2, <1>3 DEF Next

\* Every variable of a call stays within its type: no attempt is numbered
\* beyond max_retries (client.rs:432), no connection is used that was not
\* made, and every outcome is one of those a caller can be told.
THEOREM TypeCorrect == Spec => []TypeOK
<1>1. Init => TypeOK
  <2> SUFFICES ASSUME Init PROVE TypeOK
    OBVIOUS
  <2>1. /\ [c \in Calls |-> "idle"] \in [Calls -> Steps]
        /\ [c \in Calls |-> <<>>] \in [Calls -> Seq(Errors)]
        /\ [c \in Calls |-> <<>>] \in [Calls -> Seq(Sizes)]
        /\ [c \in Calls |-> None] \in [Calls -> Results]
        /\ [c \in Calls |-> "UNAVAILABLE"] \in [Calls -> Errors]
        /\ [c \in Calls |-> "off"] \in [Calls -> {"off", "on", "failed", "done"}]
    BY DEF Steps, Results, Errors
  <2>2. [c \in Calls |-> [a \in Attempts |-> NoStream]] \in [Calls -> [Attempts -> Streams]]
    BY StreamTypes
  <2>3. \A c \in Calls : attempt(c) \in Attempts
    BY DEF Init, InitWith, attempt, Attempts
  <2>4. CallTypes
    BY <2>1, <2>2, <2>3 DEF Init, InitWith, CallTypes
  <2>5. LinkTypes
    BY <2>1 DEF Init, InitWith, LinkTypes
  <2> QED
    BY <2>4, <2>5, TypeParts DEF Init, InitWith
<1>2. ASSUME TypeOK, [Next]_vars
      PROVE  TypeOK'
  <2>1. CallTypes' /\ LinkTypes' /\ UNCHANGED call
    BY <1>2, CallsStep, LinkStep, CallKept
  <2>2. call \in [Calls -> [shape : Shapes, via : {"client", "one_shot"}]]
    BY <1>2, TypeParts
  <2> QED
    BY <2>1, <2>2 DEF TypeOK, CallTypes, LinkTypes, Steps, Results
<1> QED
  BY <1>1, <1>2, PTL DEF Spec

-----------------------------------------------------------------------------
\* A step is a step of one call, and all others stay as they are.

Same(c) ==
    /\ call' = call /\ pc'[c] = pc[c] /\ stream'[c] = stream[c]
    /\ failures'[c] = failures[c] /\ writer'[c] = writer[c]
    /\ frames'[c] = frames[c] /\ result'[c] = result[c]

PeerStep(c) == PeerAnswers(c) \/ PeerResets(c) \/ \E a \in Attempts : PeerRuns(c, a)

CallStep(c) == \/ Begin(c) \/ ClientStep(c) \/ OneShotStep(c) \/ Connected(c)
               \/ WriterStep(c) \/ DriverSteps(c) \/ PeerStep(c)

LEMMA FailSame ==
    ASSUME CallTypes, NEW c \in Calls, NEW d \in Calls \ {c}, NEW code, Fail(c, code)
    PROVE  /\ pc'[d] = pc[d] /\ stream'[d] = stream[d] /\ failures'[d] = failures[d]
           /\ frames'[d] = frames[d] /\ result'[d] = result[d]
<1>1. CASE /\ call[c].shape = "unary" /\ Via(c, "client")
           /\ attempt(c) < MaxRetries /\ code \in Retryable
  BY <1>1 DEF Fail, SetNow, Goto, CallTypes
<1>2. CASE ~(/\ call[c].shape = "unary" /\ Via(c, "client")
             /\ attempt(c) < MaxRetries /\ code \in Retryable)
  BY <1>2 DEF Fail, SetNow, Goto, CallTypes
<1> QED
  BY <1>1, <1>2

LEMMA OthersSame ==
    ASSUME TypeOK, NEW c \in Calls, NEW d \in Calls \ {c}, CallStep(c)
    PROVE  Same(d)
<1>0. CallTypes
  BY TypeParts
<1>1. CASE \/ Begin(c) \/ LookUp(c) \/ Dial(c) \/ Handshake(c) \/ BackedOff(c)
           \/ TakeHead(c) \/ TakeHeadOnce(c)
  BY <1>0, <1>1 DEF Begin, LookUp, Dial, Handshake, NextEndpoint, BackedOff, TakeHead, TakeHeadOnce, CallTypes,
     Goto, SetNow, Same
<1>2. CASE \/ NoEndpointLeft(c) \/ LoseHead(c) \/ CollectFails(c) \/ JoinWriter(c)
           \/ Prepare(c) \/ DialOnce(c)
  <2>1. call' = call /\ UNCHANGED writer
    BY <1>2 DEF NoEndpointLeft, LoseHead, CollectFails, JoinWriter, Prepare, DialOnce
  <2>2. CASE \E code : Fail(c, code)
    BY <1>0, <2>1, <2>2, FailSame DEF Same
  <2>3. CASE \E label : Goto(c, label) /\ UNCHANGED <<failures, stream, frames, result>>
    BY <1>0, <2>1, <2>3 DEF Goto, CallTypes, Same
  <2> QED
    BY <1>2, <2>2, <2>3
    DEF NoEndpointLeft, LoseHead, CollectFails, JoinWriter, Prepare, DialOnce
<1>3. CASE SendRequest(c) \/ SendMessage(c)
  <2>1. CASE \E code : Fail(c, code) /\ UNCHANGED writer
    BY <1>0, <1>3, <2>1, FailSame DEF SendRequest, SendMessage, Same
  <2>2. CASE /\ \E s, label : SetNow(c, s) /\ Goto(c, label)
             /\ \/ \E w : writer' = [writer EXCEPT ![c] = w]
                \/ UNCHANGED writer
             /\ UNCHANGED <<failures, frames, result>>
    BY <1>0, <1>3, <2>2 DEF SendRequest, SendMessage, SetNow, Goto, CallTypes, Same
  <2> QED
    BY <1>3, <2>1, <2>2 DEF SendRequest, SendMessage
<1>4. CASE ReadMessage(c) \/ ReadBroken(c) \/ ReadEnd(c)
  <2>1. call' = call /\ UNCHANGED writer
    BY <1>4 DEF ReadMessage, ReadBroken, ReadEnd
  <2>2. CASE \E code : Fail(c, code) \/ ReadError(c, code)
    BY <1>0, <2>1, <2>2, FailSame DEF ReadError, SetNow, Goto, CallTypes, Same
  <2>3. CASE Succeed(c) /\ UNCHANGED frames
    BY <1>0, <2>1, <2>3 DEF Succeed, SetNow, Goto, CallTypes, Same
  <2>4. CASE \E f : frames' = [frames EXCEPT ![c] = f] /\ UNCHANGED <<pc, failures, stream, result>>
    BY <1>0, <2>1, <2>4 DEF CallTypes, Same
  <2> QED
    BY <1>4, <2>2, <2>3, <2>4 DEF ReadMessage, ReadBroken, ReadEnd
<1>5. CASE Deliver(c)
  <2>1. /\ call' = call /\ UNCHANGED <<writer, failures>> /\ stream'[d] = stream[d]
    BY <1>0, <1>5 DEF Deliver, SetNow, CallTypes
  <2>2. /\ \/ \E code : Told(c, code)
           \/ Goto(c, "spinning") /\ UNCHANGED result
        /\ \/ UNCHANGED frames
           \/ \E f : frames' = [frames EXCEPT ![c] = f]
    BY <1>5 DEF Deliver
  <2>3. pc'[d] = pc[d] /\ result'[d] = result[d] /\ frames'[d] = frames[d]
    BY <1>0, <2>2 DEF Told, Goto, CallTypes
  <2> QED
    BY <2>1, <2>3 DEF Same
<1>6. CASE WriterStep(c) \/ DriverSteps(c)
  <2>1. \E s, w : Feed(c, s, w)
    BY <1>6 DEF WriterStep, DriverSteps, WriterSends, SourceEnds, SourceFails
  <2> QED
    BY <1>0, <2>1 DEF Feed, SetNow, CallTypes, Same
<1>7. CASE PeerStep(c)
  <2>1. \E a, s : Answer(c, a, s)
    BY <1>7 DEF PeerStep, PeerAnswers, PeerResets, PeerRuns
  <2> QED
    BY <1>0, <2>1 DEF Answer, CallTypes, Same
<1> QED
  BY <1>1, <1>2, <1>3, <1>4, <1>5, <1>6, <1>7
  DEF CallStep, ClientStep, OneShotStep, Connected

LEMMA StepOfACall ==
    ASSUME TypeOK, [Next]_vars
    PROVE  \/ \A d \in Calls : Same(d)
           \/ \E c \in Calls : CallStep(c) /\ \A d \in Calls \ {c} : Same(d)
<1>1. CASE AnotherCaller \/ (\E k \in DOMAIN conns : LoseConn(k)) \/ UNCHANGED vars
  BY <1>1 DEF AnotherCaller, LoseConn, vars, Same
<1>2. CASE \E c \in Calls : CallStep(c)
  BY <1>2, OthersSame
<1> QED
  BY <1>1, <1>2 DEF Next, Peer, PeerStep, CallStep

-----------------------------------------------------------------------------
\* The inductive invariant, of one call.

\* Where the current attempt has no stream yet.
Waiting == {"idle", "lookup", "dial", "handshake", "open", "backoff"}

\* Which calls get where: only unary calls of the client go around again.
Routes(c) ==
    /\ attempt(c) > 0 \/ pc[c] = "backoff" => call[c] = [shape |-> "unary", via |-> "client"]
    /\ pc[c] \in {"handshake", "join", "body", "streaming"} => Via(c, "client")
    /\ pc[c] = "sending" => SingleRequest(c)
    /\ pc[c] \in {"collect", "spinning"} => Via(c, "one_shot")
    /\ pc[c] = "join" => call[c].shape = "client_streaming"
    /\ pc[c] = "body" => SingleResponse(c)

\* Attempts that were not made have no stream.
Fresh(c) ==
    \A a \in Attempts :
        a > attempt(c) \/ (a = attempt(c) /\ pc[c] \in Waiting) => stream[c][a] = NoStream

\* The head is seen before anything of the response is read.
HeadFirst(c) ==
    /\ pc[c] \in {"sending", "response"} => ~now(c).seen
    /\ pc[c] \in {"join", "body", "collect", "streaming"} => now(c).seen

\* A writer runs for streamed requests only, and client_streaming() has
\* waited for it before it reads.
WriterFirst(c) ==
    /\ SingleRequest(c) \/ pc[c] \in Waiting => writer[c] = "off"
    /\ call[c] = [shape |-> "client_streaming", via |-> "client"]
         /\ (pc[c] = "body" \/ result[c] = "REPLY") => writer[c] = "done"

\* What was read is the beginning of what came.
ReadSoFar(c) ==
    /\ pc[c] \in Waiting \cup {"sending", "response", "join"} => frames[c] = <<>>
    /\ pc[c] \in {"body", "streaming"} =>
          /\ Len(frames[c]) <= Len(now(c).msgs)
          /\ \A i \in 1..Len(frames[c]) : frames[c][i] = now(c).msgs[i]

\* Messages come from a run, and a request that was ended is a whole one.
Streamed(c) ==
    \A a \in Attempts :
        /\ stream[c][a].msgs # <<>> => stream[c][a].ran
        /\ stream[c][a].ended =>
              stream[c][a].whole \/ call[c] = [shape |-> "bidi_streaming", via |-> "client"]

\* Outcomes are told at the end, and replies are what RepliesAreFinal says.
ToldLast(c) ==
    /\ result[c] # None => pc[c] \in {"streaming", "done"}
    /\ result[c] = "REPLY" =>
          /\ pc[c] = "done"
          /\ now(c).ran /\ now(c).seen /\ now(c).fin \in {"OK", "BARE"}
          /\ frames[c] # <<>>
          /\ Via(c, "client") => frames[c] = now(c).msgs

CallInv(c) == /\ Routes(c) /\ Fresh(c) /\ HeadFirst(c) /\ WriterFirst(c)
              /\ ReadSoFar(c) /\ Streamed(c) /\ ToldLast(c)

\* Why an attempt may be repeated although its response had begun.
Repeatable(s) ==
    \/ s.fin \in Retryable
    \/ /\ "RESOURCE_EXHAUSTED" \in Retryable
       /\ \E i \in DOMAIN s.msgs : s.msgs[i] > MaxMessageSize
Settled(c) == \A a \in Attempts : a < attempt(c) /\ stream[c][a].seen => Repeatable(stream[c][a])

LEMMA Unaffected ==
    ASSUME NEW c \in Calls, CallInv(c), Same(c)
    PROVE  CallInv(c)'
BY DEF Same, CallInv, Routes, Fresh, HeadFirst, WriterFirst, ReadSoFar, Streamed, ToldLast,
   attempt, now, Via, SingleRequest, SingleResponse

\* What the peer and the feeding task do to a stream: it grows, and what was
\* settled stays.
Grows(c, s, t) ==
    /\ t.seen = s.seen /\ (s.ran => t.ran)
    /\ t.msgs = s.msgs \/ \E n \in Sizes : t.msgs = Append(s.msgs, n)
    /\ t.msgs # <<>> => t.ran
    /\ t.ended => t.whole \/ call[c] = [shape |-> "bidi_streaming", via |-> "client"]

LEMMA SteadyInv ==
    ASSUME TypeOK, NEW c \in Calls, CallInv(c), NEW a \in Attempts, NEW t \in Streams,
           stream' = [stream EXCEPT ![c][a] = t],
           UNCHANGED <<call, pc, failures, frames, result>>,
           writer'[c] = writer[c] \/ writer[c] = "on",
           stream[c][a].state # "none",
           Grows(c, stream[c][a], t),
           \/ t.fin = stream[c][a].fin /\ t.msgs = stream[c][a].msgs
           \/ pc[c] # "done"
    PROVE  CallInv(c)'
<1>0. CallTypes
  BY TypeParts
<1>1. /\ attempt(c) \in Attempts /\ attempt(c)' = attempt(c) /\ a \in Nat
      /\ stream'[c] = [stream[c] EXCEPT ![a] = t] /\ now(c) \in Streams
  BY <1>0, NowType DEF CallTypes, attempt, Attempts
<1>2. now(c)' = IF a = attempt(c) THEN t ELSE now(c)
  BY <1>0, <1>1 DEF now, CallTypes
<1>3. ~(a > attempt(c) \/ (a = attempt(c) /\ pc[c] \in Waiting))
  BY DEF CallInv, Fresh, NoStream
<1>4. Routes(c)'
  BY <1>1 DEF CallInv, Routes, Via, SingleRequest, SingleResponse, attempt
<1>5. Fresh(c)'
  BY <1>0, <1>1, <1>3 DEF CallInv, Fresh, CallTypes
<1>6. HeadFirst(c)'
  BY <1>1, <1>2 DEF CallInv, HeadFirst, Grows, now
<1>7. WriterFirst(c)'
  BY DEF CallInv, WriterFirst, SingleRequest
<1>8. ReadSoFar(c)'
  <2>1. ASSUME pc[c] \in {"body", "streaming"}
        PROVE  /\ Len(frames[c]) <= Len(now(c)'.msgs)
               /\ \A i \in 1..Len(frames[c]) : frames[c][i] = now(c)'.msgs[i]
    <3>1. /\ now(c).msgs \in Seq(Sizes) /\ Len(frames[c]) \in Nat
          /\ Len(frames[c]) <= Len(now(c).msgs)
          /\ \A i \in 1..Len(frames[c]) : frames[c][i] = now(c).msgs[i]
      BY <1>0, <1>1, <2>1 DEF CallInv, ReadSoFar, Streams, CallTypes
    <3>2. now(c)'.msgs = now(c).msgs \/ \E n \in Sizes : now(c)'.msgs = Append(now(c).msgs, n)
      BY <1>2 DEF Grows, now
    <3>3. CASE now(c)'.msgs = now(c).msgs
      BY <3>1, <3>3
    <3>4. ASSUME NEW n \in Sizes, now(c)'.msgs = Append(now(c).msgs, n)
          PROVE  /\ Len(frames[c]) <= Len(now(c)'.msgs)
                 /\ \A i \in 1..Len(frames[c]) : frames[c][i] = now(c)'.msgs[i]
      <4>1. /\ Len(now(c)'.msgs) = Len(now(c).msgs) + 1 /\ Len(now(c).msgs) \in Nat
            /\ \A i \in 1..Len(now(c).msgs) : now(c)'.msgs[i] = now(c).msgs[i]
        BY <3>1, <3>4
      <4>2. Len(frames[c]) <= Len(now(c)'.msgs)
        BY <3>1, <4>1
      <4>3. ASSUME NEW i \in 1..Len(frames[c]) PROVE frames[c][i] = now(c)'.msgs[i]
        <5>1. i \in 1..Len(now(c).msgs)
          BY <3>1
        <5>2. frames[c][i] = now(c).msgs[i]
          BY <3>1
        <5>3. now(c)'.msgs[i] = now(c).msgs[i]
          BY <4>1, <5>1
        <5> QED
          BY <5>2, <5>3
      <4> QED
        BY <4>2, <4>3
    <3> QED
      BY <3>2, <3>3, <3>4
  <2> QED
    BY <2>1 DEF CallInv, ReadSoFar
<1>9. Streamed(c)'
  BY <1>0, <1>1 DEF CallInv, Streamed, Grows, CallTypes
<1>10. ToldLast(c)'
  BY <1>1, <1>2 DEF CallInv, ToldLast, Grows, now, Via
<1> QED
  BY <1>4, <1>5, <1>6, <1>7, <1>8, <1>9, <1>10 DEF CallInv

LEMMA FeedInv ==
    ASSUME TypeOK, NEW c \in Calls, CallInv(c), WriterStep(c) \/ DriverSteps(c)
    PROVE  CallInv(c)'
<1>0. CallTypes
  BY TypeParts
<1>1. /\ writer[c] = "on" /\ ~SingleRequest(c) /\ pc[c] \notin Waiting
      /\ now(c) \in Streams /\ attempt(c) \in Attempts
  BY <1>0, NowType DEF CallInv, WriterFirst, WriterStep, WriterSends, SourceEnds, SourceFails,
     Writing, DriverSteps
<1>2. call[c].shape # "client_streaming" /\ Via(c, "client")
        => call[c] = [shape |-> "bidi_streaming", via |-> "client"]
  BY <1>1, TypeParts DEF SingleRequest, Via, Shapes
<1>3. Grows(c, now(c), now(c))
  BY <1>1 DEF CallInv, Streamed, Grows, now
<1>4. PICK t \in Streams, w \in {"on", "failed", "done"} :
        /\ Feed(c, t, w) /\ Grows(c, now(c), t)
        /\ t.fin = now(c).fin /\ t.msgs = now(c).msgs
        /\ t = now(c) \/ ~Broken(c)
  <2>1. CASE Feed(c, now(c), "failed") \/ Feed(c, now(c), "done")
    BY <1>1, <1>3, <2>1
  <2>2. CASE /\ ~Broken(c) /\ now(c).sent < MaxRequests
             /\ Feed(c, [now(c) EXCEPT !.sent = @ + 1], "on")
    <3>1. [now(c) EXCEPT !.sent = @ + 1] \in Streams
      BY <1>1, <2>2, StreamTypes
    <3>2. Grows(c, now(c), [now(c) EXCEPT !.sent = @ + 1])
      BY <1>1, <1>3 DEF Grows, Streams
    <3> QED
      BY <1>1, <2>2, <3>1, <3>2 DEF Streams
  <2>3. CASE ~Broken(c) /\ Feed(c, [now(c) EXCEPT !.ended = TRUE, !.whole = TRUE], "done")
    <3>1. [now(c) EXCEPT !.ended = TRUE, !.whole = TRUE] \in Streams
      BY <1>1, StreamTypes
    <3>2. Grows(c, now(c), [now(c) EXCEPT !.ended = TRUE, !.whole = TRUE])
      BY <1>1, <1>3 DEF Grows, Streams
    <3> QED
      BY <1>1, <2>3, <3>1, <3>2 DEF Streams
  <2>4. CASE /\ ~Broken(c) /\ Feed(c, [now(c) EXCEPT !.ended = TRUE], "done")
             /\ call[c].shape # "client_streaming" /\ Via(c, "client")
    <3>1. [now(c) EXCEPT !.ended = TRUE] \in Streams
      BY <1>1, StreamTypes
    <3>2. Grows(c, now(c), [now(c) EXCEPT !.ended = TRUE])
      BY <1>1, <1>2, <1>3, <2>4 DEF Grows, Streams
    <3> QED
      BY <1>1, <2>4, <3>1, <3>2 DEF Streams
  <2> QED
    BY <2>1, <2>2, <2>3, <2>4
    DEF WriterStep, WriterSends, SourceEnds, SourceFails, Writing, DriverSteps
<1>5. CASE now(c).state # "none"
  BY <1>0, <1>1, <1>4, <1>5, SteadyInv DEF Feed, SetNow, now
<1>6. CASE now(c).state = "none"
  <2>1. t = now(c)
    BY <1>4, <1>6 DEF Broken
  <2>2. stream'[c] = stream[c] /\ UNCHANGED <<call, pc, failures, frames, result>>
    BY <1>0, <1>1, <1>4, <2>1 DEF Feed, SetNow, now, CallTypes
  <2> QED
    BY <1>0, <1>1, <1>4, <2>2 DEF CallInv, Routes, Fresh, HeadFirst, WriterFirst, ReadSoFar,
       Streamed, ToldLast, attempt, now, Via, SingleRequest, SingleResponse, Feed
<1> QED
  BY <1>5, <1>6

LEMMA PeerInv ==
    ASSUME TypeOK, NEW c \in Calls, CallInv(c), PeerStep(c)
    PROVE  CallInv(c)'
<1>0. CallTypes
  BY TypeParts
<1>1. /\ attempt(c) \in Attempts /\ now(c) \in Streams
      /\ now(c).msgs # <<>> => now(c).ran
      /\ now(c).ended => now(c).whole \/ call[c] = [shape |-> "bidi_streaming", via |-> "client"]
  BY <1>0, NowType DEF CallInv, Streamed, now
<1>2. ASSUME NEW t \in Streams, Answer(c, attempt(c), t), Grows(c, now(c), t),
             now(c).state # "none",
             pc[c] # "done" \/ (t.fin = now(c).fin /\ t.msgs = now(c).msgs)
      PROVE  CallInv(c)'
  BY <1>1, <1>2, SteadyInv DEF Answer, now
<1>3. CASE PeerAnswers(c)
  <2>1. now(c).state # "none" /\ pc[c] # "done"
    BY <1>3 DEF PeerAnswers, Broken
  <2>2. CASE Answer(c, attempt(c), [now(c) EXCEPT !.head = TRUE])
    <3>1. [now(c) EXCEPT !.head = TRUE] \in Streams
      BY <1>1, StreamTypes
    <3>2. Grows(c, now(c), [now(c) EXCEPT !.head = TRUE])
      BY <1>1 DEF Grows, Streams
    <3> QED
      BY <1>2, <2>1, <2>2, <3>1, <3>2
  <2>3. ASSUME NEW n \in Sizes, now(c).ran,
               Answer(c, attempt(c), [now(c) EXCEPT !.msgs = Append(@, n)])
        PROVE  CallInv(c)'
    <3>1. [now(c) EXCEPT !.msgs = Append(@, n)] \in Streams
      BY <1>1, StreamTypes
    <3>2. Grows(c, now(c), [now(c) EXCEPT !.msgs = Append(@, n)])
      BY <1>1, <2>3 DEF Grows, Streams
    <3> QED
      BY <1>2, <2>1, <2>3, <3>1, <3>2
  <2>4. ASSUME NEW f \in {"OK", "BARE"} \cup Errors,
               Answer(c, attempt(c), [now(c) EXCEPT !.fin = f])
        PROVE  CallInv(c)'
    <3>1. [now(c) EXCEPT !.fin = f] \in Streams
      BY <1>1, StreamTypes
    <3>2. Grows(c, now(c), [now(c) EXCEPT !.fin = f])
      BY <1>1 DEF Grows, Streams
    <3> QED
      BY <1>2, <2>1, <2>4, <3>1, <3>2
  <2>5. CASE Answer(c, attempt(c), [now(c) EXCEPT !.head = TRUE, !.fin = "BARE"])
    <3>1. [now(c) EXCEPT !.head = TRUE, !.fin = "BARE"] \in Streams
      BY <1>1, StreamTypes
    <3>2. Grows(c, now(c), [now(c) EXCEPT !.head = TRUE, !.fin = "BARE"])
      BY <1>1 DEF Grows, Streams
    <3> QED
      BY <1>2, <2>1, <2>5, <3>1, <3>2
  <2> QED
    BY <1>3, <2>2, <2>3, <2>4, <2>5 DEF PeerAnswers, Errors
<1>4. CASE PeerResets(c)
  <2>1. [now(c) EXCEPT !.state = "reset"] \in Streams
    BY <1>1, StreamTypes
  <2>2. Grows(c, now(c), [now(c) EXCEPT !.state = "reset"])
    BY <1>1 DEF Grows, Streams
  <2>3. /\ [now(c) EXCEPT !.state = "reset"].fin = now(c).fin
        /\ [now(c) EXCEPT !.state = "reset"].msgs = now(c).msgs
    BY <1>1 DEF Streams
  <2> QED
    BY <1>2, <1>4, <2>1, <2>2, <2>3 DEF PeerResets
<1>5. ASSUME NEW a \in Attempts, PeerRuns(c, a)
      PROVE  CallInv(c)'
  <2> DEFINE s == stream[c][a]
             t == [s EXCEPT !.ran = TRUE]
  <2>1. s \in Streams /\ t \in Streams
    <3>1. s \in Streams
      BY <1>0 DEF CallTypes
    <3> HIDE DEF s
    <3> QED
      BY <3>1, StreamTypes
  <2>2. Grows(c, s, t) /\ t.fin = s.fin /\ t.msgs = s.msgs
    BY <2>1 DEF CallInv, Streamed, Grows, Streams
  <2>3. Answer(c, a, t) /\ s.state # "none"
    BY <1>5 DEF PeerRuns
  <2> HIDE DEF t
  <2> QED
    BY <2>1, <2>2, <2>3, SteadyInv DEF Answer
<1> QED
  BY <1>3, <1>4, <1>5 DEF PeerStep

\* An attempt fails: nothing was told yet, and the next one starts afresh.
LEMMA FailInv ==
    ASSUME TypeOK, NEW c \in Calls, CallInv(c), NEW code \in Errors, Fail(c, code),
           UNCHANGED <<call, writer>>, result[c] = None
    PROVE  CallInv(c)'
<1>0. CallTypes
  BY TypeParts
<1>1. /\ attempt(c) \in Attempts /\ attempt(c) \in Nat
      /\ now(c) \in Streams /\ Released(c) \in Streams
      /\ stream'[c] = [stream[c] EXCEPT ![attempt(c)] = Released(c)]
  BY <1>0, NowType DEF Fail, SetNow, CallTypes
<1>2. \A a \in Attempts :
        /\ stream'[c][a].msgs = stream[c][a].msgs /\ stream'[c][a].ran = stream[c][a].ran
        /\ stream'[c][a].ended = stream[c][a].ended /\ stream'[c][a].whole = stream[c][a].whole
        /\ a # attempt(c) => stream'[c][a] = stream[c][a]
  BY <1>0, <1>1 DEF Released, now, CallTypes, Streams
<1>3. Streamed(c)'
  BY <1>2 DEF CallInv, Streamed
<1>4. code # "REPLY"
  BY DEF Errors
<1>5. CASE /\ call[c].shape = "unary" /\ Via(c, "client")
           /\ attempt(c) < MaxRetries /\ code \in Retryable
  <2>1. /\ failures' = [failures EXCEPT ![c] = Append(@, code)]
        /\ frames'[c] = <<>> /\ pc'[c] = "backoff" /\ result' = result
    BY <1>0, <1>5 DEF Fail, Goto, CallTypes
  <2>2. attempt(c)' = attempt(c) + 1
    BY <1>0, <2>1, AppendProperties DEF CallTypes, attempt
  <2>3. call[c] = [shape |-> "unary", via |-> "client"]
    BY <1>5, TypeParts DEF Via
  <2>4. Routes(c)'
    BY <2>1, <2>3 DEF Routes
  <2>5. Fresh(c)'
    <3> SUFFICES ASSUME NEW a \in Attempts, a >= attempt(c) + 1
                 PROVE  stream'[c][a] = NoStream
      BY <1>1, <2>2 DEF Fresh, Attempts
    <3> QED
      BY <1>1, <1>2 DEF CallInv, Fresh, Attempts
  <2>6. WriterFirst(c)'
    <3>1. writer[c] = "off" /\ writer'[c] = "off"
      BY <2>3 DEF CallInv, WriterFirst, SingleRequest
    <3>2. call'[c] # [shape |-> "client_streaming", via |-> "client"]
      BY <2>3
    <3> QED
      BY <3>1, <3>2 DEF WriterFirst
  <2>7. HeadFirst(c)' /\ ReadSoFar(c)' /\ ToldLast(c)'
    BY <2>1 DEF HeadFirst, ReadSoFar, ToldLast, Waiting, None
  <2> QED
    BY <1>3, <2>4, <2>5, <2>6, <2>7 DEF CallInv
<1>6. CASE ~(/\ call[c].shape = "unary" /\ Via(c, "client")
             /\ attempt(c) < MaxRetries /\ code \in Retryable)
  <2>1. /\ result'[c] = code /\ pc'[c] = "done" /\ UNCHANGED <<failures, frames>>
    BY <1>0, <1>6 DEF Fail, Goto, CallTypes
  <2>2. attempt(c)' = attempt(c)
    BY <2>1 DEF attempt
  <2>3. Routes(c)'
    BY <2>1, <2>2 DEF CallInv, Routes
  <2>4. Fresh(c)'
    <3> SUFFICES ASSUME NEW a \in Attempts, a > attempt(c)
                 PROVE  stream'[c][a] = NoStream
      BY <2>1, <2>2 DEF Fresh, Waiting
    <3>1. a # attempt(c)
      BY <1>1 DEF Attempts
    <3> QED
      BY <1>2, <3>1 DEF CallInv, Fresh
  <2>5. WriterFirst(c)'
    BY <1>4, <2>1 DEF CallInv, WriterFirst, SingleRequest, Waiting
  <2>6. HeadFirst(c)' /\ ReadSoFar(c)' /\ ToldLast(c)'
    BY <1>4, <2>1 DEF HeadFirst, ReadSoFar, ToldLast, Waiting
  <2> QED
    BY <1>3, <2>3, <2>4, <2>5, <2>6 DEF CallInv
<1> QED
  BY <1>5, <1>6

\* Before the request is sent, a call has nothing but its place.
LEMMA WaitingInv ==
    ASSUME TypeOK, NEW c \in Calls, CallInv(c), pc[c] \in Waiting,
           pc'[c] \in Waiting \ {"backoff"}, pc'[c] = "handshake" => Via(c, "client"),
           UNCHANGED <<call, failures, stream, writer, frames, result>>
    PROVE  CallInv(c)'
<1>1. attempt(c)' = attempt(c)
  BY DEF attempt
<1>2. Routes(c)' /\ Fresh(c)' /\ Streamed(c)'
  BY <1>1 DEF CallInv, Routes, Fresh, Streamed, Via, Waiting
<1>3. HeadFirst(c)' /\ WriterFirst(c)' /\ ReadSoFar(c)' /\ ToldLast(c)'
  BY DEF CallInv, HeadFirst, WriterFirst, ReadSoFar, ToldLast, SingleRequest, Waiting, None
<1> QED
  BY <1>2, <1>3 DEF CallInv

LEMMA ConnectInv ==
    ASSUME TypeOK, NEW c \in Calls, CallInv(c),
           \/ Begin(c) \/ LookUp(c) \/ Dial(c) \/ Handshake(c) \/ NoEndpointLeft(c)
           \/ BackedOff(c) \/ Prepare(c) \/ DialOnce(c)
    PROVE  CallInv(c)'
<1>0. CallTypes /\ lastErr[c] \in Errors
  BY TypeParts DEF LinkTypes
<1>1. CASE Begin(c) \/ LookUp(c) \/ Dial(c) \/ Handshake(c) \/ BackedOff(c)
  BY <1>0, <1>1, WaitingInv
  DEF Begin, LookUp, Dial, Handshake, NextEndpoint, BackedOff, Waiting, Goto, CallTypes
<1>2. CASE NoEndpointLeft(c)
  <2>1. pc[c] = "dial" /\ Fail(c, lastErr[c]) /\ UNCHANGED <<call, writer>>
    BY <1>2 DEF NoEndpointLeft
  <2>2. result[c] = None
    BY <2>1 DEF CallInv, ToldLast
  <2> QED
    BY <1>0, <2>1, <2>2, FailInv
<1>3. CASE Prepare(c) \/ DialOnce(c)
  <2>1. pc[c] \in {"lookup", "dial"} /\ UNCHANGED <<call, writer>>
    BY <1>3 DEF Prepare, DialOnce
  <2>2. CASE (Goto(c, "open") \/ Goto(c, "dial")) /\ UNCHANGED <<failures, stream, frames, result>>
    BY <1>0, <2>1, <2>2, WaitingInv DEF Goto, Waiting, CallTypes
  <2>3. CASE \E code \in {"INTERNAL", "UNAVAILABLE"} : Fail(c, code)
    <3>1. result[c] = None
      BY <2>1 DEF CallInv, ToldLast
    <3> QED
      BY <2>1, <2>3, <3>1, FailInv DEF Errors
  <2> QED
    BY <1>3, <2>2, <2>3 DEF Prepare, DialOnce
<1> QED
  BY <1>1, <1>2, <1>3

LEMMA SendInv ==
    ASSUME TypeOK, NEW c \in Calls, CallInv(c), SendRequest(c)
    PROVE  CallInv(c)'
<1>0. CallTypes
  BY TypeParts
<1>1. pc[c] = "open" /\ UNCHANGED call /\ result[c] = None /\ frames[c] = <<>>
  BY DEF SendRequest, CallInv, ToldLast, ReadSoFar, Waiting
<1>2. CASE \E code \in {"UNAVAILABLE", "INTERNAL"} : Fail(c, code) /\ UNCHANGED writer
  BY <1>1, <1>2, FailInv DEF Errors
<1>3. CASE /\ SetNow(c, Opened)
           /\ Goto(c, IF SingleRequest(c) THEN "sending" ELSE "response")
           /\ writer' = [writer EXCEPT ![c] = IF SingleRequest(c) THEN "off" ELSE "on"]
           /\ UNCHANGED <<failures, frames, result>>
  <2>1. /\ attempt(c) \in Attempts /\ attempt(c)' = attempt(c)
        /\ pc'[c] = IF SingleRequest(c) THEN "sending" ELSE "response"
        /\ stream'[c] = [stream[c] EXCEPT ![attempt(c)] = Opened]
        /\ writer'[c] = IF SingleRequest(c) THEN "off" ELSE "on"
    BY <1>0, <1>3, NowType DEF SetNow, Goto, CallTypes, attempt
  <2>2. now(c)' = Opened
    BY <1>0, <2>1 DEF now, CallTypes
  <2>3. ~Opened.seen /\ Opened.msgs = <<>> /\ ~Opened.ended
    BY DEF Opened, NoStream
  <2>4. Routes(c)'
    BY <1>1, <2>1 DEF CallInv, Routes, SingleRequest
  <2>5. Fresh(c)'
    BY <1>0, <2>1 DEF CallInv, Fresh, CallTypes, Waiting, Attempts
  <2>6. Streamed(c)'
    BY <1>0, <1>1, <2>1, <2>3 DEF CallInv, Streamed, CallTypes
  <2>7. HeadFirst(c)' /\ ReadSoFar(c)' /\ ToldLast(c)'
    BY <1>1, <1>3, <2>1, <2>2, <2>3 DEF HeadFirst, ReadSoFar, ToldLast, None
  <2>8. WriterFirst(c)'
    BY <1>1, <1>3, <2>1 DEF WriterFirst, SingleRequest, Waiting, None
  <2> QED
    BY <2>4, <2>5, <2>6, <2>7, <2>8 DEF CallInv
<1> QED
  BY <1>1, <1>2, <1>3 DEF SendRequest

\* The message of a single request goes into a stream of its own.
LEMMA MessageInv ==
    ASSUME TypeOK, NEW c \in Calls, CallInv(c), SendMessage(c)
    PROVE  CallInv(c)'
<1>0. CallTypes
  BY TypeParts
<1>1. /\ pc[c] = "sending" /\ SingleRequest(c) /\ UNCHANGED <<call, writer>>
      /\ result[c] = None /\ frames[c] = <<>>
  BY DEF SendMessage, CallInv, Routes, ToldLast, ReadSoFar
<1>2. CASE Fail(c, "INTERNAL")
  BY <1>1, <1>2, FailInv DEF Errors
<1>3. CASE /\ SetNow(c, IF Broken(c) THEN now(c) ELSE Sent(now(c)))
           /\ Goto(c, "response") /\ UNCHANGED <<failures, frames, result>>
  <2> DEFINE t == IF Broken(c) THEN now(c) ELSE Sent(now(c))
  <2>1. /\ attempt(c) \in Attempts /\ attempt(c)' = attempt(c) /\ now(c) \in Streams
        /\ pc'[c] = "response" /\ stream'[c] = [stream[c] EXCEPT ![attempt(c)] = t]
    BY <1>0, <1>3, NowType DEF SetNow, Goto, CallTypes, attempt
  <2>2. /\ t.seen = now(c).seen /\ t.msgs = now(c).msgs /\ t.ran = now(c).ran
        /\ t.ended => t.whole \/ (now(c).ended /\ t.whole = now(c).whole)
    BY <2>1 DEF Sent, Streams
  <2> HIDE DEF t
  <2>3. now(c)' = t
    BY <1>0, <2>1 DEF now, CallTypes
  <2>4. Routes(c)'
    BY <1>1, <2>1 DEF CallInv, Routes
  <2>5. Fresh(c)'
    BY <1>0, <1>1, <2>1 DEF CallInv, Fresh, CallTypes, Waiting, Attempts
  <2>6. Streamed(c)'
    BY <1>0, <1>1, <2>1, <2>2 DEF CallInv, Streamed, CallTypes, now
  <2>7. HeadFirst(c)' /\ ReadSoFar(c)' /\ ToldLast(c)'
    BY <1>1, <1>3, <2>1, <2>2, <2>3 DEF CallInv, HeadFirst, ReadSoFar, ToldLast, Waiting, None
  <2>8. WriterFirst(c)'
    BY <1>1, <1>3, <2>1 DEF CallInv, WriterFirst, SingleRequest, Waiting, None
  <2> QED
    BY <2>4, <2>5, <2>6, <2>7, <2>8 DEF CallInv
<1> QED
  BY <1>2, <1>3 DEF SendMessage

LEMMA HeadInv ==
    ASSUME TypeOK, NEW c \in Calls, CallInv(c), TakeHead(c) \/ TakeHeadOnce(c)
    PROVE  CallInv(c)'
<1>0. CallTypes /\ call[c] \in [shape : Shapes, via : {"client", "one_shot"}]
  BY TypeParts
<1>1. /\ pc[c] = "response" /\ result[c] = None /\ frames[c] = <<>>
      /\ UNCHANGED <<call, failures, writer, frames>>
      /\ SetNow(c, [now(c) EXCEPT !.seen = TRUE])
  BY DEF TakeHead, TakeHeadOnce, CallInv, ToldLast, ReadSoFar
<1> DEFINE t == [now(c) EXCEPT !.seen = TRUE]
<1>2. /\ attempt(c) \in Attempts /\ attempt(c)' = attempt(c) /\ now(c) \in Streams
      /\ stream'[c] = [stream[c] EXCEPT ![attempt(c)] = t]
  BY <1>0, <1>1, NowType DEF SetNow, CallTypes, attempt
<1>3. now(c)' = t
  <2>1. stream'[c][attempt(c)] = t
    BY <1>0, <1>2 DEF CallTypes
  <2> HIDE DEF t
  <2> QED
    BY <1>2, <2>1 DEF now
<1>4. /\ t.seen /\ t.msgs = now(c).msgs /\ t.ran = now(c).ran
      /\ t.ended = now(c).ended /\ t.whole = now(c).whole /\ t.msgs \in Seq(Sizes)
  BY <1>2 DEF Streams
<1>5. /\ TakeHead(c) => pc'[c] = CASE call[c].shape = "unary" -> "body"
                                   [] call[c].shape = "client_streaming" -> "join"
                                   [] OTHER -> "streaming"
      /\ TakeHeadOnce(c) => pc'[c] = "collect"
  BY <1>0 DEF TakeHead, TakeHeadOnce, Goto, CallTypes
<1>6. /\ result'[c] \in {None, "STREAM"}
      /\ result'[c] # None => pc'[c] = "streaming"
  BY <1>0, <1>1, <1>5 DEF TakeHead, TakeHeadOnce, CallTypes, SingleResponse, Shapes
<1>7. Routes(c)'
  BY <1>0, <1>1, <1>2, <1>5 DEF CallInv, Routes, TakeHead, TakeHeadOnce, Via, SingleResponse, Shapes
<1>8. Fresh(c)'
  BY <1>0, <1>1, <1>2, <1>5 DEF CallInv, Fresh, CallTypes, Waiting, Attempts, Shapes
<1>9. Streamed(c)'
  BY <1>0, <1>1, <1>2, <1>4 DEF CallInv, Streamed, CallTypes, now
<1>10. HeadFirst(c)'
  <2>1. pc'[c] \notin {"sending", "response"}
    BY <1>0, <1>5 DEF Shapes
  <2> QED
    BY <1>3, <1>4, <2>1 DEF HeadFirst
<1>11. ReadSoFar(c)'
  BY <1>1, <1>3, <1>4 DEF ReadSoFar
<1>12. WriterFirst(c)'
  <2>1. pc'[c] \notin Waiting
    BY <1>0, <1>5 DEF Waiting, Shapes
  <2>2. call[c].shape = "client_streaming" => pc'[c] # "body"
    BY <1>5
  <2> QED
    BY <1>1, <1>6, <2>1, <2>2 DEF CallInv, WriterFirst, SingleRequest, None
<1>13. ToldLast(c)'
  BY <1>6 DEF ToldLast, None
<1> QED
  BY <1>7, <1>8, <1>9, <1>10, <1>11, <1>12, <1>13 DEF CallInv

LEMMA JoinInv ==
    ASSUME TypeOK, NEW c \in Calls, CallInv(c), JoinWriter(c)
    PROVE  CallInv(c)'
<1>0. CallTypes
  BY TypeParts
<1>1. /\ pc[c] = "join" /\ result[c] = None /\ frames[c] = <<>> /\ now(c).seen
      /\ call[c].shape = "client_streaming" /\ Via(c, "client")
      /\ UNCHANGED <<call, writer>>
  BY DEF JoinWriter, CallInv, ToldLast, ReadSoFar, HeadFirst, Routes
<1>2. CASE \E code \in {"ABORTED", "INTERNAL"} : Fail(c, code)
  BY <1>1, <1>2, FailInv DEF Errors
<1>3. CASE writer[c] = "done" /\ Goto(c, "body") /\ UNCHANGED <<failures, stream, frames, result>>
  <2>1. pc'[c] = "body" /\ attempt(c)' = attempt(c) /\ now(c)' = now(c) /\ now(c).msgs \in Seq(Sizes)
    BY <1>0, <1>3, NowType DEF Goto, CallTypes, attempt, now, Streams
  <2>2. Routes(c)' /\ Fresh(c)' /\ Streamed(c)'
    BY <1>1, <1>3, <2>1 DEF CallInv, Routes, Fresh, Streamed, Via, SingleResponse, Waiting
  <2>3. HeadFirst(c)' /\ WriterFirst(c)' /\ ReadSoFar(c)' /\ ToldLast(c)'
    BY <1>1, <1>3, <2>1
    DEF CallInv, HeadFirst, WriterFirst, ReadSoFar, ToldLast, SingleRequest, Waiting, None
  <2> QED
    BY <2>2, <2>3 DEF CallInv
<1> QED
  BY <1>2, <1>3 DEF JoinWriter

\* A step of a reader, or the delivery of a whole body, that ends the call.
LEMMA EndInv ==
    ASSUME TypeOK, NEW c \in Calls, CallInv(c), pc[c] \notin Waiting,
           SetNow(c, Released(c)), UNCHANGED <<call, failures, writer>>,
           pc'[c] = "done" \/ (pc'[c] = "spinning" /\ Via(c, "one_shot") /\ result'[c] = None),
           result'[c] = "REPLY" =>
               /\ now(c).ran /\ now(c).seen /\ now(c).fin \in {"OK", "BARE"}
               /\ frames'[c] # <<>>
               /\ Via(c, "client") => frames'[c] = now(c).msgs
               /\ call[c] = [shape |-> "client_streaming", via |-> "client"]
                    => writer[c] = "done"
    PROVE  CallInv(c)'
<1>0. CallTypes
  BY TypeParts
<1>1. /\ attempt(c) \in Attempts /\ attempt(c)' = attempt(c)
      /\ now(c) \in Streams /\ Released(c) \in Streams
      /\ stream'[c] = [stream[c] EXCEPT ![attempt(c)] = Released(c)]
  BY <1>0, NowType DEF SetNow, CallTypes, attempt
<1>2. now(c)' = Released(c)
  BY <1>0, <1>1 DEF now, CallTypes
<1>3. /\ Released(c).msgs = now(c).msgs /\ Released(c).ran = now(c).ran
      /\ Released(c).seen = now(c).seen /\ Released(c).fin = now(c).fin
      /\ Released(c).ended = now(c).ended /\ Released(c).whole = now(c).whole
  BY <1>1 DEF Released, Streams
<1>4. Routes(c)'
  BY <1>1 DEF CallInv, Routes, Via
<1>5. Fresh(c)'
  BY <1>0, <1>1 DEF CallInv, Fresh, CallTypes, Waiting, Attempts
<1>6. Streamed(c)'
  BY <1>0, <1>1, <1>3 DEF CallInv, Streamed, CallTypes, now
<1>7. HeadFirst(c)' /\ ReadSoFar(c)'
  BY DEF HeadFirst, ReadSoFar, Waiting
<1>8. WriterFirst(c)'
  BY DEF CallInv, WriterFirst, SingleRequest, Waiting
<1>9. ToldLast(c)'
  BY <1>2, <1>3 DEF ToldLast, Via, None
<1> QED
  BY <1>4, <1>5, <1>6, <1>7, <1>8, <1>9 DEF CallInv

LEMMA ReadErrorInv ==
    ASSUME TypeOK, NEW c \in Calls, CallInv(c), NEW code \in Errors \cup {None},
           pc[c] \in {"body", "streaming"}, pc[c] = "streaming" \/ code # None,
           ReadError(c, code), UNCHANGED <<call, writer>>
    PROVE  CallInv(c)'
<1>0. CallTypes
  BY TypeParts
<1>1. CASE pc[c] = "streaming"
  <2>1. pc'[c] = "done" /\ SetNow(c, Released(c)) /\ UNCHANGED <<failures, frames, result>>
    BY <1>0, <1>1 DEF ReadError, Goto, CallTypes
  <2>2. result'[c] # "REPLY"
    BY <1>1, <2>1 DEF CallInv, ToldLast
  <2> QED
    BY <1>1, <2>1, <2>2, EndInv DEF Waiting
<1>2. CASE pc[c] = "body"
  <2>1. result[c] = None
    BY <1>2 DEF CallInv, ToldLast
  <2> QED
    BY <1>2, <2>1, FailInv DEF ReadError
<1> QED
  BY <1>1, <1>2

LEMMA ReadInv ==
    ASSUME TypeOK, NEW c \in Calls, CallInv(c), ReadMessage(c) \/ ReadBroken(c) \/ ReadEnd(c)
    PROVE  CallInv(c)'
<1>0. CallTypes
  BY TypeParts
<1>1. /\ pc[c] \in {"body", "streaming"} /\ Via(c, "client")
      /\ UNCHANGED <<call, writer>> /\ now(c).seen
      /\ pc[c] = "body" => result[c] = None
  BY DEF ReadMessage, ReadBroken, ReadEnd, Reading, CallInv, HeadFirst, ToldLast
<1>2. /\ now(c) \in Streams /\ now(c).msgs \in Seq(Sizes) /\ frames[c] \in Seq(Sizes)
      /\ Len(frames[c]) <= Len(now(c).msgs)
      /\ \A i \in 1..Len(frames[c]) : frames[c][i] = now(c).msgs[i]
      /\ now(c).msgs # <<>> => now(c).ran
  BY <1>0, <1>1, NowType DEF CallInv, ReadSoFar, Streamed, CallTypes, Streams, now
<1>3. CASE ReadMessage(c)
  <2> DEFINE size == now(c).msgs[Len(frames[c]) + 1]
  <2>1. CASE ReadError(c, "RESOURCE_EXHAUSTED")
    BY <1>1, <2>1, ReadErrorInv DEF Errors, None
  <2>2. CASE /\ frames' = [frames EXCEPT ![c] = Append(@, size)]
             /\ UNCHANGED <<pc, failures, stream, result>>
    <3>1. /\ Len(frames[c]) < Len(now(c).msgs)
          /\ frames'[c] = Append(frames[c], size)
      BY <1>0, <1>3, <2>2 DEF ReadMessage, unread, CallTypes
    <3>2. /\ Len(frames'[c]) <= Len(now(c).msgs)
          /\ \A i \in 1..Len(frames'[c]) : frames'[c][i] = now(c).msgs[i]
      BY <1>2, <3>1
    <3>3. attempt(c)' = attempt(c) /\ now(c)' = now(c)
      BY <2>2 DEF attempt, now
    <3>4. ReadSoFar(c)'
      BY <1>1, <2>2, <3>2, <3>3 DEF ReadSoFar, Waiting
    <3>5. ToldLast(c)'
      BY <1>1, <2>2 DEF CallInv, ToldLast
    <3>6. Routes(c)' /\ Fresh(c)' /\ HeadFirst(c)' /\ WriterFirst(c)' /\ Streamed(c)'
      BY <1>1, <2>2, <3>3
      DEF CallInv, Routes, Fresh, HeadFirst, WriterFirst, Streamed, Via, SingleRequest,
          SingleResponse
    <3> QED
      BY <3>4, <3>5, <3>6 DEF CallInv
  <2> QED
    BY <1>3, <2>1, <2>2 DEF ReadMessage
<1>4. CASE ReadBroken(c)
  BY <1>1, <1>4, ReadErrorInv DEF ReadBroken, Errors, None
<1>5. CASE ReadEnd(c)
  <2>0. ~unread(c) /\ now(c).fin # None
    BY <1>5 DEF ReadEnd
  <2>1. CASE now(c).fin \in Errors /\ ReadError(c, now(c).fin)
    BY <1>1, <2>0, <2>1, ReadErrorInv
  <2>2. CASE pc[c] = "streaming" /\ ReadError(c, None)
    BY <1>1, <2>2, ReadErrorInv
  <2>3. CASE pc[c] = "body" /\ Fail(c, "INTERNAL")
    BY <1>1, <2>3, FailInv DEF Errors
  <2>4. CASE /\ pc[c] = "body" /\ now(c).fin \notin Errors /\ frames[c] # <<>>
             /\ Succeed(c) /\ UNCHANGED frames
    <3>1. /\ pc'[c] = "done" /\ SetNow(c, Released(c)) /\ UNCHANGED failures
      BY <1>0, <2>4 DEF Succeed, Goto, CallTypes
    <3>2. now(c).fin \in {"OK", "BARE"}
      BY <1>2, <2>0, <2>4 DEF Streams
    <3>3. Len(frames[c]) = Len(now(c).msgs)
      BY <1>2, <2>0 DEF unread
    <3>4. frames[c] = now(c).msgs
      BY <1>2, <3>3, SeqEqual
    <3>5. now(c).ran
      BY <1>2, <2>4, <3>4
    <3>6. call[c] = [shape |-> "client_streaming", via |-> "client"] => writer[c] = "done"
      BY <2>4 DEF CallInv, WriterFirst
    <3> QED
      BY <1>1, <2>4, <3>1, <3>2, <3>4, <3>5, <3>6, EndInv DEF Waiting
  <2> QED
    BY <1>1, <1>5, <2>1, <2>2, <2>3, <2>4 DEF ReadEnd
<1> QED
  BY <1>3, <1>4, <1>5

LEMMA DeliverInv ==
    ASSUME TypeOK, NEW c \in Calls, CallInv(c), Deliver(c)
    PROVE  CallInv(c)'
<1>0. CallTypes
  BY TypeParts
<1>1. /\ pc[c] = "collect" /\ Via(c, "one_shot") /\ ~Via(c, "client")
      /\ UNCHANGED <<call, failures, writer>> /\ SetNow(c, Released(c))
      /\ result[c] = None /\ now(c).seen /\ now(c).fin # None
  BY DEF Deliver, CallInv, Routes, ToldLast, HeadFirst, Via
<1>2. /\ now(c) \in Streams /\ now(c).msgs \in Seq(Sizes)
      /\ now(c).msgs # <<>> => now(c).ran
  BY <1>0, NowType DEF CallInv, Streamed, Streams, now
<1>3. ASSUME NEW code \in {"PANIC", "INTERNAL", "STREAM"} \cup Errors, Told(c, code)
      PROVE  CallInv(c)'
  <2>1. pc'[c] = "done" /\ result'[c] # "REPLY"
    BY <1>0, <1>3 DEF Told, Goto, CallTypes, Errors
  <2> QED
    BY <1>1, <2>1, EndInv DEF Waiting
<1>4. CASE SingleResponse(c) /\ now(c).fin \in Errors
  BY <1>3, <1>4 DEF Deliver
<1>5. CASE ~(SingleResponse(c) /\ now(c).fin \in Errors)
  <2>1. PICK split \in SplitFrames(now(c).msgs) :
          \/ \E code \in {"PANIC", "INTERNAL"} : Told(c, code)
          \/ Goto(c, "spinning") /\ UNCHANGED result
          \/ /\ frames' = [frames EXCEPT ![c] = split.frames]
             /\ Told(c, IF SingleResponse(c) THEN "REPLY" ELSE "STREAM")
             /\ SingleResponse(c) => split.frames # <<>>
    BY <1>5 DEF Deliver
  <2>2. CASE Goto(c, "spinning") /\ UNCHANGED result
    <3>1. pc'[c] = "spinning" /\ result'[c] = None
      BY <1>0, <1>1, <2>2 DEF Goto, CallTypes
    <3> QED
      BY <1>1, <3>1, EndInv DEF Waiting, None
  <2>3. CASE /\ SingleResponse(c) /\ Told(c, "REPLY") /\ split.frames # <<>>
             /\ frames' = [frames EXCEPT ![c] = split.frames]
    <3>1. pc'[c] = "done" /\ frames'[c] = split.frames
      BY <1>0, <2>3 DEF Told, Goto, CallTypes
    <3>2. now(c).msgs # <<>>
      BY <1>2, <2>3, SplitType
    <3>3. now(c).fin \in {"OK", "BARE"}
      BY <1>1, <1>2, <1>5, <2>3 DEF Streams
    <3>4. call[c] # [shape |-> "client_streaming", via |-> "client"]
      BY <1>1 DEF Via
    <3> QED
      BY <1>1, <1>2, <2>3, <3>1, <3>2, <3>3, <3>4, EndInv DEF Waiting
  <2> QED
    BY <1>3, <2>1, <2>2, <2>3
<1> QED
  BY <1>4, <1>5

LEMMA CallInvStep ==
    ASSUME TypeOK, [Next]_vars, NEW c \in Calls, CallInv(c)
    PROVE  CallInv(c)'
<1>1. CASE Same(c)
  BY <1>1, Unaffected
<1>2. CASE CallStep(c)
  <2>1. CASE LoseHead(c)
    BY <2>1, FailInv DEF LoseHead, CallInv, ToldLast, Errors
  <2>2. CASE CollectFails(c)
    BY <2>2, FailInv DEF CollectFails, CallInv, ToldLast, Errors
  <2> QED
    BY <1>2, <2>1, <2>2, ConnectInv, SendInv, MessageInv, HeadInv, JoinInv, ReadInv, DeliverInv,
       FeedInv, PeerInv DEF CallStep, ClientStep, OneShotStep, Connected
<1> QED
  BY <1>1, <1>2, StepOfACall

\* The invariant of all calls, in every state of the specification.
LEMMA CallsInvariant == Spec => [](TypeOK /\ \A c \in Calls : CallInv(c))
<1>1. Init => \A c \in Calls : CallInv(c)
  <2> SUFFICES ASSUME Init, NEW c \in Calls PROVE CallInv(c)
    OBVIOUS
  <2>1. /\ pc[c] = "idle" /\ attempt(c) = 0 /\ writer[c] = "off" /\ frames[c] = <<>>
        /\ result[c] = None /\ \A a \in Attempts : stream[c][a] = NoStream
    BY DEF Init, InitWith, attempt
  <2> QED
    BY <2>1 DEF CallInv, Routes, Fresh, HeadFirst, WriterFirst, ReadSoFar, Streamed, ToldLast,
       Waiting, NoStream, None
<1>2. ASSUME TypeOK, \A c \in Calls : CallInv(c), [Next]_vars
      PROVE  (\A c \in Calls : CallInv(c))'
  BY <1>2, CallInvStep
<1> QED
  BY <1>1, <1>2, TypeCorrect, PTL DEF Spec

\* A request stream that failed is never presented to the server as whole,
\* whatever the transport, unless bidi_streaming() of the client is used, and
\* client_streaming() reports the failure (client.rs:576).
THEOREM CutRequestsAlwaysShow == Spec => []CutRequestsShow
<1>1. TypeOK /\ (\A c \in Calls : CallInv(c)) => CutRequestsShow
  BY DEF CallInv, Streamed, WriterFirst, CutRequestsShow
<1> QED
  BY <1>1, CallsInvariant, PTL

\* What a caller gets as its reply is all of a response that was read to its
\* end, of a run the server finished: with OK, or without trailers, which the
\* client takes for OK (client.rs:359-372, 393).
THEOREM RepliesAreAlwaysFinal == Spec => []RepliesAreFinal
<1>1. (\A c \in Calls : CallInv(c)) => RepliesAreFinal
  BY DEF CallInv, ToldLast, RepliesAreFinal
<1> QED
  BY <1>1, CallsInvariant, PTL

-----------------------------------------------------------------------------
\* Attempts that are over.

Alike(s, t) == t.seen = s.seen /\ t.msgs = s.msgs /\ t.fin = s.fin

\* Attempts before the current one stay as they were; the current one is
\* followed by another only if it may be.
Past(c) ==
    /\ \A a \in Attempts \ {attempt(c)} : Alike(stream[c][a], stream'[c][a])
    /\ \/ failures'[c] = failures[c]
       \/ /\ Len(failures'[c]) = attempt(c) + 1
          /\ Alike(now(c), stream'[c][attempt(c)])
          /\ now(c).seen => Repeatable(now(c))

LEMMA FailPast ==
    ASSUME CallTypes, NEW c \in Calls, NEW code \in Errors, Fail(c, code),
           (now(c).seen /\ code \in Retryable /\ call[c].shape = "unary" /\ Via(c, "client"))
             => Repeatable(now(c))
    PROVE  Past(c)
<1>1. /\ attempt(c) \in Attempts /\ now(c) \in Streams /\ Released(c) \in Streams
      /\ SetNow(c, Released(c))
  BY NowType DEF Fail
<1>2. /\ \A a \in Attempts \ {attempt(c)} : stream'[c][a] = stream[c][a]
      /\ stream'[c][attempt(c)] = Released(c)
  BY <1>1, SetNowType
<1>3. Alike(now(c), Released(c))
  BY <1>1 DEF Released, Alike, Streams
<1>4. CASE /\ call[c].shape = "unary" /\ Via(c, "client") /\ code \in Retryable
           /\ failures' = [failures EXCEPT ![c] = Append(@, code)]
  <2>1. Len(failures'[c]) = attempt(c) + 1
    BY <1>4, AppendProperties DEF CallTypes, attempt
  <2> QED
    BY <1>2, <1>3, <1>4, <2>1 DEF Past, Alike
<1>5. CASE UNCHANGED failures
  BY <1>2, <1>5 DEF Past, Alike
<1> QED
  BY <1>4, <1>5 DEF Fail

LEMMA KeptPast ==
    ASSUME CallTypes, NEW c \in Calls, UNCHANGED failures,
           UNCHANGED stream \/ \E t \in Streams : SetNow(c, t)
    PROVE  Past(c)
BY SetNowType DEF Past, Alike

LEMMA ReadErrorPast ==
    ASSUME CallTypes, NEW c \in Calls, NEW code \in Errors \cup {None},
           pc[c] = "streaming" \/ code # None, ReadError(c, code),
           code \in Retryable => Repeatable(now(c))
    PROVE  Past(c)
<1>1. CASE pc[c] = "streaming"
  BY <1>1, NowType, KeptPast DEF ReadError
<1>2. CASE pc[c] # "streaming"
  BY <1>2, FailPast DEF ReadError
<1> QED
  BY <1>1, <1>2

LEMMA PastStep ==
    ASSUME "INTERNAL" \notin Retryable, TypeOK, NEW c \in Calls, CallInv(c), CallStep(c)
    PROVE  Past(c)
<1>0. /\ CallTypes /\ lastErr[c] \in Errors
      /\ attempt(c) \in Attempts /\ now(c) \in Streams
      /\ Retryable \subseteq Errors /\ None \notin Errors
  BY TypeParts, NowType DEF LinkTypes, Errors, None
<1>1. pc[c] \in Waiting \cup {"sending", "response"} => ~now(c).seen
  BY <1>0 DEF CallInv, Fresh, HeadFirst, now, NoStream
<1>2. CASE Begin(c) \/ LookUp(c) \/ Dial(c) \/ Handshake(c) \/ BackedOff(c)
  BY <1>0, <1>2, KeptPast DEF Begin, LookUp, Dial, Handshake, BackedOff
<1>3. CASE NoEndpointLeft(c)
  BY <1>0, <1>1, <1>3, FailPast DEF NoEndpointLeft, Waiting
<1>4. CASE SendRequest(c) \/ SendMessage(c)
  <2>1. CASE \E code \in {"UNAVAILABLE", "INTERNAL"} : Fail(c, code)
    BY <1>0, <1>1, <1>4, <2>1, FailPast DEF SendRequest, SendMessage, Waiting, Errors
  <2>2. CASE \E t \in {Opened, now(c), Sent(now(c))} : SetNow(c, t) /\ UNCHANGED failures
    BY <1>0, <2>2, StreamTypes, KeptPast
  <2> QED
    BY <1>4, <2>1, <2>2 DEF SendRequest, SendMessage
<1>5. CASE TakeHead(c) \/ TakeHeadOnce(c)
  BY <1>0, <1>5, StreamTypes, KeptPast DEF TakeHead, TakeHeadOnce
<1>6. CASE LoseHead(c)
  BY <1>0, <1>1, <1>6, FailPast DEF LoseHead, Errors
<1>7. CASE JoinWriter(c)
  <2>1. call[c].shape = "client_streaming"
    BY <1>7 DEF JoinWriter, CallInv, Routes
  <2>2. CASE \E code \in {"ABORTED", "INTERNAL"} : Fail(c, code)
    BY <1>0, <2>1, <2>2, FailPast DEF Errors
  <2>3. CASE UNCHANGED <<failures, stream>>
    BY <1>0, <2>3, KeptPast
  <2> QED
    BY <1>7, <2>2, <2>3 DEF JoinWriter
<1>8. CASE ReadMessage(c)
  <2>1. CASE UNCHANGED <<failures, stream>>
    BY <1>0, <2>1, KeptPast
  <2>2. CASE /\ now(c).msgs[Len(frames[c]) + 1] > MaxMessageSize
             /\ ReadError(c, "RESOURCE_EXHAUSTED")
    <3>1. frames[c] \in Seq(Sizes) /\ now(c).msgs \in Seq(Sizes)
      BY <1>0 DEF CallTypes, Streams
    <3>2. Len(frames[c]) + 1 \in DOMAIN now(c).msgs
      BY <1>8, <3>1 DEF ReadMessage, unread
    <3>3. "RESOURCE_EXHAUSTED" \in Retryable => Repeatable(now(c))
      BY <2>2, <3>2 DEF Repeatable
    <3> QED
      BY <1>0, <2>2, <3>3, ReadErrorPast DEF Errors, None
  <2> QED
    BY <1>8, <2>1, <2>2 DEF ReadMessage
<1>9. CASE ReadBroken(c)
  BY <1>0, <1>9, ReadErrorPast DEF ReadBroken, Errors, None
<1>10. CASE ReadEnd(c)
  <2>1. CASE now(c).fin \in Errors /\ ReadError(c, now(c).fin)
    BY <1>0, <2>1, ReadErrorPast DEF Repeatable
  <2>2. CASE pc[c] = "streaming" /\ ReadError(c, None)
    BY <1>0, <2>2, ReadErrorPast
  <2>3. CASE Fail(c, "INTERNAL")
    BY <1>0, <2>3, FailPast DEF Errors
  <2>4. CASE Succeed(c)
    BY <1>0, <2>4, NowType, KeptPast DEF Succeed
  <2> QED
    BY <1>10, <2>1, <2>2, <2>3, <2>4 DEF ReadEnd
<1>11. CASE Prepare(c) \/ DialOnce(c)
  <2>1. CASE \E code \in {"INTERNAL", "UNAVAILABLE"} : Fail(c, code)
    BY <1>0, <1>1, <1>11, <2>1, FailPast DEF Prepare, DialOnce, Waiting, Errors
  <2>2. CASE UNCHANGED <<failures, stream>>
    BY <1>0, <2>2, KeptPast
  <2> QED
    BY <1>11, <2>1, <2>2 DEF Prepare, DialOnce
<1>12. CASE CollectFails(c)
  <2>1. ~Via(c, "client")
    BY <1>12 DEF CollectFails, CallInv, Routes, Via
  <2> QED
    BY <1>0, <1>12, <2>1, FailPast DEF CollectFails, Errors
<1>13. CASE Deliver(c)
  BY <1>0, <1>13, NowType, KeptPast DEF Deliver
<1>14. CASE WriterStep(c) \/ DriverSteps(c)
  <2>1. \E t \in Streams, w \in {"on", "failed", "done"} : Feed(c, t, w)
    BY <1>0, <1>14, StreamTypes
    DEF WriterStep, DriverSteps, WriterSends, SourceEnds, SourceFails
  <2> QED
    BY <1>0, <2>1, KeptPast DEF Feed
<1>15. CASE PeerAnswers(c) \/ PeerResets(c)
  <2>1. \E t : Answer(c, attempt(c), t)
    BY <1>15 DEF PeerAnswers, PeerResets
  <2> QED
    BY <1>0, <2>1 DEF Answer, Past, Alike, CallTypes
<1>16. ASSUME NEW a \in Attempts, PeerRuns(c, a)
       PROVE  Past(c)
  <2>1. /\ stream' = [stream EXCEPT ![c][a] = [stream[c][a] EXCEPT !.ran = TRUE]]
        /\ failures' = failures /\ stream[c][a] \in Streams
    BY <1>0, <1>16 DEF PeerRuns, Answer, CallTypes
  <2>2. Alike(stream[c][a], [stream[c][a] EXCEPT !.ran = TRUE])
    BY <2>1 DEF Alike, Streams
  <2> QED
    BY <1>0, <2>1, <2>2 DEF Past, Alike, CallTypes
<1> QED
  BY <1>2, <1>3, <1>4, <1>5, <1>6, <1>7, <1>8, <1>9, <1>10, <1>11, <1>12, <1>13, <1>14, <1>15,
     <1>16 DEF CallStep, ClientStep, OneShotStep, Connected, PeerStep

\* A policy that does not name INTERNAL never repeats what was settled.
LEMMA SettledStep ==
    ASSUME "INTERNAL" \notin Retryable, TypeOK, [Next]_vars,
           NEW c \in Calls, CallInv(c), Settled(c)
    PROVE  Settled(c)'
<1>1. CASE Same(c)
  BY <1>1 DEF Same, Settled, Repeatable, attempt
<1>2. CASE CallStep(c)
  <2>1. Past(c) /\ attempt(c) \in Nat
    BY <1>2, PastStep, TypeParts, NowType
  <2>2. SUFFICES ASSUME NEW a \in Attempts, a < Len(failures'[c]), stream'[c][a].seen
                 PROVE  Repeatable(stream'[c][a])
    BY DEF Settled, attempt, Repeatable
  <2>3. CASE a # attempt(c)
    <3>1. a < attempt(c)
      BY <2>1, <2>2, <2>3 DEF Past, attempt, Attempts
    <3> QED
      BY <2>1, <2>2, <2>3, <3>1 DEF Past, Alike, Settled, Repeatable
  <2>4. CASE a = attempt(c)
    <3>1. failures'[c] # failures[c]
      BY <2>1, <2>2, <2>4 DEF attempt
    <3> QED
      BY <2>1, <2>2, <2>4, <3>1 DEF Past, Alike, Repeatable
  <2> QED
    BY <2>3, <2>4
<1> QED
  BY <1>1, <1>2, StepOfACall

\* A retry never repeats what the client knows to be settled, for every
\* policy that does not name INTERNAL, the status of a connection lost behind
\* the head; the default one names UNAVAILABLE and RESOURCE_EXHAUSTED
\* (client.rs:63).
THEOREM NothingSettledIsRepeated ==
    ASSUME "INTERNAL" \notin Retryable
    PROVE  Spec => []SettledIsNotRepeated
<1>1. Init => \A c \in Calls : Settled(c)
  BY DEF Init, InitWith, Settled, attempt, Attempts
<1>2. ASSUME TypeOK, \A c \in Calls : CallInv(c), \A c \in Calls : Settled(c), [Next]_vars
      PROVE  (\A c \in Calls : Settled(c))'
  BY <1>2, SettledStep
<1>3. Spec => []((\A c \in Calls : CallInv(c)) /\ \A c \in Calls : Settled(c))
  BY <1>1, <1>2, CallsInvariant, PTL DEF Spec
<1>4. TypeOK /\ (\A c \in Calls : CallInv(c)) /\ (\A c \in Calls : Settled(c))
        => SettledIsNotRepeated
  <2> SUFFICES ASSUME TypeOK, NEW c \in Calls, CallInv(c), Settled(c),
                      NEW a \in Attempts \ {0},
                      stream[c][a].state # "none", stream[c][a - 1].seen
               PROVE  Repeatable(stream[c][a - 1])
    BY DEF SettledIsNotRepeated, Repeatable
  <2>1. a - 1 \in Attempts /\ attempt(c) \in Nat
    BY TypeParts, NowType DEF Attempts
  <2>2. a <= attempt(c)
    BY <2>1 DEF CallInv, Fresh, NoStream, Attempts
  <2> QED
    BY <2>1, <2>2 DEF Settled, Attempts
<1> QED
  BY <1>3, <1>4, TypeCorrect, PTL

-----------------------------------------------------------------------------
\* The promise of a call.

\* How often a call may run, as the refinement mapping has it.
mayRun(c) == IF call[c] = [shape |-> "unary", via |-> "client"] THEN MaxRetries + 1 ELSE 1

\* An attempt runs once, so a call does at most once per attempt.
LEMMA RunsAreAttempts ==
    ASSUME TypeOK, NEW c \in Calls, CallInv(c)
    PROVE  /\ IsFiniteSet(ran(c)) /\ Cardinality(ran(c)) \in Nat
           /\ \A a \in 0..attempt(c) \ ran(c) : Cardinality(ran(c)) < mayRun(c)
<1>1. attempt(c) \in Nat /\ attempt(c) <= MaxRetries
  BY TypeParts, NowType DEF Attempts
<1>2. ran(c) \subseteq 0..attempt(c)
  BY <1>1 DEF ran, CallInv, Fresh, NoStream, Attempts
<1>3. IsFiniteSet(0..attempt(c)) /\ Cardinality(0..attempt(c)) = attempt(c) + 1
  BY <1>1, FS_Interval
<1>4. IsFiniteSet(ran(c)) /\ Cardinality(ran(c)) \in Nat
  BY <1>2, <1>3, FS_Subset, FS_CardinalityType
<1>5. attempt(c) + 1 <= mayRun(c) /\ mayRun(c) \in Nat
  BY <1>1 DEF CallInv, Routes, mayRun
<1>6. ASSUME NEW a \in 0..attempt(c) \ ran(c)
      PROVE  Cardinality(ran(c)) < mayRun(c)
  <2> DEFINE S == 0..attempt(c)
  <2>1. IsFiniteSet(S \ {a}) /\ Cardinality(S \ {a}) = attempt(c)
    <3>1. IsFiniteSet(S) /\ Cardinality(S) = attempt(c) + 1 /\ a \in S
      BY <1>3, <1>6
    <3> HIDE DEF S
    <3>2. IsFiniteSet(S \ {a}) /\ Cardinality(S \ {a}) = Cardinality(S) - 1
      BY <3>1, FS_RemoveElement
    <3> QED
      BY <1>1, <3>1, <3>2
  <2>2. ran(c) \subseteq S \ {a}
    BY <1>2, <1>6
  <2>3. Cardinality(ran(c)) <= attempt(c)
    BY <2>1, <2>2, FS_Subset
  <2> QED
    BY <1>1, <1>4, <1>5, <2>3
<1> QED
  BY <1>4, <1>6

\* A step of a call is a run, or tells an outcome that was not told, or is
\* neither.
RunStep(c) == /\ result'[c] = result[c]
              /\ \E a \in 0..attempt(c) \ ran(c) : ran(c)' = ran(c) \cup {a}
TellStep(c) == (result'[c] = result[c] \/ result[c] = None) /\ ran(c)' = ran(c)

LEMMA RanKept ==
    ASSUME CallTypes, NEW c \in Calls,
           \/ UNCHANGED stream
           \/ \E t \in Streams : SetNow(c, t) /\ t.ran = now(c).ran
    PROVE  ran(c)' = ran(c)
<1>1. CASE UNCHANGED stream
  BY <1>1 DEF ran
<1>2. ASSUME NEW t \in Streams, SetNow(c, t), t.ran = now(c).ran
      PROVE  ran(c)' = ran(c)
  BY <1>2, SetNowType DEF ran, now
<1> QED
  BY <1>1, <1>2

LEMMA FailTells ==
    ASSUME CallTypes, NEW c \in Calls, NEW code, Fail(c, code), result[c] = None
    PROVE  TellStep(c)
<1>1. SetNow(c, Released(c)) /\ Released(c) \in Streams /\ Released(c).ran = now(c).ran
  BY NowType DEF Fail, Released, Streams
<1> QED
  BY <1>1, RanKept DEF TellStep

LEMMA PromiseStep ==
    ASSUME TypeOK, NEW c \in Calls, CallInv(c), CallStep(c)
    PROVE  RunStep(c) \/ TellStep(c)
<1>0. /\ CallTypes /\ attempt(c) \in Attempts /\ now(c) \in Streams
      /\ Released(c) \in Streams /\ Released(c).ran = now(c).ran
  BY TypeParts, NowType DEF Released, Streams
<1>1. pc[c] \notin {"streaming", "done"} => result[c] = None
  BY DEF CallInv, ToldLast
<1>2. CASE Begin(c) \/ LookUp(c) \/ Dial(c) \/ Handshake(c) \/ BackedOff(c)
  BY <1>0, <1>2, RanKept DEF Begin, LookUp, Dial, Handshake, BackedOff, TellStep
<1>3. CASE NoEndpointLeft(c) \/ LoseHead(c) \/ CollectFails(c)
  BY <1>0, <1>1, <1>3, FailTells DEF NoEndpointLeft, LoseHead, CollectFails
<1>4. CASE SendRequest(c) \/ SendMessage(c)
  <2>1. pc[c] \in {"open", "sending"} /\ result[c] = None
    BY <1>1, <1>4 DEF SendRequest, SendMessage
  <2>2. CASE \E code \in {"UNAVAILABLE", "INTERNAL"} : Fail(c, code)
    BY <1>0, <2>1, <2>2, FailTells
  <2>3. CASE pc[c] = "open" /\ SetNow(c, Opened) /\ UNCHANGED result
    <3>1. now(c) = NoStream
      BY <1>0, <2>3 DEF CallInv, Fresh, Waiting, now
    <3>2. Opened.ran = now(c).ran /\ Opened \in Streams
      BY <3>1, StreamTypes DEF Opened, NoStream
    <3> QED
      BY <1>0, <2>3, <3>2, RanKept DEF TellStep
  <2>4. CASE \E t \in {now(c), Sent(now(c))} : SetNow(c, t) /\ UNCHANGED result
    <3>1. Sent(now(c)) \in Streams
      BY <1>0, StreamTypes
    <3>2. Sent(now(c)).ran = now(c).ran
      BY <1>0 DEF Sent, Streams
    <3> QED
      BY <1>0, <2>4, <3>1, <3>2, RanKept DEF TellStep
  <2> QED
    BY <1>4, <2>2, <2>3, <2>4 DEF SendRequest, SendMessage
<1>5. CASE TakeHead(c) \/ TakeHeadOnce(c)
  <2>1. [now(c) EXCEPT !.seen = TRUE] \in Streams /\ [now(c) EXCEPT !.seen = TRUE].ran = now(c).ran
    BY <1>0 DEF Streams
  <2> QED
    BY <1>0, <1>1, <1>5, <2>1, RanKept DEF TakeHead, TakeHeadOnce, TellStep
<1>6. CASE JoinWriter(c) \/ Prepare(c) \/ DialOnce(c)
  <2>1. result[c] = None
    BY <1>1, <1>6 DEF JoinWriter, Prepare, DialOnce
  <2>2. (\E code : Fail(c, code)) \/ UNCHANGED <<stream, result>>
    BY <1>6 DEF JoinWriter, Prepare, DialOnce
  <2> QED
    BY <1>0, <2>1, <2>2, FailTells, RanKept DEF TellStep
<1>7. CASE ReadMessage(c) \/ ReadBroken(c) \/ ReadEnd(c)
  <2>1. pc[c] = "streaming" \/ result[c] = None
    BY <1>1, <1>7 DEF ReadMessage, ReadBroken, ReadEnd, Reading
  <2>2. CASE \E code : ReadError(c, code)
    <3>1. CASE pc[c] = "streaming"
      BY <1>0, <2>2, <3>1, RanKept DEF ReadError, TellStep
    <3>2. CASE pc[c] # "streaming"
      BY <1>0, <2>1, <2>2, <3>2, FailTells DEF ReadError
    <3> QED
      BY <3>1, <3>2
  <2>3. CASE UNCHANGED <<stream, result>>
    BY <1>0, <2>3, RanKept DEF TellStep
  <2>4. CASE pc[c] # "streaming" /\ (Succeed(c) \/ \E code : Fail(c, code))
    BY <1>0, <2>1, <2>4, FailTells, RanKept DEF Succeed, TellStep
  <2> QED
    BY <1>7, <2>2, <2>3, <2>4 DEF ReadMessage, ReadBroken, ReadEnd, Reading
<1>8. CASE Deliver(c)
  BY <1>0, <1>1, <1>8, RanKept DEF Deliver, TellStep
<1>9. CASE WriterStep(c) \/ DriverSteps(c)
  <2>1. \E t \in Streams, w \in {"on", "failed", "done"} : Feed(c, t, w) /\ t.ran = now(c).ran
    <3>1. /\ [now(c) EXCEPT !.ended = TRUE].ran = now(c).ran
          /\ [now(c) EXCEPT !.ended = TRUE, !.whole = TRUE].ran = now(c).ran
          /\ [now(c) EXCEPT !.sent = @ + 1].ran = now(c).ran
      BY <1>0 DEF Streams
    <3>2. /\ [now(c) EXCEPT !.ended = TRUE] \in Streams
          /\ [now(c) EXCEPT !.ended = TRUE, !.whole = TRUE] \in Streams
          /\ now(c).sent < MaxRequests => [now(c) EXCEPT !.sent = @ + 1] \in Streams
      BY <1>0, StreamTypes
    <3> QED
      BY <1>0, <1>9, <3>1, <3>2
      DEF WriterStep, DriverSteps, WriterSends, SourceEnds, SourceFails
  <2> QED
    BY <1>0, <2>1, RanKept DEF Feed, TellStep
<1>10. CASE PeerAnswers(c) \/ PeerResets(c)
  <2>1. PICK t : Answer(c, attempt(c), t) /\ t.ran = now(c).ran
    <3>1. /\ [now(c) EXCEPT !.head = TRUE].ran = now(c).ran
          /\ \A n : [now(c) EXCEPT !.msgs = Append(@, n)].ran = now(c).ran
          /\ \A f : /\ [now(c) EXCEPT !.fin = f].ran = now(c).ran
                  /\ [now(c) EXCEPT !.head = TRUE, !.fin = f].ran = now(c).ran
          /\ [now(c) EXCEPT !.state = "reset"].ran = now(c).ran
      BY <1>0 DEF Streams
    <3> QED
      BY <1>10, <3>1 DEF PeerAnswers, PeerResets
  <2> QED
    BY <1>0, <2>1 DEF Answer, TellStep, ran, now, CallTypes
<1>11. ASSUME NEW a \in Attempts, PeerRuns(c, a)
       PROVE  RunStep(c)
  <2>1. /\ stream' = [stream EXCEPT ![c][a] = [stream[c][a] EXCEPT !.ran = TRUE]]
        /\ result' = result /\ ~stream[c][a].ran /\ stream[c][a] \in Streams
    BY <1>0, <1>11 DEF PeerRuns, Answer, CallTypes
  <2>2. stream'[c][a].ran /\ \A b \in Attempts \ {a} : stream'[c][b] = stream[c][b]
    BY <1>0, <2>1 DEF CallTypes, Streams
  <2>3. a \notin ran(c) /\ ran(c)' = ran(c) \cup {a}
    BY <2>1, <2>2 DEF ran
  <2>4. a \in 0..attempt(c)
    BY <1>0, <1>11 DEF PeerRuns, CallInv, Fresh, NoStream, Attempts
  <2> QED
    BY <2>1, <2>3, <2>4 DEF RunStep
<1> QED
  BY <1>2, <1>3, <1>4, <1>5, <1>6, <1>7, <1>8, <1>9, <1>10, <1>11
  DEF CallStep, ClientStep, OneShotStep, Connected, PeerStep

\* Both transports keep the promise of a call: every step of the client, the
\* transport and the peer is a run, an outcome, or nothing to the caller.
THEOREM TransportsKeepThePromise == Spec => KeepsPromise
<1> DEFINE limit == [c \in Calls |-> mayRun(c)]
           outcome == [c \in Calls |-> IF result[c] = None THEN "PENDING" ELSE result[c]]
           runs == [c \in Calls |-> Cardinality(ran(c))]
<1>1. Init => Promise!Init
  <2> SUFFICES ASSUME Init PROVE Promise!Init
    OBVIOUS
  <2>1. \A c \in Calls : mayRun(c) \in Nat \ {0}
    BY DEF mayRun
  <2>2. \A c \in Calls : ran(c) = {}
    BY DEF Init, InitWith, ran, NoStream
  <2>3. \A c \in Calls : Cardinality(ran(c)) = 0
    BY <2>2, FS_EmptySet
  <2>4. \A c \in Calls : result[c] = None
    BY DEF Init, InitWith
  <2> QED
    BY <2>1, <2>3, <2>4 DEF Promise!Init, mayRun
<1>2. ASSUME TypeOK, \A c \in Calls : CallInv(c), [Next]_vars,
             TypeOK', (\A c \in Calls : CallInv(c))'
      PROVE  [Promise!Next]_<<limit, outcome, runs>>
  <2>1. UNCHANGED limit
    BY <1>2, CallKept DEF mayRun
  <2>2. ASSUME NEW d \in Calls, Same(d)
        PROVE  result'[d] = result[d] /\ ran(d)' = ran(d)
    BY <2>2 DEF Same, ran
  <2>3. CASE \A d \in Calls : Same(d)
    BY <2>1, <2>2, <2>3
  <2>4. ASSUME NEW c \in Calls, CallStep(c), \A d \in Calls \ {c} : Same(d)
        PROVE  [Promise!Next]_<<limit, outcome, runs>>
    <3>1. CASE RunStep(c)
      <4>1. Cardinality(ran(c)') = Cardinality(ran(c)) + 1
        BY <1>2, <3>1, RunsAreAttempts, FS_AddElement DEF RunStep
      <4>2. Cardinality(ran(c)) < mayRun(c)
        BY <1>2, <3>1, RunsAreAttempts DEF RunStep
      <4>3. runs' = [runs EXCEPT ![c] = @ + 1] /\ UNCHANGED outcome
        BY <2>2, <2>4, <3>1, <4>1 DEF RunStep
      <4> QED
        BY <2>1, <4>2, <4>3 DEF Promise!Next, Promise!Run, mayRun
    <3>2. CASE TellStep(c) /\ result'[c] = result[c]
      BY <2>1, <2>2, <2>4, <3>2 DEF TellStep
    <3>3. CASE TellStep(c) /\ result'[c] # result[c]
      <4>1. result[c] = None /\ result'[c] # None /\ UNCHANGED runs
        BY <2>2, <2>4, <3>3 DEF TellStep
      <4>2. result'[c] \in Results /\ result'[c] \in Promise!Outcomes \ {"PENDING"}
        BY <1>2, <4>1 DEF TypeOK, Results, Errors, Promise!Outcomes, None
      <4>3. result'[c] = "REPLY" => runs[c] > 0
        <5> SUFFICES ASSUME result'[c] = "REPLY" PROVE Cardinality(ran(c)) > 0
          OBVIOUS
        <5>1. (attempt(c) \in ran(c))'
          BY <1>2 DEF TypeOK, CallInv, ToldLast, ran, now
        <5>2. ran(c) # {}
          BY <3>3, <5>1 DEF TellStep
        <5> QED
          BY <1>2, <5>2, RunsAreAttempts, FS_EmptySet
      <4>4. outcome' = [outcome EXCEPT ![c] = result'[c]] /\ outcome[c] = "PENDING"
        BY <2>2, <2>4, <4>1
      <4> QED
        BY <2>1, <4>1, <4>2, <4>3, <4>4 DEF Promise!Next, Promise!Tell, mayRun
    <3> QED
      BY <1>2, <2>4, <3>1, <3>2, <3>3, PromiseStep
  <2> QED
    BY <1>2, <2>3, <2>4, StepOfACall
<1>3. [Promise!Next]_<<limit, outcome, runs>> <=>
      [Promise!Next]_<<[c \in Calls |-> IF call[c] = [shape |-> "unary", via |-> "client"]
                                          THEN MaxRetries + 1 ELSE 1], outcome, runs>>
  BY DEF mayRun
<1> QED
  BY <1>1, <1>2, <1>3, CallsInvariant, PTL DEF Spec, KeepsPromise, Promise!Spec
=============================================================================
