------------------------------ MODULE Framing ------------------------------
(***************************************************************************)
(* Reading a body of length-prefixed gRPC messages off an HTTP/2 stream:   *)
(* DeframeStream of crates/tpt-proto-grpc/src/framed.rs (requests, at the  *)
(* server) and GrpcResponseBody of client.rs (responses, at the client),   *)
(* which is the same loop plus the status in the trailers.  A request is a *)
(* body without trailers.                                                  *)
(*                                                                         *)
(* A byte is the pair of its frame and its place in it; a frame is         *)
(* HeaderLen bytes, which carry the length, and the payload.  That the     *)
(* bytes of a payload decode (compression flag, decompression and its      *)
(* limit: codec.rs) is the frame's "ok".                                   *)
(*                                                                         *)
(* External: h2 delivers the bytes in order, in chunks of at most MaxChunk *)
(* that have nothing to do with the frames; it accepts no more than the    *)
(* receive window, which only release_capacity() would open again, and     *)
(* nothing in the repository calls that.                                   *)
(***************************************************************************)
EXTENDS Integers, Sequences

CONSTANTS Bodies,      \* the bodies a peer may send: sequences of frames
          Trailers,    \* what may follow: "none", "ok" or "error"
          HeaderLen,   \* length of a frame's header (5)
          MaxMessage,  \* max_message_size
          MaxChunk,    \* largest DATA frame
          Window,      \* http2_initial_stream_window
          MaxItems     \* bound: items a consumer takes

Frames == [len : Nat, ok : BOOLEAN]

ASSUME FramingAssumption ==
    /\ Bodies \subseteq Seq(Frames)
    /\ Trailers \subseteq {"none", "ok", "error"}
    /\ HeaderLen \in Nat \ {0} /\ MaxChunk \in Nat \ {0}
    /\ MaxMessage \in Nat /\ Window \in Nat /\ MaxItems \in Nat

VARIABLES body, trailers,   \* what the peer means to send
          peer,             \* "sending", "end" (END_STREAM) or "reset"
          next,             \* the frame and place of the byte it sends next
          sent,             \* how many bytes it has sent
          queue,            \* those of them that poll_data() has not returned
          buf,              \* DeframeStream::buf
          eof,              \* DeframeStream::eof
          checked,          \* GrpcResponseBody::trailers_checked
          items,            \* the items yielded so far
          reader            \* "polling", "ended" (took None) or "dropped"

source == <<body, trailers>>
wire == <<next, sent, queue>>
vars == <<source, peer, wire, buf, eof, checked, items, reader>>

Bytes == [frame : Nat \ {0}, at : Nat \ {0}]
Kinds == {"message", "undecodable", "oversize", "partial", "reset", "status"}
Items == [kind : Kinds, bytes : Seq(Bytes)]

TypeOK ==
    /\ body \in Bodies /\ trailers \in Trailers
    /\ peer \in {"sending", "end", "reset"}
    /\ next \in Bytes /\ sent \in 0..Window /\ queue \in Seq(Bytes)
    /\ buf \in Seq(Bytes)
    /\ eof \in BOOLEAN /\ checked \in BOOLEAN
    /\ items \in Seq(Items)
    /\ reader \in {"polling", "ended", "dropped"}

Init ==
    /\ body \in Bodies /\ trailers \in Trailers
    /\ peer = "sending"
    /\ next = [frame |-> 1, at |-> 1] /\ sent = 0 /\ queue = <<>>
    /\ buf = <<>>
    /\ eof = FALSE /\ checked = FALSE
    /\ items = <<>>
    /\ reader = "polling"

-----------------------------------------------------------------------------
\* The peer, and h2 below it.

\* A frame as encode_message() makes it.
FrameBytes(i) == [n \in 1..(HeaderLen + body[i].len) |-> [frame |-> i, at |-> n]]

AllSent == next.frame > Len(body)

PeerSend ==
    /\ peer = "sending" /\ ~AllSent
    /\ LET f == next.frame
           size == HeaderLen + body[f].len IN
       \E upTo \in next.at..size :
         /\ sent' = sent + upTo - next.at + 1
         /\ sent' <= Window
         /\ queue' = queue \o SubSeq(FrameBytes(f), next.at, upTo)
         /\ next' = IF upTo = size THEN [frame |-> f + 1, at |-> 1]
                                   ELSE [frame |-> f, at |-> upTo + 1]
    /\ UNCHANGED <<source, peer, buf, eof, checked, items, reader>>

\* END_STREAM may come anywhere, also in the middle of a frame.
PeerEnd ==
    /\ peer = "sending"
    /\ peer' = "end"
    /\ UNCHANGED <<source, wire, buf, eof, checked, items, reader>>

PeerReset ==
    /\ peer = "sending"
    /\ peer' = "reset"
    /\ UNCHANGED <<source, wire, buf, eof, checked, items, reader>>

-----------------------------------------------------------------------------
\* poll_next(): one action per turn of its loop, and per item it returns.

Yield(kind, bytes) ==
    /\ Len(items) < MaxItems
    /\ items' = Append(items, [kind |-> kind, bytes |-> bytes])

\* A header read off a frame's boundary says anything; a length of 0, say.
Declared == IF buf[1].at = 1 THEN body[buf[1].frame].len ELSE 0
HeaderRead == Len(buf) >= HeaderLen
TooLarge == HeaderRead /\ Declared > MaxMessage

FrameReady == HeaderRead /\ ~TooLarge /\ Len(buf) >= HeaderLen + Declared

\* The length is refused before a byte of the payload is waited for, and
\* nothing is taken from the buffer: the next poll finds the same header.
Oversize ==
    /\ reader = "polling" /\ TooLarge
    /\ Yield("oversize", <<>>)
    /\ UNCHANGED <<source, peer, wire, buf, eof, checked, reader>>

\* Faulty variant: a header's worth of bytes is left behind.
TakeFrameShort ==
    /\ reader = "polling" /\ FrameReady
    /\ LET total == IF Declared > 0 THEN Declared ELSE HeaderLen IN
         /\ Yield(IF body[buf[1].frame].ok THEN "message" ELSE "undecodable",
                  SubSeq(buf, 1, total))
         /\ buf' = SubSeq(buf, total + 1, Len(buf))
    /\ UNCHANGED <<source, peer, wire, eof, checked, reader>>

\* Faulty variant: a frame that does not decode is passed over.
TakeFrameQuiet ==
    /\ reader = "polling" /\ FrameReady
    /\ LET total == HeaderLen + Declared IN
         /\ IF body[buf[1].frame].ok THEN Yield("message", SubSeq(buf, 1, total))
                                     ELSE UNCHANGED items
         /\ buf' = SubSeq(buf, total + 1, Len(buf))
    /\ UNCHANGED <<source, peer, wire, eof, checked, reader>>

\* split_to(total) and decode_message(): a frame that does not decode is taken
\* from the buffer as well.
TakeFrame ==
    /\ reader = "polling" /\ FrameReady
    /\ LET total == HeaderLen + Declared IN
         /\ Yield(IF body[buf[1].frame].ok THEN "message" ELSE "undecodable",
                  SubSeq(buf, 1, total))
         /\ buf' = SubSeq(buf, total + 1, Len(buf))
    /\ UNCHANGED <<source, peer, wire, eof, checked, reader>>

\* Faulty variant: data is waited for whatever the header says.
NeedsDataAnyway == reader = "polling" /\ ~FrameReady /\ ~eof

NeedsData == reader = "polling" /\ ~TooLarge /\ ~FrameReady /\ ~eof

PollChunk ==
    /\ NeedsData
    /\ \E n \in 1..MaxChunk :
         /\ n <= Len(queue)
         /\ buf' = buf \o SubSeq(queue, 1, n)
         /\ queue' = SubSeq(queue, n + 1, Len(queue))
    /\ UNCHANGED <<source, peer, next, sent, eof, checked, items, reader>>

\* What came before the reset is read first; the error then stays.
PollReset ==
    /\ NeedsData /\ peer = "reset" /\ queue = <<>>
    /\ Yield("reset", <<>>)
    /\ UNCHANGED <<source, peer, wire, buf, eof, checked, reader>>

\* Faulty variant: the end of the stream is not remembered.
PollEndForgets ==
    /\ NeedsData /\ peer = "end" /\ queue = <<>>
    /\ UNCHANGED vars

PollEnd ==
    /\ NeedsData /\ peer = "end" /\ queue = <<>>
    /\ eof' = TRUE
    /\ UNCHANGED <<source, peer, wire, buf, checked, items, reader>>

AtEnd == reader = "polling" /\ eof /\ ~TooLarge /\ ~FrameReady

\* Nothing is taken from the buffer here either.
Partial ==
    /\ AtEnd /\ buf # <<>>
    /\ Yield("partial", <<>>)
    /\ UNCHANGED <<source, peer, wire, buf, eof, checked, reader>>

\* Faulty variant: the trailers are an item whatever they say.
AnyTrailers ==
    /\ AtEnd /\ buf = <<>>
    /\ ~checked
    /\ checked' = TRUE
    /\ Yield(trailers, <<>>)
    /\ UNCHANGED <<source, peer, wire, buf, eof, reader>>

\* Trailers with an error status are the last item; they are read once.
ErrorStatus ==
    /\ AtEnd /\ buf = <<>>
    /\ ~checked /\ trailers = "error"
    /\ checked' = TRUE
    /\ Yield("status", <<>>)
    /\ UNCHANGED <<source, peer, wire, buf, eof, reader>>

\* Faulty variant: the rest of the buffer is not looked at.
EndWithRest ==
    /\ reader = "polling" /\ eof /\ ~FrameReady
    /\ checked \/ trailers # "error"
    /\ checked' = TRUE
    /\ reader' = "ended"
    /\ UNCHANGED <<source, peer, wire, buf, eof, items>>

\* None: after trailers that are missing as after trailers that say Ok.
End ==
    /\ AtEnd /\ buf = <<>>
    /\ checked \/ trailers # "error"
    /\ checked' = TRUE
    /\ reader' = "ended"
    /\ UNCHANGED <<source, peer, wire, buf, eof, items>>

\* A consumer may stop at any item; read_single_message() and read_unary()
\* stop at the first error.
Drop ==
    /\ reader = "polling"
    /\ reader' = "dropped"
    /\ UNCHANGED <<source, peer, wire, buf, eof, checked, items>>

Poll ==
    \/ Oversize \/ TakeFrame \/ PollChunk \/ PollReset \/ PollEnd
    \/ Partial \/ ErrorStatus \/ End

Next == PeerSend \/ PeerEnd \/ PeerReset \/ Poll \/ Drop

(***************************************************************************)
(* The consumer polls while it has not dropped the stream; a peer sends    *)
(* what it may, and ends the stream when all is sent.                      *)
(***************************************************************************)
Fairness ==
    /\ WF_vars(Poll)
    /\ WF_vars(PeerSend)
    /\ WF_vars(PeerEnd /\ AllSent)

Spec == Init /\ [][Next]_vars
FairSpec == Spec /\ Fairness

-----------------------------------------------------------------------------

Framed(i) == items[i].kind \in {"message", "undecodable"}
FramedItems == {i \in DOMAIN items : Framed(i)}

(***************************************************************************)
(* However the body is cut into chunks, the items are its frames, whole,   *)
(* each once, in order and without a gap; errors that are not about one    *)
(* frame come after them.  (framed.rs:55-81, client.rs:311-333)            *)
(***************************************************************************)
WholeFramesInOrder ==
    \A i \in DOMAIN items :
        Framed(i) =>
            /\ i <= Len(body) /\ items[i].bytes = FrameBytes(i)
            /\ body[i].len <= MaxMessage
            /\ items[i].kind = "message" <=> body[i].ok

(***************************************************************************)
(* The reader implements FrameReader for a consumer that stops at its      *)
(* first error, as read_single_message() and read_unary() do (framed.rs:   *)
(* 124, client.rs:401): what such a consumer hears is the items up to      *)
(* there.  One that polls on is told the same error again, or, behind a    *)
(* frame that does not decode, the rest of the body: there the "terminal   *)
(* Err item" of framed.rs:24-25 is not what the code does.                 *)
(* (framed.rs:51-105, client.rs:305-362)                                   *)
(***************************************************************************)
Heard == [i \in {j \in DOMAIN items : \A k \in 1..(j - 1) : items[k].kind = "message"}
            |-> items[i]]
Promised == INSTANCE FrameReader WITH
    frames <- [i \in DOMAIN body |-> [bytes |-> FrameBytes(i), ok |-> body[i].ok,
                                      fits |-> body[i].len <= MaxMessage]],
    status <- trailers, answers <- Heard, over <- (reader = "ended")
DeliversFrames == Promised!Spec

(***************************************************************************)
(* What a peer makes the reader keep is bounded by max_message_size: a     *)
(* header that announces more is refused before its payload is buffered.   *)
(* (framed.rs:55-68, docs/security.md:59-61)                               *)
(***************************************************************************)
BufferBounded == Len(buf) < HeaderLen + MaxMessage + MaxChunk

(***************************************************************************)
(* No silent truncation: a stream that ends without an error was read to   *)
(* its last byte, every byte is in a frame that was yielded, and an error  *)
(* status in the trailers was reported.  ("protects against partial        *)
(* frames", docs/grpc.md:51; framed.rs:83-92, client.rs:335-360)           *)
(***************************************************************************)
CleanEndIsComplete ==
    reader = "ended" =>
        /\ peer = "end" /\ next.at = 1
        /\ FramedItems = 1..(next.frame - 1)
        /\ trailers = "error" => \E i \in DOMAIN items : items[i].kind = "status"

(***************************************************************************)
(* A body of acceptable messages that its peer sends to the end is read to *)
(* the end, message by message, if the consumer stays; or, if it is longer *)
(* than the receive window, to the last whole frame that the window lets   *)
(* in, and there it stalls.  (framed.rs:94-105: poll_data() without        *)
(* release_capacity())                                                     *)
(***************************************************************************)
Acceptable == \A i \in DOMAIN body : body[i].ok /\ body[i].len <= MaxMessage
GivenUp == reader = "dropped" \/ peer = "reset" \/ (peer = "end" /\ ~AllSent)
ReadToTheEnd == reader = "ended" /\ FramedItems = DOMAIN body
Stalled == ~AllSent /\ sent = Window /\ FramedItems = 1..(next.frame - 1)

BodyIsReadOrStalls == Acceptable => <>(GivenUp \/ ReadToTheEnd \/ Stalled)

(***************************************************************************)
(* Whatever max_message_size allows ("Maximum size of a single gRPC        *)
(* message (unframed) in bytes", server.rs:95) is read, if peer and        *)
(* consumer stay.                                                          *)
(***************************************************************************)
AcceptableBodyIsRead == Acceptable => <>(GivenUp \/ ReadToTheEnd)
=============================================================================
