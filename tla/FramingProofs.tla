--------------------------- MODULE FramingProofs ---------------------------
(***************************************************************************)
(* Theorems about Framing, for all bodies, chunk sizes, limits and         *)
(* windows.  The invariant says where the bytes between the peer and the   *)
(* reader stand: those buffered, then those queued, then the one that the  *)
(* peer sends next.                                                        *)
(***************************************************************************)
EXTENDS Framing, SequenceTheorems, TLAPS

Size(f) == HeaderLen + body[f].len
Total == Len(buf) + Len(queue)

\* The j-th byte after the frames yielded so far.
At(j) == IF j <= Len(buf) THEN buf[j]
         ELSE IF j <= Total THEN queue[j - Len(buf)] ELSE next

\* The byte d places after byte b, up to the start of the frame after b's.
After(b, d) == IF b.at + d <= Size(b.frame) THEN [frame |-> b.frame, at |-> b.at + d]
               ELSE [frame |-> b.frame + 1, at |-> 1]

InBody(b) == b.frame \in 1..Len(body)

\* K frames are yielded: frame K + 1 stands first, and the bytes that follow
\* any of them are the ones that follow it in the body.
Placed(K) ==
    /\ At(1) = [frame |-> K + 1, at |-> 1]
    /\ \A j \in 1..Total : InBody(At(j))
    /\ \A j \in 1..(Total + 1) : InBody(At(j)) => At(j).at <= Size(At(j).frame)
    /\ \A i, j \in 1..(Total + 1) :
         i <= j /\ InBody(At(i)) /\ At(i).at + (j - i) <= Size(At(i).frame) + 1
             => At(j) = After(At(i), j - i)

InOrder == \E K \in Nat : FramedItems = 1..K /\ Placed(K)

\* Once an error was yielded that is not about one frame, no frame follows.
Stopped ==
    \A i \in DOMAIN items : ~Framed(i) =>
        \/ TooLarge
        \/ ~FrameReady /\ (eof \/ (peer = "reset" /\ queue = <<>>))

AtEof ==
    /\ eof => peer = "end" /\ queue = <<>>
    /\ checked /\ trailers = "error" => \E i \in DOMAIN items : items[i].kind = "status"
    /\ reader = "ended" => eof /\ buf = <<>> /\ (checked \/ trailers # "error")

IInv == TypeOK /\ InOrder /\ Stopped /\ AtEof /\ WholeFramesInOrder /\ BufferBounded

-----------------------------------------------------------------------------

LEMMA Shapes ==
    ASSUME TypeOK
    PROVE  /\ body \in Seq(Frames) /\ Len(buf) \in Nat /\ Len(queue) \in Nat /\ Total \in Nat
           /\ \A f \in 1..Len(body) : body[f].len \in Nat /\ body[f].ok \in BOOLEAN
                                      /\ Size(f) \in Nat /\ Size(f) >= HeaderLen
           /\ \A j \in 1..(Total + 1) : At(j) \in Bytes
           /\ HeaderLen >= 1
  <1>1. body \in Seq(Frames) /\ Len(buf) \in Nat /\ Len(queue) \in Nat /\ Total \in Nat
    BY FramingAssumption DEF TypeOK, Total
  <1>2. ASSUME NEW f \in 1..Len(body)
        PROVE  body[f].len \in Nat /\ body[f].ok \in BOOLEAN /\ Size(f) \in Nat /\ Size(f) >= HeaderLen
    <2>1. body[f] \in Frames
      BY <1>1, <1>2
    <2> QED
      BY <2>1, FramingAssumption DEF Frames, Size
  <1>3. ASSUME NEW j \in 1..(Total + 1) PROVE At(j) \in Bytes
    BY <1>1 DEF At, Total, TypeOK
  <1> QED
    BY <1>1, <1>2, <1>3, FramingAssumption

LEMMA FrameShape ==
    ASSUME TypeOK, NEW f \in 1..Len(body)
    PROVE  /\ FrameBytes(f) \in Seq(Bytes) /\ Len(FrameBytes(f)) = Size(f)
           /\ \A n \in 1..Size(f) : FrameBytes(f)[n] = [frame |-> f, at |-> n]
  <1>1. Size(f) \in Nat
    BY Shapes
  <1>2. FrameBytes(f) = [n \in 1..Size(f) |-> [frame |-> f, at |-> n]]
    BY DEF FrameBytes, Size
  <1>3. \A n \in 1..Size(f) : [frame |-> f, at |-> n] \in Bytes
    BY <1>1, Shapes DEF Bytes
  <1>4. FrameBytes(f) \in [1..Size(f) -> Bytes]
    BY <1>2, <1>3
  <1> QED
    BY <1>1, <1>2, <1>4

\* The frame at the head of the buffer is the next one.
LEMMA HeadFrame ==
    ASSUME TypeOK, NEW K \in Nat, Placed(K), HeaderRead
    PROVE  /\ buf # <<>> /\ buf[1] = [frame |-> K + 1, at |-> 1]
           /\ K + 1 \in 1..Len(body)
           /\ Declared = body[K + 1].len /\ Declared \in Nat
           /\ HeaderLen + Declared = Size(K + 1)
  <1>1. Len(buf) >= 1 /\ 1 \in 1..Total
    BY FramingAssumption, Shapes DEF HeaderRead, Total
  <1>2. buf[1] = At(1)
    BY <1>1 DEF At
  <1>3. At(1) = [frame |-> K + 1, at |-> 1] /\ InBody(At(1))
    BY <1>1 DEF Placed
  <1>4. buf[1] = [frame |-> K + 1, at |-> 1] /\ K + 1 \in 1..Len(body)
    BY <1>2, <1>3 DEF InBody
  <1>5. Declared = body[K + 1].len
    BY <1>4 DEF Declared
  <1>6. buf # <<>>
    BY <1>1 DEF TypeOK
  <1>7. Declared \in Nat /\ HeaderLen + Declared = Size(K + 1)
    BY <1>4, <1>5, Shapes DEF Size
  <1> QED
    BY <1>4, <1>5, <1>6, <1>7

-----------------------------------------------------------------------------
\* What each step does to the bytes in between.

\* Taking the first s of them leaves the others placed.
LEMMA Shift ==
    ASSUME TypeOK, NEW K \in Nat, Placed(K), NEW J \in Nat,
           NEW s \in Nat, s <= Total, body' = body, Total' = Total - s,
           \A j \in 1..(Total - s + 1) : At(j)' = At(j + s),
           At(1 + s) = [frame |-> J + 1, at |-> 1]
    PROVE  Placed(J)'
  <1>1. \A g : Size(g)' = Size(g)
    BY DEF Size
  <1>2. \A j \in 1..(Total' + 1) : j + s \in 1..(Total + 1) /\ At(j)' = At(j + s)
    BY Shapes
  <1>3. At(1)' = [frame |-> J + 1, at |-> 1]
    <2>1. 1 \in 1..(Total - s + 1)
      BY Shapes
    <2>2. At(1)' = At(1 + s)
      BY <2>1
    <2> QED
      BY <2>2
  <1>4. \A j \in 1..(Total' + 1) : InBody(At(j))' <=> InBody(At(j + s))
    BY <1>2 DEF InBody
  <1>5. \A j \in 1..Total' : j \in 1..(Total' + 1) /\ j + s \in 1..Total
    BY Shapes
  <1>6. \A j \in 1..Total' : InBody(At(j))'
    BY <1>4, <1>5 DEF Placed
  <1>7. \A j \in 1..(Total' + 1) : InBody(At(j))' => At(j)'.at <= Size(At(j)'.frame)
    BY <1>2, <1>4 DEF Placed
  <1>8. ASSUME NEW i \in 1..(Total' + 1), NEW j \in 1..(Total' + 1), i <= j, InBody(At(i))',
               At(i)'.at + (j - i) <= Size(At(i)'.frame) + 1
        PROVE  At(j)' = After(At(i)', j - i)
    <2>1. (j + s) - (i + s) = j - i /\ i + s <= j + s
      BY <1>8, Shapes
    <2>2. At(j + s) = After(At(i + s), (j + s) - (i + s))
      BY <2>1, <1>2, <1>4, <1>8 DEF Placed
    <2> QED
      BY <2>1, <2>2, <1>2
  <1> QED
    BY <1>1, <1>3, <1>6, <1>7, <1>8 DEF Placed, After

LEMMA StaysPlaced ==
    ASSUME TypeOK, NEW K \in Nat, Placed(K), UNCHANGED <<body, buf, queue, next>>
    PROVE  Placed(K)'
  BY DEF Placed, At, Total, After, Size, InBody

LEMMA ChunkPlaced ==
    ASSUME TypeOK, NEW K \in Nat, Placed(K), PollChunk
    PROVE  Placed(K)'
  <1>1. PICK n \in 1..MaxChunk :
           /\ n <= Len(queue)
           /\ buf' = buf \o SubSeq(queue, 1, n)
           /\ queue' = SubSeq(queue, n + 1, Len(queue))
    BY DEF PollChunk
  <1>2. body' = body /\ next' = next
    BY DEF PollChunk, source
  <1>3. n \in Nat /\ buf \in Seq(Bytes) /\ queue \in Seq(Bytes)
    BY FramingAssumption DEF TypeOK
  <1>4. /\ Len(buf') = Len(buf) + n
        /\ \A j \in 1..Len(buf) : buf'[j] = buf[j]
        /\ \A j \in 1..n : buf'[Len(buf) + j] = queue[j]
    <2>1. /\ SubSeq(queue, 1, n) \in Seq(Bytes) /\ Len(SubSeq(queue, 1, n)) = n
          /\ \A j \in 1..n : SubSeq(queue, 1, n)[j] = queue[j]
      BY <1>1, <1>3, SubSeqProperties
    <2> QED
      BY <1>1, <1>3, <2>1, ConcatProperties
  <1>5. /\ Len(queue') = Len(queue) - n
        /\ \A j \in 1..(Len(queue) - n) : queue'[j] = queue[n + j]
    BY <1>1, <1>3, SubSeqProperties
  <1>6. Total' = Total
    BY <1>4, <1>5, <1>3, Shapes DEF Total
  <1>7. ASSUME NEW j \in 1..(Total + 1) PROVE At(j)' = At(j)
    <2>1. CASE j <= Len(buf)
      BY <2>1, <1>3, <1>4, Shapes DEF At
    <2>2. CASE j > Len(buf) /\ j <= Len(buf) + n
      <3>1. j - Len(buf) \in 1..n /\ Len(buf) + (j - Len(buf)) = j
        BY <2>2, <1>3, Shapes
      <3>2. buf'[j] = queue[j - Len(buf)]
        BY <3>1, <1>4
      <3>3. j <= Total
        BY <2>2, <1>1, <1>3, Shapes DEF Total
      <3> QED
        BY <2>2, <3>2, <3>3, <1>3, <1>4, Shapes DEF At
    <2>3. CASE j > Len(buf) + n /\ j <= Total
      <3>1. /\ j - Len(buf') \in 1..(Len(queue) - n)
            /\ n + (j - Len(buf')) = j - Len(buf)
        BY <2>3, <1>3, <1>4, Shapes DEF Total
      <3>2. queue'[j - Len(buf')] = queue[j - Len(buf)]
        BY <3>1, <1>5
      <3> QED
        BY <2>3, <3>2, <1>3, <1>4, <1>6, Shapes DEF At
    <2>4. CASE j > Total
      BY <2>4, <1>2, <1>3, <1>4, <1>5, <1>6, Shapes DEF At, Total
    <2> QED
      BY <2>1, <2>2, <2>3, <2>4, <1>3, Shapes
  <1>8. At(1 + 0) = [frame |-> K + 1, at |-> 1]
    BY DEF Placed
  <1>9. \A j \in 1..(Total - 0 + 1) : At(j)' = At(j + 0)
    BY <1>7, Shapes
  <1>10. 0 \in Nat /\ 0 <= Total /\ Total' = Total - 0
    BY <1>6, Shapes
  <1> QED
    BY <1>2, <1>8, <1>9, <1>10, Shift

\* The frame at the head stands whole in the buffer, and the next after it.
LEMMA FrameTaken ==
    ASSUME TypeOK, NEW K \in Nat, Placed(K), TakeFrame
    PROVE  /\ SubSeq(buf, 1, HeaderLen + Declared) = FrameBytes(K + 1)
           /\ Placed(K + 1)'
  <1> DEFINE s == HeaderLen + Declared
  <1>1. /\ buf[1].frame = K + 1 /\ K + 1 \in 1..Len(body) /\ s = Size(K + 1)
        /\ s \in Nat /\ s <= Len(buf) /\ s >= 1 /\ s <= Total
    <2>1. HeaderRead /\ s <= Len(buf)
      BY DEF TakeFrame, FrameReady
    <2>2. /\ buf[1] = [frame |-> K + 1, at |-> 1] /\ K + 1 \in 1..Len(body)
          /\ Declared \in Nat /\ s = Size(K + 1)
      BY <2>1, HeadFrame
    <2>3. s \in Nat /\ s >= 1
      BY <2>2, FramingAssumption
    <2>4. s <= Total
      BY <2>1, <2>3, Shapes DEF Total
    <2> QED
      BY <2>1, <2>2, <2>3, <2>4
  <1>2. /\ buf' = SubSeq(buf, s + 1, Len(buf))
        /\ body' = body /\ queue' = queue /\ next' = next
    BY DEF TakeFrame, source, wire
  <1>3. At(1) = [frame |-> K + 1, at |-> 1] /\ InBody(At(1))
    BY <1>1 DEF Placed, InBody
  <1>4. ASSUME NEW d \in 0..s PROVE At(1 + d) = After(At(1), d)
    <2>1. 1 + d \in 1..(Total + 1) /\ 1 \in 1..(Total + 1) /\ 1 <= 1 + d /\ (1 + d) - 1 = d
      BY <1>1, Shapes
    <2>2. At(1).at + d <= Size(At(1).frame) + 1
      BY <1>1, <1>3
    <2> QED
      BY <2>1, <2>2, <1>3 DEF Placed
  <1>5. At(1 + s) = [frame |-> (K + 1) + 1, at |-> 1]
    <2>1. s \in 0..s /\ ~(1 + s <= s)
      BY <1>1
    <2>2. At(1 + s) = After(At(1), s)
      BY <2>1, <1>4
    <2>3. At(1).at = 1 /\ At(1).frame = K + 1
      BY <1>3
    <2> QED
      BY <2>1, <2>2, <2>3, <1>1 DEF After
  <1>6. ASSUME NEW n \in 1..s PROVE buf[n] = [frame |-> K + 1, at |-> n]
    <2>1. n - 1 \in 0..s /\ 1 + (n - 1) = n /\ n <= Len(buf)
      BY <1>1
    <2>2. At(n) = After(At(1), n - 1)
      BY <2>1, <1>4
    <2>3. At(n) = [frame |-> K + 1, at |-> n]
      BY <2>1, <2>2, <1>1, <1>3 DEF After
    <2> QED
      BY <2>1, <2>3 DEF At
  <1>7. SubSeq(buf, 1, s) = FrameBytes(K + 1)
    <2>1. buf \in Seq(Bytes)
      BY DEF TypeOK
    <2>2. /\ SubSeq(buf, 1, s) \in Seq(Bytes) /\ Len(SubSeq(buf, 1, s)) = s
          /\ \A n \in 1..s : SubSeq(buf, 1, s)[n] = buf[n]
      BY <2>1, <1>1, SubSeqProperties
    <2>3. /\ FrameBytes(K + 1) \in Seq(Bytes) /\ Len(FrameBytes(K + 1)) = s
          /\ \A n \in 1..s : FrameBytes(K + 1)[n] = [frame |-> K + 1, at |-> n]
      BY <1>1, FrameShape
    <2> QED
      BY <2>2, <2>3, <1>6, SeqEqual
  <1>8. /\ Len(buf') = Len(buf) - s /\ Total' = Total - s
        /\ \A j \in 1..(Len(buf) - s) : buf'[j] = buf[s + j]
    <2>1. buf \in Seq(Bytes)
      BY DEF TypeOK
    <2>2. /\ Len(buf') = Len(buf) - s
          /\ \A j \in 1..(Len(buf) - s) : buf'[j] = buf[s + j]
      BY <2>1, <1>1, <1>2, SubSeqProperties
    <2>3. queue' = queue
      BY <1>2
    <2>4. Total' = Total - s
      BY <2>2, <2>3, <1>1, Shapes DEF Total
    <2> QED
      BY <2>2, <2>4
  <1>9. ASSUME NEW j \in 1..(Total - s + 1) PROVE At(j)' = At(j + s)
    <2>1. CASE j <= Len(buf) - s
      <3>1. j \in 1..(Len(buf) - s) /\ s + j = j + s /\ j + s <= Len(buf) /\ j <= Len(buf')
        <4>1. Len(buf) \in Nat /\ s \in Nat /\ s >= 1 /\ Len(buf') = Len(buf) - s
          BY <1>1, <1>8, Shapes
        <4> HIDE DEF s
        <4> QED
          BY <4>1, <2>1
      <3> QED
        BY <3>1, <1>8 DEF At
    <2>2. CASE j > Len(buf) - s
      <3>1. /\ ~(j <= Len(buf')) /\ ~(j + s <= Len(buf))
            /\ j - Len(buf') = (j + s) - Len(buf) /\ (j <= Total' <=> j + s <= Total)
        <4>1. /\ Len(buf) \in Nat /\ Total \in Nat /\ s \in Nat /\ s <= Len(buf)
              /\ Len(buf') = Len(buf) - s /\ Total' = Total - s
          BY <1>1, <1>8, Shapes
        <4> HIDE DEF s
        <4> QED
          BY <4>1, <2>2
      <3>2. At(j)' = IF j <= Total' THEN queue'[j - Len(buf')] ELSE next'
        BY <3>1 DEF At
      <3>3. At(j + s) = IF j + s <= Total THEN queue[(j + s) - Len(buf)] ELSE next
        BY <3>1 DEF At
      <3> QED
        BY <3>1, <3>2, <3>3, <1>2
    <2> QED
      BY <2>1, <2>2, <1>1, Shapes
  <1>10. Placed(K + 1)'
    BY <1>1, <1>2, <1>5, <1>8, <1>9, Shift
  <1> QED
    BY <1>7, <1>10

\* The piece that is sent continues the byte that was to be sent next.
LEMMA SendPlaced ==
    ASSUME TypeOK, NEW K \in Nat, Placed(K), PeerSend
    PROVE  Placed(K)'
  <1> DEFINE f == next.frame
             size == HeaderLen + body[f].len
  <1>0. PICK T \in Nat : T = Total
    BY Shapes
  <1>1. f \in Nat /\ next.at \in Nat /\ next.at >= 1 /\ next = [frame |-> f, at |-> next.at]
    BY DEF TypeOK, Bytes
  <1>2. f \in 1..Len(body) /\ size = Size(f) /\ size \in Nat /\ size >= 1
    <2>1. f >= 1 /\ ~(f > Len(body)) /\ Len(body) \in Nat
      <3>1. next \in Bytes /\ body \in Seq(Frames)
        BY Shapes DEF TypeOK
      <3>2. ~(f > Len(body))
        BY DEF PeerSend, AllSent
      <3> QED
        BY <3>1, <3>2 DEF Bytes
    <2>2. f \in 1..Len(body)
      BY <2>1, <1>1
    <2>3. size = Size(f)
      BY DEF Size
    <2>4. Size(f) \in Nat /\ Size(f) >= HeaderLen /\ HeaderLen \in Nat /\ HeaderLen >= 1
      BY <2>2, Shapes, FramingAssumption
    <2> QED
      BY <2>2, <2>3, <2>4
  <1>3. At(T + 1) = next /\ T + 1 \in 1..(T + 1) /\ InBody(next) /\ next.at <= size
    <2>1. At(T + 1) = next
      BY <1>0, Shapes DEF At, Total
    <2> QED
      BY <2>1, <1>0, <1>2, Shapes DEF Placed, InBody
  <1>4. PICK upTo \in next.at..size :
           /\ queue' = queue \o SubSeq(FrameBytes(f), next.at, upTo)
           /\ next' = IF upTo = size THEN [frame |-> f + 1, at |-> 1]
                                     ELSE [frame |-> f, at |-> upTo + 1]
    BY DEF PeerSend
  <1>5. buf' = buf /\ body' = body /\ \A g : Size(g)' = Size(g)
    BY DEF PeerSend, source, Size
  <1> DEFINE n == upTo - next.at + 1
             piece == SubSeq(FrameBytes(f), next.at, upTo)
  <1>6. n \in Nat /\ n >= 1 /\ upTo \in Nat /\ next.at + n = upTo + 1 /\ upTo <= size
    BY <1>1, <1>2
  <1>7. /\ piece \in Seq(Bytes) /\ Len(piece) = n
        /\ \A e \in 1..n : piece[e] = FrameBytes(f)[next.at + e - 1]
    <2>1. \A m \in next.at..upTo : FrameBytes(f)[m] \in Bytes
      <3>1. \A m \in next.at..upTo : m \in 1..Size(f)
        BY <1>1, <1>2, <1>6
      <3>2. \A m \in 1..Size(f) : FrameBytes(f)[m] \in Bytes
        BY <1>2, FrameShape
      <3> QED
        BY <3>1, <3>2
    <2> QED
      BY <2>1, <1>1, <1>6, SubSeqProperties
  <1>8. \A e \in 1..n : piece[e] = [frame |-> f, at |-> next.at + (e - 1)]
    <2>1. ASSUME NEW e \in 1..n
          PROVE  /\ next.at + e - 1 \in 1..Size(f)
                 /\ next.at + e - 1 = next.at + (e - 1)
      <3>1. /\ size \in Nat /\ upTo \in Nat /\ next.at \in Nat /\ next.at >= 1 /\ n \in Nat
            /\ next.at + n = upTo + 1 /\ upTo <= size /\ Size(f) = size
        BY <1>1, <1>2, <1>6
      <3> HIDE DEF size, n, f
      <3>2. e \in Nat /\ e >= 1 /\ e <= n
        BY <3>1
      <3> QED
        BY <3>1, <3>2
    <2> QED
      BY <2>1, <1>2, <1>7, FrameShape
  <1>9. /\ Len(queue') = Len(queue) + n
        /\ \A j \in 1..Len(queue) : queue'[j] = queue[j]
        /\ \A e \in 1..n : queue'[Len(queue) + e] = piece[e]
    <2>1. queue \in Seq(Bytes) /\ piece \in Seq(Bytes) /\ Len(piece) = n
      BY <1>7 DEF TypeOK
    <2>2. queue' = queue \o piece
      BY <1>4
    <2> HIDE DEF piece, n
    <2>3. /\ Len(queue') = Len(queue) + Len(piece)
          /\ \A j \in 1..(Len(queue) + Len(piece)) :
               queue'[j] = IF j <= Len(queue) THEN queue[j] ELSE piece[j - Len(queue)]
      BY <2>1, <2>2, ConcatProperties
    <2>4. Len(queue) \in Nat /\ n \in Nat
      BY <2>1
    <2>5. ASSUME NEW e \in 1..n PROVE queue'[Len(queue) + e] = piece[e]
      <3>1. /\ Len(queue) + e \in 1..(Len(queue) + Len(piece)) /\ ~(Len(queue) + e <= Len(queue))
            /\ (Len(queue) + e) - Len(queue) = e
        BY <2>1, <2>4
      <3> QED
        BY <2>3, <3>1
    <2>6. ASSUME NEW j \in 1..Len(queue) PROVE queue'[j] = queue[j]
      <3>1. j \in 1..(Len(queue) + Len(piece)) /\ j <= Len(queue)
        BY <2>1, <2>4
      <3> QED
        BY <2>3, <3>1
    <2> QED
      BY <2>1, <2>3, <2>5, <2>6
  <1> HIDE DEF n, piece, size
  <1>10. /\ Total' = T + n /\ T = Len(buf) + Len(queue)
         /\ Len(buf) \in Nat /\ Len(queue) \in Nat
    BY <1>0, <1>5, <1>6, <1>9, Shapes DEF Total
  <1>11. ASSUME NEW j \in 1..T PROVE At(j)' = At(j)
    <2>1. CASE j <= Len(buf)
      BY <2>1, <1>5 DEF At
    <2>2. CASE ~(j <= Len(buf))
      <3>1. j <= Total /\ j <= Total' /\ j - Len(buf) \in 1..Len(queue)
        BY <2>2, <1>0, <1>6, <1>10
      <3> QED
        BY <2>2, <3>1, <1>5, <1>9 DEF At
    <2> QED
      BY <2>1, <2>2
  <1>12. ASSUME NEW e \in 0..n PROVE At(T + 1 + e)' = After(next, e)
    <2>1. CASE e < n
      <3>1. /\ e + 1 \in 1..n /\ (e + 1) - 1 = e
            /\ ~(T + 1 + e <= Len(buf)) /\ T + 1 + e <= Total'
            /\ (T + 1 + e) - Len(buf) = Len(queue) + (e + 1)
        <4>1. e \in Nat /\ e + 1 \in 1..n /\ (e + 1) - 1 = e
          BY <2>1, <1>6
        <4>2. Len(buf) \in Nat /\ Len(queue) \in Nat
          BY Shapes
        <4> QED
          BY <4>1, <4>2, <1>6, <1>10
      <3>2. At(T + 1 + e)' = piece[e + 1]
        BY <3>1, <1>5, <1>9 DEF At
      <3>3. next.at + e <= Size(f)
        BY <2>1, <1>1, <1>2, <1>6
      <3> QED
        BY <3>1, <3>2, <3>3, <1>8 DEF After
    <2>2. CASE e = n
      <3>1. /\ ~(T + 1 + e <= Len(buf)) /\ ~(T + 1 + e <= Total')
            /\ next.at + e = upTo + 1
        BY <2>2, <1>6, <1>10, Shapes
      <3>2. At(T + 1 + e)' = next'
        BY <3>1, <1>5 DEF At
      <3>3. next.at + e <= Size(f) <=> upTo # size
        <4>1. Size(f) = size /\ size \in Nat /\ upTo \in Nat /\ upTo <= size
          BY <1>2, <1>6
        <4> QED
          BY <4>1, <3>1
      <3> QED
        BY <3>1, <3>2, <3>3, <1>4 DEF After
    <2> QED
      BY <2>1, <2>2, <1>6
  <1>13. After(next, 0) = next
    BY <1>1, <1>2, <1>3 DEF After
  <1>14. ASSUME NEW j \in 1..(T + 1) PROVE At(j)' = At(j)
    <2>1. CASE j = T + 1
      <3>1. 0 \in 0..n /\ T + 1 + 0 = j
        BY <2>1, <1>6
      <3> QED
        BY <3>1, <2>1, <1>3, <1>12, <1>13
    <2> QED
      BY <2>1, <1>11
  <1>15. ASSUME NEW j \in 1..(Total' + 1), ~(j <= T)
         PROVE  /\ j - (T + 1) \in 0..n /\ At(j)' = After(next, j - (T + 1))
                /\ next.at + (j - (T + 1)) <= size + 1
                /\ j <= Total' => next.at + (j - (T + 1)) <= size
    <2>1. j - (T + 1) \in 0..n /\ T + 1 + (j - (T + 1)) = j
      <3>1. n \in Nat /\ Total' = T + n /\ ~(j <= T)
        BY <1>6, <1>10, <1>15
      <3> QED
        BY <3>1
    <2>2. At(j)' = After(next, j - (T + 1))
      BY <2>1, <1>12
    <2>3. /\ next.at + (j - (T + 1)) <= size + 1
          /\ j <= Total' => next.at + (j - (T + 1)) <= size
      <3>1. /\ n \in Nat /\ Total' = T + n /\ next.at \in Nat /\ size \in Nat /\ upTo \in Nat
            /\ next.at + n = upTo + 1 /\ upTo <= size
        BY <1>1, <1>2, <1>6, <1>10
      <3>2. j \in Nat /\ j - (T + 1) <= n /\ (j <= Total' => j - (T + 1) <= n - 1)
        BY <3>1, <2>1
      <3> QED
        BY <3>1, <3>2
    <2> QED
      BY <2>1, <2>2, <2>3
  <1>16. At(1)' = [frame |-> K + 1, at |-> 1]
    BY <1>14 DEF Placed
  <1>17. ASSUME NEW j \in 1..Total' PROVE InBody(At(j))'
    <2>1. CASE j <= T
      BY <2>1, <1>0, <1>5, <1>14 DEF Placed, InBody
    <2>2. CASE ~(j <= T)
      <3> DEFINE e == j - (T + 1)
      <3>1. At(j)' = After(next, e) /\ next.at + e <= Size(f)
        BY <2>2, <1>2, <1>10, <1>15
      <3>2. At(j)'.frame = f
        BY <3>1 DEF After
      <3> QED
        BY <3>2, <1>2, <1>5 DEF InBody
    <2> QED
      BY <2>1, <2>2
  <1>18. ASSUME NEW j \in 1..(Total' + 1), InBody(At(j))'
         PROVE  At(j)'.at <= Size(At(j)'.frame)
    <2>1. CASE j <= T
      BY <2>1, <1>0, <1>5, <1>14, <1>18 DEF Placed, InBody
    <2>2. CASE ~(j <= T)
      <3> DEFINE e == j - (T + 1)
      <3>1. e \in 0..n /\ At(j)' = After(next, e)
        BY <2>2, <1>15
      <3>2. CASE next.at + e <= Size(f)
        BY <3>1, <3>2, <1>5 DEF After
      <3>3. CASE ~(next.at + e <= Size(f))
        <4>1. At(j)' = [frame |-> f + 1, at |-> 1]
          BY <3>1, <3>3 DEF After
        <4>2. f + 1 \in 1..Len(body)
          BY <4>1, <1>5, <1>18 DEF InBody
        <4> QED
          BY <4>1, <4>2, <1>5, Shapes, FramingAssumption
      <3> QED
        BY <3>2, <3>3
    <2> QED
      BY <2>1, <2>2
  <1>19. ASSUME NEW i \in 1..(Total' + 1), NEW j \in 1..(Total' + 1), i <= j, InBody(At(i))',
                At(i)'.at + (j - i) <= Size(At(i)'.frame) + 1
         PROVE  At(j)' = After(At(i)', j - i)
    <2>1. CASE j <= T
      BY <2>1, <1>0, <1>5, <1>14, <1>19 DEF Placed, InBody
    <2>2. CASE i <= T /\ ~(j <= T)
      <3> DEFINE b == At(i)
                 d == T + 1 - i
                 e == j - (T + 1)
      <3>1. /\ i \in 1..(T + 1) /\ T + 1 \in 1..(T + 1) /\ i <= T + 1
            /\ d \in Nat /\ e \in 0..n /\ j - i = d + e
        BY <2>2, <1>10, <1>15
      <3>2. b.at \in Nat /\ InBody(b) /\ b.at + (j - i) <= Size(b.frame) + 1 /\ Size(b.frame) \in Nat
        BY <3>1, <1>0, <1>5, <1>14, <1>19, Shapes DEF InBody, Bytes
      <3>3. next = After(b, d)
        BY <3>1, <3>2, <1>0, <1>3 DEF Placed
      <3>4. CASE e = 0
        BY <3>1, <3>3, <3>4, <1>13, <1>14, <1>15, <2>2
      <3>5. CASE e >= 1
        <4>1. b.at + d <= Size(b.frame)
          BY <3>1, <3>2, <3>5
        <4>2. next.frame = b.frame /\ next.at + e = b.at + (j - i)
          BY <4>1, <3>1, <3>2, <3>3 DEF After
        <4> QED
          BY <4>2, <1>14, <1>15, <2>2, <3>1 DEF After
      <3> QED
        BY <3>1, <3>4, <3>5
    <2>3. CASE ~(i <= T)
      <3> DEFINE d == i - (T + 1)
                 e == j - (T + 1)
      <3>1. /\ d \in 0..n /\ e \in 0..n /\ d <= e /\ j - i = e - d
            /\ At(i)' = After(next, d) /\ At(j)' = After(next, e)
            /\ next.at + e <= size + 1
        <4>1. /\ ~(j <= T) /\ n \in Nat /\ Total' = T + n /\ i <= j
          BY <2>3, <1>6, <1>10, <1>19
        <4>2. d <= e /\ j - i = e - d
          BY <4>1
        <4> QED
          BY <4>1, <4>2, <2>3, <1>15
      <3>2. CASE next.at + d <= size
        <4>1. At(i)' = [frame |-> f, at |-> next.at + d]
          BY <3>1, <3>2, <1>2 DEF After
        <4>2. (next.at + d) + (e - d) = next.at + e
          BY <3>1, <1>1, <1>6
        <4>3. After(At(i)', e - d) = After(next, e)
          BY <4>1, <4>2 DEF After
        <4> QED
          BY <4>3, <3>1
      <3>3. CASE ~(next.at + d <= size)
        <4>1. e = d
          <5>1. next.at \in Nat /\ size \in Nat /\ d \in Nat /\ e \in Nat
            BY <3>1, <1>1, <1>2, <1>6
          <5>2. d <= e /\ next.at + e <= size + 1 /\ ~(next.at + d <= size)
            BY <3>1, <3>3
          <5> HIDE DEF size, d, e
          <5> QED
            BY <5>1, <5>2
        <4>2. At(i)' = [frame |-> f + 1, at |-> 1]
          BY <3>1, <3>3, <1>2 DEF After
        <4>3. f + 1 \in 1..Len(body)
          BY <4>2, <1>5, <1>19 DEF InBody
        <4>4. 1 + 0 <= Size(f + 1) /\ 1 + 0 = 1
          BY <4>3, Shapes, FramingAssumption
        <4>5. j - i = 0
          BY <4>1, <3>1
        <4>6. At(j)' = At(i)'
          BY <4>1, <3>1
        <4> QED
          BY <4>2, <4>4, <4>5, <4>6 DEF After
      <3> QED
        BY <3>2, <3>3
    <2> QED
      BY <2>1, <2>2, <2>3
  <1> QED
    BY <1>5, <1>16, <1>17, <1>18, <1>19 DEF Placed, After

-----------------------------------------------------------------------------
\* The invariant.

LEMMA InitInv == Init => IInv
  <1> SUFFICES ASSUME Init PROVE IInv
    OBVIOUS
  <1>1. TypeOK
    <2>1. [frame |-> 1, at |-> 1] \in Bytes
      BY DEF Bytes
    <2>2. 0 \in 0..Window
      BY FramingAssumption
    <2>3. \A S : <<>> \in Seq(S)
      OBVIOUS
    <2> QED
      BY <2>1, <2>2, <2>3 DEF Init, TypeOK
  <1>2. Total = 0 /\ next = [frame |-> 1, at |-> 1] /\ At(1) = next
    BY DEF Init, Total, At
  <1>3. Placed(0)
    <2>1. \A j \in 1..(Total + 1) : j = 1 /\ At(j) = next
      BY <1>2
    <2>2. InBody(next) => 1 <= Size(1)
      BY <1>1, <1>2, Shapes, FramingAssumption DEF InBody
    <2>3. InBody(next) => After(next, 0) = next
      BY <1>2, <2>2 DEF After
    <2>4. \A j \in 1..Total : InBody(At(j))
      BY <1>2
    <2>5. \A j \in 1..(Total + 1) : InBody(At(j)) => At(j).at <= Size(At(j).frame)
      BY <1>2, <2>1, <2>2
    <2>6. ASSUME NEW i \in 1..(Total + 1), NEW j \in 1..(Total + 1), InBody(At(i))
          PROVE  At(j) = After(At(i), j - i)
      <3>1. j - i = 0 /\ At(i) = next /\ At(j) = next
        BY <2>1
      <3> QED
        BY <3>1, <2>3, <2>6
    <2> QED
      BY <1>2, <2>4, <2>5, <2>6 DEF Placed
  <1>4. DOMAIN items = {}
    BY DEF Init
  <1>5. FramedItems = 1..0
    BY <1>4 DEF FramedItems
  <1>6. InOrder
    BY <1>3, <1>5 DEF InOrder
  <1>7. Stopped /\ AtEof /\ WholeFramesInOrder
    BY <1>4 DEF Init, Stopped, AtEof, WholeFramesInOrder
  <1>8. BufferBounded
    BY FramingAssumption DEF Init, BufferBounded
  <1> QED
    BY <1>1, <1>6, <1>7, <1>8 DEF IInv

LEMMA TypeStep ==
    ASSUME TypeOK, InOrder, Next
    PROVE  TypeOK'
  <1> USE DEF source, wire, Items, Kinds
  <1>0. PICK K \in Nat : Placed(K)
    BY DEF InOrder
  <1>1. CASE PeerSend
    <2>1. next.frame \in 1..Len(body) /\ next.at \in Nat \ {0}
      <3>1. next \in Bytes /\ body \in Seq(Frames)
        BY Shapes DEF TypeOK
      <3>2. ~(next.frame > Len(body))
        BY <1>1 DEF PeerSend, AllSent
      <3> QED
        BY <3>1, <3>2 DEF Bytes
    <2>2. PICK upTo \in next.at..(HeaderLen + body[next.frame].len) :
             /\ sent' = sent + upTo - next.at + 1 /\ sent' <= Window
             /\ queue' = queue \o SubSeq(FrameBytes(next.frame), next.at, upTo)
             /\ next' = IF upTo = HeaderLen + body[next.frame].len
                          THEN [frame |-> next.frame + 1, at |-> 1]
                          ELSE [frame |-> next.frame, at |-> upTo + 1]
      BY <1>1 DEF PeerSend
    <2>3. HeaderLen + body[next.frame].len \in Nat
      BY <2>1, Shapes DEF Size
    <2>4. upTo \in Nat /\ upTo >= next.at
      BY <2>1, <2>2, <2>3
    <2>5. next' \in Bytes
      <3>1. /\ next.frame \in Nat \ {0} /\ next.frame + 1 \in Nat \ {0}
            /\ upTo + 1 \in Nat \ {0} /\ 1 \in Nat \ {0}
        BY <2>1, <2>4
      <3> QED
        BY <2>2, <3>1 DEF Bytes
    <2>6. sent' \in 0..Window
      <3>1. sent \in 0..Window /\ Window \in Nat
        BY FramingAssumption DEF TypeOK
      <3>2. sent' = sent + (upTo - next.at) + 1 /\ sent' <= Window
        BY <2>2
      <3> QED
        BY <3>1, <3>2, <2>1, <2>4
    <2>7. \A m \in next.at..upTo : FrameBytes(next.frame)[m] \in Bytes
      <3>1. \A m \in next.at..upTo : m \in 1..Size(next.frame)
        <4>1. Size(next.frame) = HeaderLen + body[next.frame].len
          BY DEF Size
        <4>2. next.at \in Nat /\ next.at >= 1 /\ upTo <= Size(next.frame) /\ Size(next.frame) \in Nat
          BY <4>1, <2>1, <2>2, <2>3
        <4> QED
          BY <4>2, <2>4
      <3>2. \A m \in 1..Size(next.frame) : FrameBytes(next.frame)[m] \in Bytes
        BY <2>1, FrameShape
      <3> QED
        BY <3>1, <3>2
    <2>8. SubSeq(FrameBytes(next.frame), next.at, upTo) \in Seq(Bytes)
      BY <2>1, <2>4, <2>7, SubSeqProperties
    <2>9. queue' \in Seq(Bytes)
      BY <2>2, <2>8, ConcatProperties DEF TypeOK
    <2> QED
      BY <1>1, <2>5, <2>6, <2>9 DEF PeerSend, TypeOK
  <1>2. CASE PeerEnd \/ PeerReset \/ PollEnd \/ End \/ Drop
    BY <1>2 DEF PeerEnd, PeerReset, PollEnd, End, Drop, TypeOK
  <1>3. CASE Oversize \/ PollReset \/ Partial \/ ErrorStatus
    <2>1. PICK k \in {"oversize", "reset", "partial", "status"} :
             items' = Append(items, [kind |-> k, bytes |-> <<>>])
      BY <1>3 DEF Oversize, PollReset, Partial, ErrorStatus, Yield
    <2>2. [kind |-> k, bytes |-> <<>>] \in Items
      OBVIOUS
    <2>3. items' \in Seq(Items)
      BY <2>1, <2>2, AppendProperties DEF TypeOK
    <2> QED
      BY <1>3, <2>3 DEF Oversize, PollReset, Partial, ErrorStatus, TypeOK
  <1>4. CASE TakeFrame
    <2>1. buf \in Seq(Bytes)
      BY DEF TypeOK
    <2>2. HeaderRead /\ HeaderLen + Declared <= Len(buf)
      BY <1>4 DEF TakeFrame, FrameReady
    <2>3. HeaderLen + Declared \in Nat
      <3>1. Declared \in Nat
        BY <1>0, <2>2, HeadFrame
      <3> QED
        BY <3>1, FramingAssumption
    <2>4. SubSeq(buf, 1, HeaderLen + Declared) \in Seq(Bytes)
      BY <2>1, <2>2, <2>3, SubSeqProperties
    <2>5. SubSeq(buf, HeaderLen + Declared + 1, Len(buf)) \in Seq(Bytes)
      BY <2>1, <2>3, SubSeqProperties
    <2>6. PICK k \in {"message", "undecodable"} :
             items' = Append(items, [kind |-> k, bytes |-> SubSeq(buf, 1, HeaderLen + Declared)])
      BY <1>4 DEF TakeFrame, Yield
    <2>7. [kind |-> k, bytes |-> SubSeq(buf, 1, HeaderLen + Declared)] \in Items
      BY <2>4
    <2>8. items' \in Seq(Items)
      BY <2>6, <2>7, AppendProperties DEF TypeOK
    <2> QED
      BY <1>4, <2>5, <2>8 DEF TakeFrame, TypeOK
  <1>5. CASE PollChunk
    <2>1. PICK n \in 1..MaxChunk :
             /\ n <= Len(queue)
             /\ buf' = buf \o SubSeq(queue, 1, n)
             /\ queue' = SubSeq(queue, n + 1, Len(queue))
      BY <1>5 DEF PollChunk
    <2>2. n \in Nat /\ buf \in Seq(Bytes) /\ queue \in Seq(Bytes)
      BY FramingAssumption DEF TypeOK
    <2>3. SubSeq(queue, 1, n) \in Seq(Bytes) /\ queue' \in Seq(Bytes)
      BY <2>1, <2>2, SubSeqProperties
    <2>4. buf' \in Seq(Bytes)
      BY <2>1, <2>2, <2>3, ConcatProperties
    <2> QED
      BY <1>5, <2>3, <2>4 DEF PollChunk, TypeOK
  <1> QED
    BY <1>1, <1>2, <1>3, <1>4, <1>5 DEF Next, Poll

LEMMA Appended ==
    ASSUME TypeOK, NEW kind \in Kinds, NEW bytes \in Seq(Bytes), Yield(kind, bytes)
    PROVE  /\ Len(items) \in Nat /\ DOMAIN items = 1..Len(items)
           /\ DOMAIN items' = 1..(Len(items) + 1)
           /\ \A i \in DOMAIN items : items'[i] = items[i] /\ (Framed(i)' <=> Framed(i))
           /\ items'[Len(items) + 1] = [kind |-> kind, bytes |-> bytes]
  <1>1. items \in Seq(Items) /\ [kind |-> kind, bytes |-> bytes] \in Items
    BY DEF TypeOK, Items
  <1>2. items' = Append(items, [kind |-> kind, bytes |-> bytes])
    BY DEF Yield
  <1>3. /\ Len(items') = Len(items) + 1 /\ items' \in Seq(Items)
        /\ \A i \in 1..Len(items) : items'[i] = items[i]
        /\ items'[Len(items) + 1] = [kind |-> kind, bytes |-> bytes]
    BY <1>1, <1>2, AppendProperties
  <1>4. Len(items) \in Nat /\ DOMAIN items = 1..Len(items) /\ DOMAIN items' = 1..(Len(items) + 1)
    BY <1>1, <1>3
  <1> QED
    BY <1>3, <1>4 DEF Framed

\* An error item is no frame.
LEMMA ErrorItem ==
    ASSUME TypeOK, NEW K \in Nat, FramedItems = 1..K, WholeFramesInOrder, body' = body,
           NEW kind \in {"oversize", "partial", "reset", "status"}, Yield(kind, <<>>)
    PROVE  (FramedItems = 1..K)' /\ WholeFramesInOrder'
  <1>1. kind \in Kinds /\ <<>> \in Seq(Bytes)
    BY DEF Kinds
  <1>2. PICK L \in Nat :
           /\ DOMAIN items = 1..L /\ DOMAIN items' = 1..(L + 1)
           /\ \A i \in DOMAIN items : items'[i] = items[i] /\ (Framed(i)' <=> Framed(i))
           /\ items'[L + 1] = [kind |-> kind, bytes |-> <<>>]
    BY <1>1, Appended
  <1>3. ~Framed(L + 1)'
    BY <1>2 DEF Framed
  <1>4. \A i \in DOMAIN items' : i \in DOMAIN items \/ i = L + 1
    BY <1>2
  <1>5. DOMAIN items \subseteq DOMAIN items'
    BY <1>2
  <1>6. FramedItems' = FramedItems
    BY <1>2, <1>3, <1>4, <1>5 DEF FramedItems
  <1>7. ASSUME NEW i \in DOMAIN items', Framed(i)'
        PROVE  /\ i <= Len(body') /\ items'[i].bytes = FrameBytes(i)'
               /\ body'[i].len <= MaxMessage
               /\ items'[i].kind = "message" <=> body'[i].ok
    <2>1. i \in DOMAIN items /\ Framed(i) /\ items'[i] = items[i]
      BY <1>2, <1>3, <1>4, <1>7
    <2> QED
      BY <2>1 DEF WholeFramesInOrder, FrameBytes
  <1> QED
    BY <1>6, <1>7 DEF WholeFramesInOrder

\* A frame is taken when only frames were yielded before it.
LEMMA FrameItem ==
    ASSUME TypeOK, NEW K \in Nat, FramedItems = 1..K, Placed(K), Stopped,
           WholeFramesInOrder, TakeFrame
    PROVE  (FramedItems = 1..(K + 1))' /\ WholeFramesInOrder' /\ Stopped'
  <1> DEFINE bytes == SubSeq(buf, 1, HeaderLen + Declared)
             kind == IF body[buf[1].frame].ok THEN "message" ELSE "undecodable"
  <1>1. HeaderRead /\ FrameReady /\ ~TooLarge /\ body' = body /\ Yield(kind, bytes)
    BY DEF TakeFrame, FrameReady, source
  <1>2. /\ buf[1].frame = K + 1 /\ K + 1 \in 1..Len(body)
        /\ Declared = body[K + 1].len /\ Declared \in Nat
    <2>1. buf[1] = [frame |-> K + 1, at |-> 1]
      BY <1>1, HeadFrame
    <2> QED
      BY <2>1, <1>1, HeadFrame
  <1>3. bytes = FrameBytes(K + 1) /\ bytes \in Seq(Bytes) /\ kind \in Kinds
    BY <1>2, FrameTaken, FrameShape DEF Kinds
  <1>4. Declared <= MaxMessage
    BY <1>1, <1>2, FramingAssumption DEF TooLarge
  <1>5. \A i \in DOMAIN items : Framed(i)
    BY <1>1 DEF Stopped
  <1>6. /\ Len(items) \in Nat /\ DOMAIN items = 1..Len(items)
        /\ DOMAIN items' = 1..(Len(items) + 1)
        /\ \A i \in DOMAIN items : items'[i] = items[i] /\ (Framed(i)' <=> Framed(i))
        /\ items'[Len(items) + 1] = [kind |-> kind, bytes |-> bytes]
    BY <1>1, <1>3, Appended
  <1>7. 1..Len(items) = 1..K
    BY <1>5, <1>6 DEF FramedItems
  <1>8. Len(items) = K
    <2>1. Len(items) \in 1..Len(items) \/ Len(items) = 0
      BY <1>6
    <2>2. K \in 1..K \/ K = 0
      OBVIOUS
    <2>3. \A x : x \in 1..Len(items) <=> x \in 1..K
      BY <1>7
    <2>4. Len(items) <= K
      BY <2>1, <2>3, <1>6
    <2>5. K <= Len(items)
      BY <2>2, <2>3, <1>6
    <2>6. Len(items) \in Int /\ K \in Int
      BY <1>6
    <2> QED
      BY <2>4, <2>5, <2>6
  <1>9. items'[K + 1].kind = kind /\ items'[K + 1].bytes = bytes /\ Framed(K + 1)'
    BY <1>6, <1>8 DEF Framed
  <1>10. \A i \in DOMAIN items' : i \in DOMAIN items \/ i = K + 1
    BY <1>6, <1>8
  <1>11. \A i \in DOMAIN items' : Framed(i)'
    BY <1>5, <1>6, <1>9, <1>10
  <1>12. (FramedItems = 1..(K + 1))'
    BY <1>6, <1>8, <1>11 DEF FramedItems
  <1>13. ASSUME NEW i \in DOMAIN items'
         PROVE  /\ i <= Len(body') /\ items'[i].bytes = FrameBytes(i)'
                /\ body'[i].len <= MaxMessage
                /\ items'[i].kind = "message" <=> body'[i].ok
    <2>1. CASE i \in DOMAIN items
      BY <2>1, <1>1, <1>5, <1>6 DEF WholeFramesInOrder, FrameBytes
    <2>2. CASE i = K + 1
      <3>1. items'[i].bytes = FrameBytes(i)'
        BY <2>2, <1>1, <1>3, <1>9 DEF FrameBytes
      <3>2. i <= Len(body') /\ body'[i].len <= MaxMessage
        BY <2>2, <1>1, <1>2, <1>4
      <3>3. items'[i].kind = "message" <=> body'[i].ok
        BY <2>2, <1>1, <1>2, <1>9
      <3> QED
        BY <3>1, <3>2, <3>3
    <2> QED
      BY <1>10, <2>1, <2>2
  <1>14. WholeFramesInOrder'
    BY <1>13 DEF WholeFramesInOrder
  <1> QED
    BY <1>11, <1>12, <1>14 DEF Stopped

LEMMA OrderStep ==
    ASSUME IInv, Next
    PROVE  InOrder' /\ WholeFramesInOrder'
  <1> USE DEF source, wire, IInv
  <1>0. PICK K \in Nat : FramedItems = 1..K /\ Placed(K)
    BY DEF InOrder
  <1>1. CASE TakeFrame
    <2>1. Placed(K + 1)' /\ (FramedItems = 1..(K + 1))' /\ WholeFramesInOrder' /\ K + 1 \in Nat
      BY <1>0, <1>1, FrameTaken, FrameItem
    <2> QED
      BY <2>1 DEF InOrder
  <1>2. CASE Oversize \/ PollReset \/ Partial \/ ErrorStatus
    <2>1. UNCHANGED <<body, buf, queue, next>>
      BY <1>2 DEF Oversize, PollReset, Partial, ErrorStatus
    <2>2. PICK kind \in {"oversize", "partial", "reset", "status"} : Yield(kind, <<>>)
      BY <1>2 DEF Oversize, PollReset, Partial, ErrorStatus
    <2>3. (FramedItems = 1..K)' /\ WholeFramesInOrder'
      BY <1>0, <2>1, <2>2, ErrorItem
    <2> QED
      BY <1>0, <2>1, <2>3, StaysPlaced DEF InOrder
  <1>3. CASE PeerSend \/ PeerEnd \/ PeerReset \/ PollChunk \/ PollEnd \/ End \/ Drop
    <2>1. UNCHANGED <<body, items>>
      BY <1>3 DEF PeerSend, PeerEnd, PeerReset, PollChunk, PollEnd, End, Drop
    <2>2. (FramedItems = 1..K)' /\ WholeFramesInOrder'
      BY <1>0, <2>1 DEF FramedItems, Framed, WholeFramesInOrder, FrameBytes
    <2>3. CASE PeerEnd \/ PeerReset \/ PollEnd \/ End \/ Drop
      <3>1. UNCHANGED <<body, buf, queue, next>>
        BY <2>3 DEF PeerEnd, PeerReset, PollEnd, End, Drop
      <3> QED
        BY <1>0, <2>2, <3>1, StaysPlaced DEF InOrder
    <2> QED
      BY <1>0, <1>3, <2>2, <2>3, SendPlaced, ChunkPlaced DEF InOrder
  <1> QED
    BY <1>1, <1>2, <1>3 DEF Next, Poll

LEMMA StoppedStep ==
    ASSUME IInv, Next
    PROVE  Stopped'
  <1> USE DEF source, wire
  <1>0. TypeOK /\ Stopped /\ AtEof /\ \E K \in Nat : FramedItems = 1..K /\ Placed(K)
    BY DEF IInv, InOrder
  <1>1. CASE TakeFrame
    BY <1>0, <1>1, FrameItem DEF IInv
  <1>2. CASE Oversize
    BY <1>2 DEF Oversize, Stopped, TooLarge, HeaderRead, Declared
  <1>3. CASE PollReset
    BY <1>3 DEF PollReset, NeedsData, Stopped, FrameReady, TooLarge, HeaderRead, Declared
  <1>4. CASE Partial \/ ErrorStatus
    BY <1>4 DEF Partial, ErrorStatus, AtEnd, Stopped, FrameReady, TooLarge, HeaderRead, Declared
  <1>5. CASE PollChunk
    <2>1. queue # <<>> /\ ~TooLarge /\ ~eof /\ items' = items
      BY <1>5, FramingAssumption DEF PollChunk, NeedsData
    <2>2. \A i \in DOMAIN items : Framed(i)
      BY <1>0, <2>1 DEF Stopped
    <2> QED
      BY <2>1, <2>2 DEF Stopped, Framed
  <1>6. CASE PollEnd
    <2>1. ~FrameReady /\ eof' /\ UNCHANGED <<body, buf, items>>
      BY <1>6 DEF PollEnd, NeedsData
    <2> QED
      BY <2>1 DEF Stopped, FrameReady, TooLarge, HeaderRead, Declared
  <1>7. CASE PeerSend \/ PeerEnd \/ PeerReset
    <2>1. peer = "sending" /\ UNCHANGED <<body, buf, eof, items>>
      BY <1>7 DEF PeerSend, PeerEnd, PeerReset
    <2>2. ~eof
      BY <1>0, <2>1 DEF AtEof
    <2>3. \A i \in DOMAIN items : ~Framed(i) => TooLarge
      BY <1>0, <2>1, <2>2 DEF Stopped
    <2> QED
      BY <2>1, <2>3 DEF Stopped, Framed, TooLarge, HeaderRead, Declared
  <1>8. CASE End \/ Drop
    BY <1>0, <1>8 DEF End, Drop, Stopped, Framed, FrameReady, TooLarge, HeaderRead, Declared
  <1> QED
    BY <1>1, <1>2, <1>3, <1>4, <1>5, <1>6, <1>7, <1>8 DEF Next, Poll

LEMMA EofStep ==
    ASSUME IInv, Next
    PROVE  AtEof'
  <1> USE DEF source, wire
  <1>0. TypeOK /\ AtEof
    BY DEF IInv
  <1>1. CASE PeerSend \/ PeerEnd \/ PeerReset
    BY <1>0, <1>1 DEF PeerSend, PeerEnd, PeerReset, AtEof
  <1>2. CASE Oversize \/ TakeFrame \/ PollReset \/ Partial \/ ErrorStatus
    <2>1. PICK kind \in Kinds, bytes \in Seq(Bytes) :
             Yield(kind, bytes) /\ (ErrorStatus => kind = "status")
      <3>1. CASE TakeFrame
        <4>1. PICK K \in Nat : Placed(K)
          BY DEF IInv, InOrder
        <4>2. HeaderRead
          BY <3>1 DEF TakeFrame, FrameReady
        <4>3. SubSeq(buf, 1, HeaderLen + Declared) = FrameBytes(K + 1) /\ K + 1 \in 1..Len(body)
          BY <1>0, <3>1, <4>1, <4>2, FrameTaken, HeadFrame
        <4>4. SubSeq(buf, 1, HeaderLen + Declared) \in Seq(Bytes)
          BY <1>0, <4>3, FrameShape
        <4>5. ~ErrorStatus
          BY <3>1 DEF TakeFrame, ErrorStatus, AtEnd
        <4> QED
          BY <3>1, <4>4, <4>5 DEF TakeFrame, Kinds
      <3>2. CASE Oversize \/ PollReset \/ Partial \/ ErrorStatus
        <4>1. <<>> \in Seq(Bytes) /\ {"oversize", "reset", "partial", "status"} \subseteq Kinds
          BY DEF Kinds
        <4>2. CASE ErrorStatus
          BY <4>1, <4>2 DEF ErrorStatus
        <4>3. CASE (Oversize \/ PollReset \/ Partial) /\ ~ErrorStatus
          BY <4>1, <4>3 DEF Oversize, PollReset, Partial
        <4> QED
          BY <3>2, <4>2, <4>3
      <3> QED
        BY <1>2, <3>1, <3>2
    <2>2. /\ DOMAIN items \subseteq DOMAIN items' /\ Len(items) + 1 \in DOMAIN items'
          /\ \A i \in DOMAIN items : items'[i] = items[i]
          /\ items'[Len(items) + 1] = [kind |-> kind, bytes |-> bytes]
      BY <1>0, <2>1, Appended
    <2>3. UNCHANGED <<trailers, peer, queue, eof, reader>> /\ reader = "polling"
      BY <1>2 DEF Oversize, TakeFrame, PollReset, Partial, ErrorStatus, NeedsData, AtEnd
    <2>4. checked' = checked \/ (ErrorStatus /\ kind = "status")
      BY <1>2, <2>1 DEF Oversize, TakeFrame, PollReset, Partial, ErrorStatus
    <2>5. (checked /\ trailers = "error")' => \E i \in DOMAIN items' : items'[i].kind = "status"
      <3>1. CASE checked /\ trailers = "error"
        <4>1. PICK i \in DOMAIN items : items[i].kind = "status"
          BY <1>0, <3>1 DEF AtEof
        <4> QED
          BY <4>1, <2>2
      <3>2. CASE kind = "status"
        BY <3>2, <2>2
      <3> QED
        BY <3>1, <3>2, <2>3, <2>4
    <2> QED
      BY <1>0, <2>3, <2>5 DEF AtEof
  <1>3. CASE PollChunk \/ PollEnd
    BY <1>0, <1>3 DEF PollChunk, PollEnd, NeedsData, AtEof
  <1>4. CASE End \/ Drop
    BY <1>0, <1>4 DEF End, Drop, AtEnd, AtEof
  <1> QED
    BY <1>1, <1>2, <1>3, <1>4 DEF Next, Poll

LEMMA BufferStep ==
    ASSUME IInv, Next
    PROVE  BufferBounded'
  <1> USE DEF source, wire
  <1>0. TypeOK /\ BufferBounded /\ Len(buf) \in Nat
    BY Shapes DEF IInv
  <1>1. PICK K \in Nat : Placed(K)
    BY DEF IInv, InOrder
  <1>2. CASE TakeFrame
    <2>1. HeaderLen + Declared \in Nat
      <3>1. Declared \in Nat
        BY <1>0, <1>1, <1>2, HeadFrame DEF TakeFrame, FrameReady
      <3> QED
        BY <3>1, FramingAssumption
    <2>2. HeaderLen + Declared <= Len(buf) /\ buf' = SubSeq(buf, HeaderLen + Declared + 1, Len(buf))
      BY <1>2 DEF TakeFrame, FrameReady
    <2>3. buf \in Seq(Bytes)
      BY <1>0 DEF TypeOK
    <2>4. Len(buf') = Len(buf) - (HeaderLen + Declared)
      BY <1>0, <2>1, <2>2, <2>3, SubSeqProperties
    <2> QED
      BY <1>0, <2>1, <2>4, FramingAssumption DEF BufferBounded
  <1>3. CASE PollChunk
    <2>1. PICK n \in 1..MaxChunk :
             n <= Len(queue) /\ buf' = buf \o SubSeq(queue, 1, n)
      BY <1>3 DEF PollChunk
    <2>2. n \in Nat /\ n <= MaxChunk /\ buf \in Seq(Bytes) /\ queue \in Seq(Bytes)
      BY <1>0, FramingAssumption DEF TypeOK
    <2>3. SubSeq(queue, 1, n) \in Seq(Bytes) /\ Len(SubSeq(queue, 1, n)) = n
      BY <2>1, <2>2, SubSeqProperties
    <2>4. Len(buf') = Len(buf) + n
      BY <2>1, <2>2, <2>3, ConcatProperties
    \* No data is waited for behind a header that announces too much.
    <2>5. Len(buf) < HeaderLen + MaxMessage
      <3>1. CASE ~HeaderRead
        BY <1>0, <3>1, FramingAssumption DEF HeaderRead
      <3>2. CASE HeaderRead
        <4>1. Declared \in Nat
          BY <1>0, <1>1, <3>2, HeadFrame
        <4>2. ~(Declared > MaxMessage) /\ ~(Len(buf) >= HeaderLen + Declared)
          BY <1>3, <3>2 DEF PollChunk, NeedsData, TooLarge, FrameReady
        <4> QED
          BY <1>0, <4>1, <4>2, FramingAssumption
      <3> QED
        BY <3>1, <3>2
    <2> QED
      BY <1>0, <2>2, <2>4, <2>5, FramingAssumption DEF BufferBounded
  <1>4. CASE buf' = buf
    BY <1>0, <1>4 DEF BufferBounded
  <1>5. Next => TakeFrame \/ PollChunk \/ buf' = buf
    BY DEF Next, Poll, PeerSend, PeerEnd, PeerReset, Oversize, PollReset, PollEnd,
           Partial, ErrorStatus, End, Drop
  <1> QED
    BY <1>2, <1>3, <1>4, <1>5

LEMMA Invariance == Spec => []IInv
  <1>1. ASSUME IInv, Next PROVE IInv'
    BY <1>1, TypeStep, OrderStep, StoppedStep, EofStep, BufferStep DEF IInv
  <1>2. ASSUME IInv, UNCHANGED vars PROVE IInv'
    <2>1. UNCHANGED <<body, trailers, peer, next, sent, queue, buf, eof, checked, items, reader>>
      BY <1>2 DEF vars, source, wire
    <2>2. TypeOK' /\ BufferBounded' /\ WholeFramesInOrder'
      BY <1>2, <2>1 DEF IInv, TypeOK, BufferBounded, WholeFramesInOrder, Framed, FrameBytes
    <2>3. InOrder'
      BY <1>2, <2>1, StaysPlaced DEF IInv, InOrder, FramedItems, Framed
    <2>4. Stopped' /\ AtEof'
      BY <1>2, <2>1 DEF IInv, Stopped, AtEof, Framed, FrameReady, TooLarge, HeaderRead, Declared
    <2> QED
      BY <2>2, <2>3, <2>4 DEF IInv
  <1> QED
    BY <1>1, <1>2, InitInv, PTL DEF Spec

-----------------------------------------------------------------------------

\* Every variable keeps its type; what is read out of a frame is a byte of it.
THEOREM TypeCorrect == Spec => []TypeOK
  BY Invariance, PTL DEF IInv

\* What DeframeStream keeps of a peer's bytes is bounded by max_message_size,
\* whatever the chunks and the headers say.
THEOREM BufferIsBounded == Spec => []BufferBounded
  BY Invariance, PTL DEF IInv

\* However the body is cut into chunks, the frames that poll_next() yields
\* are the frames of the body, whole, in order and without a gap.
THEOREM FramesIntact == Spec => []WholeFramesInOrder
  BY Invariance, PTL DEF IInv

\* poll_next() returns None only behind the last byte of a body that ended,
\* and only after an error status in the trailers was yielded.
THEOREM CompleteEnd == Spec => []CleanEndIsComplete
  <1>1. ASSUME IInv, reader = "ended"
        PROVE  /\ peer = "end" /\ next.at = 1
               /\ FramedItems = 1..(next.frame - 1)
               /\ trailers = "error" => \E i \in DOMAIN items : items[i].kind = "status"
    <2>1. /\ peer = "end" /\ queue = <<>> /\ buf = <<>>
          /\ trailers = "error" => \E i \in DOMAIN items : items[i].kind = "status"
      BY <1>1 DEF IInv, AtEof
    <2>2. PICK K \in Nat : FramedItems = 1..K /\ Placed(K)
      BY <1>1 DEF IInv, InOrder
    <2>3. At(1) = next
      BY <2>1 DEF At, Total
    <2>4. next = [frame |-> K + 1, at |-> 1]
      BY <2>2, <2>3 DEF Placed
    <2> QED
      BY <2>1, <2>2, <2>4
  <1>2. IInv => CleanEndIsComplete
    BY <1>1 DEF CleanEndIsComplete
  <1> QED
    BY <1>2, Invariance, PTL

-----------------------------------------------------------------------------
\* The reader as FrameReader.

Erred == \E i \in DOMAIN items : items[i].kind # "message"

\* If an error was yielded, one was heard.
Told == Erred => \E i \in DOMAIN Heard : Heard[i].kind # "message"

LEMMA AllHeard ==
    ASSUME TypeOK, ~Erred
    PROVE  Heard = items
  <1> DEFINE upTo == {j \in DOMAIN items : \A k \in 1..(j - 1) : items[k].kind = "message"}
  <1>1. items \in Seq(Items) /\ Len(items) \in Nat /\ DOMAIN items = 1..Len(items)
    BY DEF TypeOK
  <1>2. \A j \in DOMAIN items : \A k \in 1..(j - 1) : k \in DOMAIN items
    BY <1>1
  <1>3. upTo = DOMAIN items
    BY <1>2 DEF Erred
  <1>4. items = [i \in DOMAIN items |-> items[i]]
    BY <1>1
  <1> QED
    BY <1>3, <1>4 DEF Heard

\* The first error is heard, and nothing is heard behind it.
LEMMA HeardMore ==
    ASSUME TypeOK, NEW kind \in Kinds, NEW bytes \in Seq(Bytes), Yield(kind, bytes)
    PROVE  /\ ~Erred => Heard' = items'
           /\ Erred => Heard' = Heard
  <1> DEFINE L == Len(items)
             upTo == {j \in DOMAIN items : \A k \in 1..(j - 1) : items[k].kind = "message"}
  <1>1. /\ L \in Nat /\ DOMAIN items = 1..L /\ DOMAIN items' = 1..(L + 1)
        /\ \A i \in 1..L : items'[i] = items[i]
    BY Appended
  <1>2. \A j \in 1..(L + 1) : \A k \in 1..(j - 1) : k \in 1..L
    BY <1>1
  <1>3. ASSUME ~Erred PROVE Heard' = items'
    <2>1. \A k \in 1..L : items'[k].kind = "message"
      BY <1>1, <1>3 DEF Erred
    <2>2. upTo' = DOMAIN items'
      BY <1>1, <1>2, <2>1
    <2>3. items' = [i \in DOMAIN items' |-> items'[i]]
      <3>1. items' = Append(items, [kind |-> kind, bytes |-> bytes])
        BY DEF Yield
      <3>2. items \in Seq(Items) /\ [kind |-> kind, bytes |-> bytes] \in Items
        BY DEF TypeOK, Items
      <3>3. items' \in Seq(Items)
        BY <3>1, <3>2
      <3> QED
        BY <3>3
    <2> QED
      BY <2>2, <2>3 DEF Heard
  <1>4. ASSUME Erred PROVE Heard' = Heard
    <2>1. PICK e \in 1..L : items[e].kind # "message"
      BY <1>1, <1>4 DEF Erred
    <2>2. e \in 1..((L + 1) - 1) /\ items'[e].kind # "message"
      BY <1>1, <2>1
    <2>3. L + 1 \notin upTo'
      BY <2>2
    <2>4. \A j \in 1..L : j \in upTo' <=> j \in upTo
      BY <1>1, <1>2
    <2>5. upTo' = upTo
      <3>1. \A j \in 1..(L + 1) : j \in 1..L \/ j = L + 1
        BY <1>1
      <3>2. upTo \subseteq 1..L /\ upTo' \subseteq 1..(L + 1)
        BY <1>1
      <3> HIDE DEF upTo
      <3> QED
        BY <2>3, <2>4, <3>1, <3>2
    <2>6. \A i \in upTo : items'[i] = items[i]
      BY <1>1
    <2> QED
      BY <2>5, <2>6 DEF Heard
  <1> QED
    BY <1>3, <1>4

\* Each step yields one item or none.
LEMMA ItemStep ==
    ASSUME IInv, Next
    PROVE  \/ UNCHANGED items
           \/ \E kind \in Kinds, bytes \in Seq(Bytes) : Yield(kind, bytes)
  <1>1. CASE TakeFrame
    <2>1. PICK K \in Nat : Placed(K)
      BY DEF IInv, InOrder
    <2>2. TypeOK /\ HeaderRead
      BY <1>1 DEF IInv, TakeFrame, FrameReady
    <2>3. SubSeq(buf, 1, HeaderLen + Declared) \in Seq(Bytes)
      BY <1>1, <2>1, <2>2, FrameTaken, HeadFrame, FrameShape
    <2> QED
      BY <1>1, <2>3 DEF TakeFrame, Kinds
  <1>2. CASE Oversize \/ PollReset \/ Partial \/ ErrorStatus
    <2>1. PICK kind \in Kinds : Yield(kind, <<>>)
      BY <1>2 DEF Oversize, PollReset, Partial, ErrorStatus, Kinds
    <2>2. <<>> \in Seq(Bytes)
      OBVIOUS
    <2> QED
      BY <2>1, <2>2
  <1>3. CASE PeerSend \/ PeerEnd \/ PeerReset \/ PollChunk \/ PollEnd \/ End \/ Drop
    BY <1>3 DEF PeerSend, PeerEnd, PeerReset, PollChunk, PollEnd, End, Drop
  <1> QED
    BY <1>1, <1>2, <1>3 DEF Next, Poll

LEMMA ToldStep ==
    ASSUME IInv, Told, [Next]_vars
    PROVE  Told'
  <1>1. CASE UNCHANGED items
    BY <1>1 DEF Told, Erred, Heard
  <1>2. CASE ~UNCHANGED items
    <2>1. Next
      BY <1>2 DEF vars
    <2>2. PICK kind \in Kinds, bytes \in Seq(Bytes) : Yield(kind, bytes)
      BY <1>2, <2>1, ItemStep
    <2>3. TypeOK
      BY DEF IInv
    <2>4. CASE Erred
      <3>1. Heard' = Heard
        BY <2>2, <2>3, <2>4, HeardMore
      <3> QED
        BY <2>4, <3>1 DEF Told
    <2>5. CASE ~Erred
      <3>1. Heard' = items'
        BY <2>2, <2>3, <2>5, HeardMore
      <3> QED
        BY <3>1 DEF Told, Erred
    <2> QED
      BY <2>4, <2>5
  <1> QED
    BY <1>1, <1>2

\* While no error was yielded, all items are frames.
LEMMA AllFramed ==
    ASSUME TypeOK, NEW K \in Nat, FramedItems = 1..K, ~Erred
    PROVE  Len(items) = K
  <1>1. Len(items) \in Nat /\ DOMAIN items = 1..Len(items)
    BY DEF TypeOK
  <1>2. FramedItems = DOMAIN items
    BY DEF FramedItems, Framed, Erred
  <1>3. K = 0 \/ K \in DOMAIN items
    BY <1>2
  <1>4. Len(items) = 0 \/ Len(items) \in 1..K
    BY <1>1, <1>2
  <1>5. K <= Len(items)
    BY <1>1, <1>3
  <1>6. Len(items) <= K
    BY <1>4
  <1>7. Len(items) \in Int /\ K \in Int
    BY <1>1
  <1> QED
    BY <1>5, <1>6, <1>7

\* The reader implements FrameReader for a consumer that stops at its first
\* error: a turn of the loop gives it a frame, its one error or the end, or
\* is nothing to it.
THEOREM ReaderKeepsThePromise == Spec => DeliversFrames
  <1> DEFINE contents == [i \in DOMAIN body |-> [bytes |-> FrameBytes(i), ok |-> body[i].ok,
                                                fits |-> body[i].len <= MaxMessage]]
             over == reader = "ended"
  <1>1. Init => Promised!Init /\ Told
    <2> SUFFICES ASSUME Init PROVE Promised!Init /\ Told
      OBVIOUS
    <2>1. items = <<>> /\ reader = "polling"
      BY DEF Init
    <2>2. Heard = <<>> /\ ~Erred
      BY <2>1 DEF Heard, Erred
    <2> QED
      BY <2>1, <2>2 DEF Promised!Init, Told
  <1>2. ASSUME IInv, Told, [Next]_vars
        PROVE  [Promised!Next]_<<contents, trailers, Heard, over>>
    <2> USE DEF source, wire
    <2>0. TypeOK /\ AtEof
      BY <1>2 DEF IInv
    <2>1. PICK K \in Nat : FramedItems = 1..K /\ Placed(K)
      BY <1>2 DEF IInv, InOrder
    <2>2. UNCHANGED <<body, trailers>>
      BY <1>2 DEF Next, Poll, PeerSend, PeerEnd, PeerReset, Oversize, TakeFrame, PollChunk,
                  PollReset, PollEnd, Partial, ErrorStatus, End, Drop, vars
    <2>3. UNCHANGED contents
      BY <2>2 DEF FrameBytes
    <2>4. /\ ~Erred => Heard = items /\ ~Promised!Failed
          /\ Erred => Promised!Failed
      BY <1>2, <2>0, AllHeard DEF Promised!Failed, Erred, Told
    <2>5. ASSUME ~Erred
          PROVE  Len(items) = K
      BY <2>0, <2>1, <2>5, AllFramed
    <2>6. ASSUME HeaderRead
          PROVE  /\ K + 1 \in DOMAIN contents /\ buf[1].frame = K + 1
                 /\ contents[K + 1].bytes = FrameBytes(K + 1)
                 /\ contents[K + 1].ok = body[K + 1].ok
                 /\ contents[K + 1].fits <=> Declared <= MaxMessage
                 /\ Declared \in Nat
      <3>1. /\ buf[1] = [frame |-> K + 1, at |-> 1] /\ K + 1 \in 1..Len(body)
            /\ Declared = body[K + 1].len /\ Declared \in Nat
        BY <2>0, <2>1, <2>6, HeadFrame
      <3>2. K + 1 \in DOMAIN body
        <4>1. body \in Seq(Frames)
          BY <2>0, Shapes
        <4> QED
          BY <3>1, <4>1
      <3>3. contents[K + 1] = [bytes |-> FrameBytes(K + 1), ok |-> body[K + 1].ok,
                               fits |-> body[K + 1].len <= MaxMessage]
        BY <3>2
      <3>4. contents[K + 1].fits <=> Declared <= MaxMessage
        <4>1. contents[K + 1].fits = (body[K + 1].len <= MaxMessage)
          BY <3>2, Zenon
        <4> QED
          BY <3>1, <4>1, Zenon
      <3> QED
        BY <3>1, <3>2, <3>3, <3>4
    <2> HIDE DEF contents
    <2>7. ASSUME UNCHANGED <<Heard, reader>>
          PROVE  UNCHANGED <<contents, trailers, Heard, over>>
      BY <2>2, <2>3, <2>7
    \* Behind an error nothing that is yielded is heard.
    <2>8. CASE Erred /\ (Oversize \/ TakeFrame \/ PollReset \/ Partial \/ ErrorStatus)
      <3>1. UNCHANGED items => UNCHANGED Heard
        BY DEF Heard
      <3>2. ASSUME NEW kind \in Kinds, NEW bytes \in Seq(Bytes), Yield(kind, bytes)
            PROVE  UNCHANGED Heard
        BY <2>0, <2>8, <3>2, HeardMore
      <3>3. UNCHANGED Heard
        <4>1. Next
          BY <2>8 DEF Next, Poll
        <4> QED
          BY <1>2, <3>1, <3>2, <4>1, ItemStep
      <3>4. UNCHANGED reader
        BY <2>8 DEF Oversize, TakeFrame, PollReset, Partial, ErrorStatus
      <3> QED
        BY <2>7, <3>3, <3>4
    <2>9. CASE ~Erred /\ TakeFrame
      <3>1. HeaderRead /\ Declared <= MaxMessage
        <4>1. HeaderRead /\ ~TooLarge
          BY <2>9 DEF TakeFrame, FrameReady
        <4> QED
          BY <2>6, <4>1, FramingAssumption DEF TooLarge
      <3>2. SubSeq(buf, 1, HeaderLen + Declared) = FrameBytes(K + 1)
        BY <2>0, <2>1, <2>9, FrameTaken
      <3>3. Len(items) = K /\ Heard = items /\ ~Promised!Failed
        BY <2>4, <2>5, <2>9
      <3>4. Heard' = items'
        <4>1. PICK kind \in Kinds, bytes \in Seq(Bytes) : Yield(kind, bytes)
          <5>1. FrameBytes(K + 1) \in Seq(Bytes)
            BY <2>0, <2>1, <3>1, HeadFrame, FrameShape
          <5> QED
            BY <2>9, <3>2, <5>1 DEF TakeFrame, Kinds
        <4> QED
          BY <2>0, <2>9, <4>1, HeardMore
      <3>5. items' = Append(items, [kind |-> IF contents[Len(items) + 1].ok THEN "message" ELSE "undecodable",
                                    bytes |-> contents[Len(items) + 1].bytes])
        <4>1. items' = Append(items, [kind |-> IF body[K + 1].ok THEN "message" ELSE "undecodable",
                                      bytes |-> FrameBytes(K + 1)])
          BY <2>6, <2>9, <3>1, <3>2 DEF TakeFrame, Yield
        <4> QED
          BY <2>6, <3>1, <3>3, <4>1
      <3>6. Len(items) + 1 \in DOMAIN contents /\ contents[Len(items) + 1].fits
        BY <2>6, <3>1, <3>3
      <3>7. ~over /\ UNCHANGED over
        BY <2>9 DEF TakeFrame
      <3>8. Promised!Deliver
        BY <2>2, <2>3, <3>3, <3>4, <3>5, <3>6, <3>7
        DEF Promised!Deliver, Promised!Due, Promised!Give, contents
      <3> QED
        BY <3>7, <3>8 DEF Promised!Next
    <2>10. ASSUME ~Erred, NEW kind \in {"oversize", "partial", "reset", "status"}, Yield(kind, <<>>),
                  ~over, UNCHANGED over
           PROVE  Promised!Fail(kind)
      <3>1. kind \in Kinds /\ <<>> \in Seq(Bytes)
        BY DEF Kinds
      <3>2. Heard' = items' /\ Heard = items /\ ~Promised!Failed
        BY <2>0, <2>4, <2>10, <3>1, HeardMore
      <3>3. items' = Append(items, [kind |-> kind, bytes |-> <<>>])
        BY <2>10 DEF Yield
      <3> QED
        BY <2>2, <2>3, <2>10, <3>2, <3>3 DEF Promised!Fail, Promised!Give, contents
    <2>11. CASE ~Erred /\ Oversize
      <3>1. HeaderRead /\ ~(Declared <= MaxMessage)
        BY <2>6, <2>11, FramingAssumption DEF Oversize, TooLarge
      <3>2. Len(items) = K /\ Heard = items
        BY <2>4, <2>5, <2>11
      <3>3. Len(Heard) + 1 \in DOMAIN contents /\ ~contents[Len(Heard) + 1].fits
        BY <2>6, <3>1, <3>2
      <3>4. Promised!Fail("oversize") /\ ~over
        BY <2>10, <2>11 DEF Oversize
      <3> QED
        BY <3>3, <3>4 DEF Promised!Next, Promised!Refuse, Promised!Due, contents
    <2>12. CASE ~Erred /\ (PollReset \/ Partial)
      <3>1. ~over /\ (Promised!Fail("reset") \/ Promised!Fail("partial"))
        BY <2>10, <2>12 DEF PollReset, Partial, NeedsData, AtEnd
      <3> QED
        BY <3>1 DEF Promised!Next, Promised!Break
    <2>13. CASE ~Erred /\ ErrorStatus
      <3>1. ~over /\ Promised!Fail("status") /\ trailers = "error"
        BY <2>10, <2>13 DEF ErrorStatus, AtEnd
      <3> QED
        BY <3>1 DEF Promised!Next, Promised!Report
    <2>14. CASE End
      <3>1. trailers = "error" => Erred
        BY <2>0, <2>14 DEF End, AtEof, Erred
      <3>2. ~over /\ over' /\ UNCHANGED items
        BY <2>14 DEF End, AtEnd
      <3>3. UNCHANGED Heard
        BY <3>2 DEF Heard
      <3>4. Promised!Finish
        BY <2>2, <2>3, <2>4, <3>1, <3>2, <3>3 DEF Promised!Finish, contents
      <3> QED
        BY <3>2, <3>4 DEF Promised!Next
    <2>15. CASE PeerSend \/ PeerEnd \/ PeerReset \/ PollChunk \/ PollEnd \/ Drop \/ UNCHANGED vars
      <3>1. UNCHANGED items /\ over' = over
        BY <2>15 DEF PeerSend, PeerEnd, PeerReset, PollChunk, PollEnd, Drop, NeedsData, vars
      <3>2. UNCHANGED Heard
        BY <3>1 DEF Heard
      <3> QED
        BY <2>2, <2>3, <3>1, <3>2
    <2>16. CASE Oversize \/ TakeFrame \/ PollReset \/ Partial \/ ErrorStatus
      BY <2>8, <2>9, <2>11, <2>12, <2>13, <2>16
    <2> QED
      BY <1>2, <2>14, <2>15, <2>16 DEF Next, Poll
  <1>3. ASSUME IInv, Told, [Next]_vars
        PROVE  Told'
    BY <1>3, ToldStep
  <1> QED
    BY <1>1, <1>2, <1>3, Invariance, PTL DEF Spec, DeliversFrames, Promised!Spec

=============================================================================
