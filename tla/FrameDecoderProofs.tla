------------------------- MODULE FrameDecoderProofs -------------------------
(***************************************************************************)
(* What holds of the decoder and its reader for every header size, payload *)
(* limit and batch limit.  The invariant behind the batch limit counts     *)
(* bytes: every message of a feed but the first took a whole header out of *)
(* this chunk, and the first at least one byte.  The invariant behind      *)
(* framing says that the pipe and the chunk are pieces of the stream       *)
(* without a gap and that each begins where the part before it stops: the  *)
(* pipe after the last byte read, the chunk where the decoder is.          *)
(***************************************************************************)
EXTENDS FrameDecoder, SequenceTheorems, TLAPS

\* Where the decoder is within a frame.
FrameInv ==
  /\ header = NoHeader => Len(headerBytes) < HeaderSize /\ body = <<>>
  /\ header # NoHeader => /\ Len(headerBytes) = HeaderSize
                          /\ frames[header].payload <= MaxPayload
                          /\ Len(body) <= frames[header].payload

\* What is left of the chunk that is being fed.
BatchInv ==
  /\ phase = "reading" => /\ messages = <<>> /\ input = <<>>
                          /\ header # NoHeader => ~BodyComplete
  /\ phase = "feeding" /\ messages = <<>> =>
       /\ Len(input) <= ReadBytes
       /\ header # NoHeader /\ BodyComplete => Len(input) < ReadBytes
  /\ phase = "feeding" /\ messages # <<>> =>
       HeaderSize * (Len(messages) - 1) + Len(headerBytes) + Len(input) < ReadBytes

IInv == TypeOK /\ FrameInv /\ BatchInv /\ BatchNeverTooLarge

-----------------------------------------------------------------------------

\* A part of a sequence.
LEMMA PartOfSeq ==
  ASSUME NEW S, NEW s \in Seq(S), NEW n \in 0 .. Len(s)
  PROVE  /\ SubSeq(s, 1, n) \in Seq(S)
         /\ Len(SubSeq(s, 1, n)) = n
         /\ SubSeq(s, n + 1, Len(s)) \in Seq(S)
         /\ Len(SubSeq(s, n + 1, Len(s))) = Len(s) - n
<1>1. \A i \in 1 .. n : s[i] \in S
  OBVIOUS
<1>2. \A i \in n + 1 .. Len(s) : s[i] \in S
  OBVIOUS
<1>3. SubSeq(s, 1, n) \in Seq(S) /\ Len(SubSeq(s, 1, n)) = n
  BY <1>1, SubSeqProperties
<1>4. SubSeq(s, n + 1, Len(s)) \in Seq(S)
      /\ Len(SubSeq(s, n + 1, Len(s))) = Len(s) - n
  BY <1>2, SubSeqProperties
<1> QED BY <1>3, <1>4

\* Sequences over a set are sequences over a larger one.
LEMMA SeqMonotone ==
  ASSUME NEW S, NEW T, S \subseteq T, NEW s \in Seq(S)
  PROVE  s \in Seq(T)
OBVIOUS

LEMMA FunctionIsSeq ==
  ASSUME NEW S, NEW n \in Nat, NEW g \in [1 .. n -> S]
  PROVE  g \in Seq(S)
OBVIOUS

\* The arithmetic of one header more.
LEMMA HeaderStep ==
  ASSUME NEW h \in Nat \ {0}, NEW m \in Nat \ {0}
  PROVE  h * m = h * (m - 1) + h
OBVIOUS

LEMMA HeaderMonotone ==
  ASSUME NEW h \in Nat \ {0}, NEW m \in Nat, NEW n \in Nat, m <= n
  PROVE  h * m <= h * n
OBVIOUS

LEMMA HeaderProduct ==
  ASSUME NEW h \in Nat, NEW n \in Nat
  PROVE  h * n \in Nat
OBVIOUS

LEMMA ReadBytesPositive ==
  /\ ReadBytes \in Nat \ {0}
  /\ HeaderSize \in Nat \ {0} /\ MaxPayload \in Nat /\ MaxMessagesPerFeed \in Nat \ {0}
BY DecoderAssumption DEF ReadBytes

LEMMA LeastOfTwo ==
  ASSUME NEW m \in Nat, NEW n \in Nat
  PROVE  Least(m, n) \in Nat /\ Least(m, n) <= m /\ Least(m, n) <= n
         /\ (Least(m, n) = m \/ Least(m, n) = n)
BY DEF Least

-----------------------------------------------------------------------------

LEMMA InitInv == Init => IInv
<1> SUFFICES ASSUME Init PROVE IInv
  OBVIOUS
<1>1. TypeOK
  <2>1. <<>> \in Seq(Frames) /\ <<>> \in Seq(Bytes) /\ <<>> \in Seq(Decoded)
    OBVIOUS
  <2>2. Len(<<>>) = 0
    OBVIOUS
  <2>3. header \in 0 .. Len(frames) /\ Len(frames) <= MaxFrames
    BY <2>2, DecoderAssumption DEF Init, NoHeader
  <2>4. Len(headerBytes) <= HeaderSize /\ Len(body) <= MaxPayload
    BY <2>2, ReadBytesPositive DEF Init
  <2> QED BY <2>1, <2>3, <2>4 DEF Init, TypeOK
<1>2. FrameInv /\ BatchInv /\ BatchNeverTooLarge
  BY ReadBytesPositive
     DEF Init, FrameInv, BatchInv, BatchNeverTooLarge, NoHeader
<1> QED BY <1>1, <1>2 DEF IInv

\* The frames written stay as they are, and the bytes and messages of theirs.
LEMMA WriteGrows ==
  ASSUME IInv, NEW f \in Frames, Write(f)
  PROVE  /\ Len(frames') = Len(frames) + 1
         /\ \A k \in 1 .. Len(frames) : frames'[k] = frames[k]
         /\ frames' \in Seq(Frames) /\ Len(frames') <= MaxFrames
         /\ Bytes \subseteq Bytes' /\ Seq(Decoded) \subseteq Seq(Decoded')
<1> USE DEF IInv, TypeOK, Write
<1>1. /\ Len(frames') = Len(frames) + 1
      /\ \A k \in 1 .. Len(frames) : frames'[k] = frames[k]
      /\ frames' \in Seq(Frames) /\ Len(frames') <= MaxFrames
  BY DecoderAssumption
<1>2. Bytes \subseteq Bytes'
  BY <1>1 DEF Bytes
<1>3. Seq(Bytes) \subseteq Seq(Bytes')
  BY <1>2, SeqMonotone
<1>4. Decoded \subseteq Decoded'
  <2>1. 1 .. Len(frames) \subseteq 1 .. Len(frames')
    BY <1>1
  <2>2. SUFFICES ASSUME NEW d \in Decoded PROVE d \in Decoded'
    OBVIOUS
  <2>3. Decoded' = [frame : 1 .. Len(frames'), payload : Seq(Bytes')]
    BY DEF Decoded
  <2> QED BY <2>1, <2>2, <2>3, <1>3 DEF Decoded
<1> QED BY <1>1, <1>2, <1>4, SeqMonotone

LEMMA WriteInv == IInv /\ (\E f \in Frames : Write(f)) => IInv'
<1> SUFFICES ASSUME IInv, NEW f \in Frames, Write(f) PROVE IInv'
  OBVIOUS
<1>1. /\ Len(frames') = Len(frames) + 1
      /\ \A k \in 1 .. Len(frames) : frames'[k] = frames[k]
      /\ frames' \in Seq(Frames) /\ Len(frames') <= MaxFrames
      /\ Bytes \subseteq Bytes' /\ Seq(Decoded) \subseteq Seq(Decoded')
  BY WriteGrows
<1>2. UNCHANGED <<closed, input, headerBytes, body, header, failure, messages,
                  delivered, lastByte, phase>>
  BY DEF Write, decoderVars
<1>3. pipe' \in Seq(Bytes')
  <2> DEFINE new == [j \in 1 .. HeaderSize + f.payload |-> <<Len(frames) + 1, j - 1>>]
  <2>1. new \in Seq(Bytes')
    <3>1. \A j \in 1 .. HeaderSize + f.payload : <<Len(frames) + 1, j - 1>> \in Bytes'
      <4>1. f.payload \in 0 .. MaxPayload + 2
        BY DEF Frames
      <4>2. Bytes' = (1 .. Len(frames')) \X (0 .. HeaderSize + MaxPayload + 1)
        BY DEF Bytes
      <4>3. Len(frames) + 1 \in 1 .. Len(frames')
        BY <1>1 DEF IInv, TypeOK
      <4>4. \A j \in 1 .. HeaderSize + f.payload : j - 1 \in 0 .. HeaderSize + MaxPayload + 1
        BY <4>1, ReadBytesPositive
      <4> QED BY <4>2, <4>3, <4>4
    <3>2. HeaderSize + f.payload \in Nat
      BY ReadBytesPositive DEF Frames
    <3>3. new \in [1 .. HeaderSize + f.payload -> Bytes']
      BY <3>1
    <3>4. ASSUME NEW m \in Nat, NEW g \in [1 .. m -> Bytes'] PROVE g \in Seq(Bytes')
      BY FunctionIsSeq
    <3> HIDE DEF new
    <3> QED BY <3>2, <3>3, <3>4
  <2>2. pipe \in Seq(Bytes')
    BY <1>1, SeqMonotone DEF IInv, TypeOK
  <2>3. pipe' = pipe \o new
    BY DEF Write
  <2> QED BY <2>1, <2>2, <2>3, ConcatProperties
<1>4. TypeOK'
  <2>1. input' \in Seq(Bytes') /\ headerBytes' \in Seq(Bytes') /\ body' \in Seq(Bytes')
    BY <1>1, <1>2, SeqMonotone DEF IInv, TypeOK
  <2>2. lastByte' \in Bytes' \cup {NoByte}
    BY <1>1, <1>2 DEF IInv, TypeOK
  <2>3. header' \in 0 .. Len(frames')
    BY <1>1, <1>2 DEF IInv, TypeOK
  <2> QED BY <2>1, <2>2, <2>3, <1>1, <1>2, <1>3 DEF IInv, TypeOK
<1>5. header # NoHeader => frames'[header] = frames[header]
  BY <1>1 DEF IInv, TypeOK, NoHeader
<1>6. FrameInv' /\ BatchInv' /\ BatchNeverTooLarge'
  BY <1>2, <1>5 DEF IInv, FrameInv, BatchInv, BatchNeverTooLarge, BodyComplete, ReadBytes
<1> QED BY <1>4, <1>6 DEF IInv

LEMMA CloseInv == IInv /\ Close => IInv'
<1> SUFFICES ASSUME IInv, Close PROVE IInv'
  OBVIOUS
<1>1. PICK n \in 0 .. Len(pipe) : pipe' = SubSeq(pipe, 1, n)
  BY DEF Close
<1>2. pipe' \in Seq(Bytes)
  BY <1>1, PartOfSeq DEF IInv, TypeOK
<1> QED
  BY <1>2 DEF Close, IInv, TypeOK, FrameInv, BatchInv, BatchNeverTooLarge,
              Bytes, Decoded, BodyComplete, decoderVars, ReadBytes

LEMMA ReadInv == IInv /\ (\E n \in 1 .. Len(pipe) : Read(n)) => IInv'
<1> SUFFICES ASSUME IInv, NEW n \in 1 .. Len(pipe), Read(n) PROVE IInv'
  OBVIOUS
<1>1. /\ input' \in Seq(Bytes) /\ Len(input') = n
      /\ pipe' \in Seq(Bytes)
  BY PartOfSeq DEF Read, IInv, TypeOK
<1>2. lastByte' \in Bytes
  BY DEF Read, IInv, TypeOK
<1>3. TypeOK'
  <2>1. Bytes' = Bytes /\ Decoded' = Decoded
    BY DEF Read, Bytes, Decoded
  <2> QED BY <1>1, <1>2, <2>1 DEF Read, IInv, TypeOK, decoderVars
<1>4. n <= ReadBytes /\ n \in Nat
  BY DEF Read, IInv, TypeOK
<1>5. BatchInv'
  BY <1>1, <1>4 DEF Read, IInv, BatchInv, BodyComplete, decoderVars, ReadBytes
<1>6. FrameInv' /\ BatchNeverTooLarge'
  BY DEF Read, IInv, FrameInv, BatchNeverTooLarge, decoderVars
<1> QED BY <1>3, <1>5, <1>6 DEF IInv

-----------------------------------------------------------------------------

\* The frame a header names has been written, and its payload fits.
LEMMA ParsedFrame ==
  ASSUME TypeOK, NEW b \in Seq(Bytes), Len(b) = HeaderSize
  PROVE  /\ Parsed(b) \in 0 .. Len(frames)
         /\ Parsed(b) # NoHeader => frames[Parsed(b)].payload <= MaxPayload
<1>1. b[1] \in Bytes
  BY ReadBytesPositive
<1>2. b[1][1] \in 1 .. Len(frames)
  BY <1>1 DEF Bytes
<1> QED BY <1>2 DEF Parsed, NoHeader, TypeOK

\* A failure leaves the decoder empty and the reader done.
LEMMA FailInv ==
  ASSUME TypeOK, NEW kind \in {"header", "truncated"}, Fail(kind),
         input' \in Seq(Bytes), UNCHANGED <<frames, pipe, closed, delivered, lastByte>>
  PROVE  TypeOK' /\ FrameInv' /\ BatchInv' /\ BatchNeverTooLarge'
<1>1. Bytes' = Bytes /\ Decoded' = Decoded
  BY DEF Bytes, Decoded
<1>2. <<>> \in Seq(Bytes) /\ <<>> \in Seq(Decoded) /\ Len(<<>>) = 0
  OBVIOUS
<1>3. TypeOK'
  <2>1. NoHeader \in 0 .. Len(frames)
    BY DEF NoHeader, TypeOK
  <2> QED BY <1>1, <1>2, <2>1, ReadBytesPositive DEF Fail, TypeOK
<1>4. FrameInv' /\ BatchInv' /\ BatchNeverTooLarge'
  BY <1>2, ReadBytesPositive DEF Fail, FrameInv, BatchInv, BatchNeverTooLarge
<1> QED BY <1>3, <1>4

LEMMA FeedHeaderInv == IInv /\ FeedHeader => IInv'
<1> SUFFICES ASSUME IInv, FeedHeader PROVE IInv'
  OBVIOUS
<1> DEFINE take == Least(HeaderSize - Len(headerBytes), Len(input))
           b == headerBytes \o SubSeq(input, 1, take)
<1>1. /\ phase = "feeding" /\ input # <<>> /\ header = NoHeader
      /\ input \in Seq(Bytes) /\ headerBytes \in Seq(Bytes)
      /\ Len(headerBytes) < HeaderSize /\ body = <<>>
      /\ HeaderSize \in Nat
  BY ReadBytesPositive DEF FeedHeader, IInv, TypeOK, FrameInv
<1>2. /\ take \in 1 .. Len(input)
      /\ Len(headerBytes) + take <= HeaderSize
  <2>1. Len(input) \in Nat \ {0} /\ HeaderSize - Len(headerBytes) \in Nat \ {0}
        /\ Len(headerBytes) \in Nat
    BY <1>1
  <2>2. take \in Nat /\ take <= HeaderSize - Len(headerBytes) /\ take <= Len(input)
        /\ (take = HeaderSize - Len(headerBytes) \/ take = Len(input))
    BY <2>1, LeastOfTwo
  <2> HIDE DEF take
  <2> QED BY <2>1, <2>2, <1>1
<1>3. /\ SubSeq(input, 1, take) \in Seq(Bytes) /\ Len(SubSeq(input, 1, take)) = take
      /\ input' \in Seq(Bytes) /\ Len(input') = Len(input) - take
  <2>1. input' = SubSeq(input, take + 1, Len(input))
    BY DEF FeedHeader
  <2> HIDE DEF take
  <2> QED BY <1>1, <1>2, <2>1, PartOfSeq
<1>4. b \in Seq(Bytes) /\ Len(b) = Len(headerBytes) + take
  <2> HIDE DEF take
  <2> QED BY <1>1, <1>3, ConcatProperties
<1>5. UNCHANGED <<frames, pipe, closed, delivered, lastByte>>
  BY DEF FeedHeader
<1>6. Bytes' = Bytes /\ Decoded' = Decoded /\ ReadBytes' = ReadBytes
  BY <1>5 DEF Bytes, Decoded, ReadBytes
<1>7. Len(input') < Len(input) /\ Len(input') + Len(b) = Len(input) + Len(headerBytes)
  <2> HIDE DEF take, b
  <2> QED BY <1>1, <1>2, <1>3, <1>4
<1>8. \/ /\ Len(b) < HeaderSize
         /\ headerBytes' = b
         /\ UNCHANGED <<header, body, failure, messages, phase>>
      \/ /\ Len(b) = HeaderSize /\ Parsed(b) # NoHeader
         /\ headerBytes' = b
         /\ header' = Parsed(b)
         /\ UNCHANGED <<body, failure, messages, phase>>
      \/ Fail("header")
  BY DEF FeedHeader
<1> HIDE DEF take, b
<1>9. CASE /\ Len(b) < HeaderSize
           /\ headerBytes' = b
           /\ UNCHANGED <<header, body, failure, messages, phase>>
  <2>1. TypeOK'
    BY <1>1, <1>3, <1>4, <1>5, <1>6, <1>9 DEF IInv, TypeOK
  <2>2. FrameInv' /\ BatchNeverTooLarge'
    BY <1>1, <1>9 DEF IInv, FrameInv, BatchNeverTooLarge
  <2>3. BatchInv'
    <3>1. CASE messages = <<>>
      BY <1>1, <1>3, <1>6, <1>7, <1>9, <3>1, ReadBytesPositive DEF IInv, BatchInv
    <3>2. CASE messages # <<>>
      BY <1>1, <1>6, <1>7, <1>9, <3>2 DEF IInv, BatchInv
    <3> QED BY <3>1, <3>2
  <2> QED BY <2>1, <2>2, <2>3 DEF IInv
<1>10. CASE /\ Len(b) = HeaderSize /\ Parsed(b) # NoHeader
            /\ headerBytes' = b
            /\ header' = Parsed(b)
            /\ UNCHANGED <<body, failure, messages, phase>>
  <2>1. /\ header' \in 0 .. Len(frames) /\ header' # NoHeader
        /\ frames[header'].payload <= MaxPayload
    BY <1>4, <1>10, ParsedFrame DEF IInv
  <2>2. TypeOK'
    BY <1>1, <1>3, <1>4, <1>5, <1>6, <1>10, <2>1 DEF IInv, TypeOK
  <2>3. FrameInv' /\ BatchNeverTooLarge'
    <3>1. frames[header'].payload \in Nat
      <4>1. header' \in 1 .. Len(frames) /\ frames \in Seq(Frames)
        BY <2>1 DEF NoHeader, IInv, TypeOK
      <4>2. frames[header'] \in Frames
        BY <4>1
      <4> QED BY <4>2, ReadBytesPositive DEF Frames
    <3>2. Len(body') = 0
      BY <1>1, <1>10
    <3> QED BY <1>5, <1>10, <2>1, <3>1, <3>2 DEF IInv, FrameInv, BatchNeverTooLarge
  <2>4. BatchInv'
    <3>1. CASE messages = <<>>
      BY <1>1, <1>3, <1>6, <1>7, <1>10, <3>1, ReadBytesPositive DEF IInv, BatchInv
    <3>2. CASE messages # <<>>
      BY <1>1, <1>6, <1>7, <1>10, <3>2 DEF IInv, BatchInv
    <3> QED BY <3>1, <3>2
  <2> QED BY <2>2, <2>3, <2>4 DEF IInv
<1>11. CASE Fail("header")
  BY <1>3, <1>5, <1>6, <1>11, FailInv DEF IInv
<1> QED BY <1>8, <1>9, <1>10, <1>11

\* The bytes of the chunk show that the batch limit is out of reach.
LEMMA RoomInBatch ==
  ASSUME IInv, phase = "feeding", header # NoHeader
  PROVE  Len(messages) < MaxMessagesPerFeed
<1>1. /\ Len(messages) \in Nat /\ Len(input) \in Nat
      /\ messages # <<>> => Len(messages) # 0
      /\ Len(headerBytes) = HeaderSize
  BY DEF IInv, TypeOK, FrameInv
<1>2. CASE messages = <<>>
  BY <1>2, ReadBytesPositive
<1>3. CASE messages # <<>>
  <2>1. HeaderSize * (Len(messages) - 1) + HeaderSize + Len(input)
          < HeaderSize * MaxMessagesPerFeed
    BY <1>1, <1>3 DEF IInv, BatchInv, ReadBytes
  <2>2. HeaderSize * Len(messages) = HeaderSize * (Len(messages) - 1) + HeaderSize
    BY <1>1, <1>3, HeaderStep, ReadBytesPositive
  <2>3. MaxMessagesPerFeed <= Len(messages) =>
          HeaderSize * MaxMessagesPerFeed <= HeaderSize * Len(messages)
    BY <1>1, HeaderMonotone, ReadBytesPositive
  <2>4. /\ HeaderSize * Len(messages) \in Nat
        /\ HeaderSize * MaxMessagesPerFeed \in Nat
        /\ MaxMessagesPerFeed \in Nat
    BY <1>1, ReadBytesPositive
  <2> QED BY <1>1, <2>1, <2>2, <2>3, <2>4
<1> QED BY <1>2, <1>3

LEMMA FeedBodyInv == IInv /\ FeedBody => IInv'
<1> SUFFICES ASSUME IInv, FeedBody PROVE IInv'
  OBVIOUS
<1> DEFINE size == frames[header].payload
           take == Least(size - Len(body), Len(input))
           b == body \o SubSeq(input, 1, take)
<1>1. /\ phase = "feeding" /\ header # NoHeader
      /\ input # <<>> \/ BodyComplete
      /\ input \in Seq(Bytes) /\ Len(input) \in Nat
      /\ headerBytes \in Seq(Bytes) /\ Len(headerBytes) = HeaderSize
      /\ body \in Seq(Bytes) /\ Len(body) \in Nat
      /\ messages \in Seq(Decoded) /\ Len(messages) \in Nat
      /\ size \in Nat /\ size <= MaxPayload /\ Len(body) <= size
      /\ header \in 1 .. Len(frames)
  <2>1. header \in 1 .. Len(frames) /\ frames \in Seq(Frames)
    BY DEF FeedBody, IInv, TypeOK, NoHeader
  <2>2. frames[header] \in Frames
    BY <2>1
  <2>3. size \in Nat
    BY <2>2, ReadBytesPositive DEF Frames
  <2> QED BY <2>1, <2>3 DEF FeedBody, IInv, TypeOK, FrameInv
<1>2. /\ take \in 0 .. Len(input)
      /\ Len(body) + take <= size
      /\ take = 0 => BodyComplete
  <2>1. size - Len(body) \in Nat
    BY <1>1
  <2>2. take \in Nat /\ take <= size - Len(body) /\ take <= Len(input)
        /\ (take = size - Len(body) \/ take = Len(input))
    BY <1>1, <2>1, LeastOfTwo
  <2> HIDE DEF take
  <2>3. BodyComplete <=> Len(body) = size
    BY DEF BodyComplete
  <2>4. Len(input) = 0 => input = <<>>
    BY <1>1
  <2> HIDE DEF size
  <2> QED BY <1>1, <2>2, <2>3, <2>4
<1>3. /\ SubSeq(input, 1, take) \in Seq(Bytes) /\ Len(SubSeq(input, 1, take)) = take
      /\ input' \in Seq(Bytes) /\ Len(input') = Len(input) - take
  <2>1. input' = SubSeq(input, take + 1, Len(input))
    BY DEF FeedBody
  <2> HIDE DEF take
  <2> QED BY <1>1, <1>2, <2>1, PartOfSeq
<1>4. b \in Seq(Bytes) /\ Len(b) = Len(body) + take
  <2> HIDE DEF take
  <2> QED BY <1>1, <1>3, ConcatProperties
<1>5. UNCHANGED <<frames, pipe, closed, delivered, lastByte>>
  BY DEF FeedBody
<1>6. Bytes' = Bytes /\ Decoded' = Decoded
  BY <1>5 DEF Bytes, Decoded
<1>7. \/ /\ Len(b) < size
         /\ body' = b
         /\ UNCHANGED <<headerBytes, header, failure, messages, phase>>
      \/ /\ Len(messages) < MaxMessagesPerFeed
         /\ messages' = Append(messages, [frame |-> header, payload |-> b])
         /\ headerBytes' = <<>>
         /\ body' = <<>>
         /\ header' = NoHeader
         /\ UNCHANGED <<failure, phase>>
  <2>1. ~(Len(messages) >= MaxMessagesPerFeed)
    BY <1>1, RoomInBatch, ReadBytesPositive
  <2>2. \/ /\ Len(b) < size
           /\ body' = b
           /\ UNCHANGED <<headerBytes, header, failure, messages, phase>>
        \/ /\ Len(b) = size
           /\ Len(messages) >= MaxMessagesPerFeed
           /\ Fail("batch")
        \/ /\ Len(b) = size
           /\ Len(messages) < MaxMessagesPerFeed
           /\ messages' = Append(messages, [frame |-> header, payload |-> b])
           /\ headerBytes' = <<>>
           /\ body' = <<>>
           /\ header' = NoHeader
           /\ UNCHANGED <<failure, phase>>
    BY DEF FeedBody
  <2> QED BY <2>1, <2>2, Zenon
<1> HIDE DEF take, b
<1>8. CASE /\ Len(b) < size
           /\ body' = b
           /\ UNCHANGED <<headerBytes, header, failure, messages, phase>>
  <2>1. Len(body') <= MaxPayload
    BY <1>1, <1>4, <1>8, ReadBytesPositive
  <2>2. TypeOK'
    BY <1>1, <1>3, <1>4, <1>5, <1>6, <1>8, <2>1 DEF IInv, TypeOK
  <2>3. FrameInv' /\ BatchNeverTooLarge'
    BY <1>1, <1>2, <1>4, <1>5, <1>8 DEF IInv, FrameInv, BatchNeverTooLarge
  <2>4. ~BodyComplete'
    BY <1>1, <1>2, <1>4, <1>5, <1>8 DEF BodyComplete
  <2>5. BatchInv'
    <3>1. CASE messages = <<>>
      BY <1>1, <1>2, <1>3, <1>8, <2>4, <3>1, ReadBytesPositive DEF IInv, BatchInv, ReadBytes
    <3>2. CASE messages # <<>>
      <4>1. HeaderSize * (Len(messages) - 1) \in Nat
        <5>1. Len(messages) - 1 \in Nat
          BY <1>1, <3>2
        <5> QED BY <5>1, HeaderProduct, ReadBytesPositive
      <4>2. HeaderSize * (Len(messages) - 1) + Len(headerBytes) + Len(input) < ReadBytes
        BY <1>1, <3>2 DEF IInv, BatchInv
      <4>3. HeaderSize * (Len(messages) - 1) + Len(headerBytes) + Len(input') < ReadBytes
        BY <1>1, <1>2, <1>3, <4>1, <4>2, ReadBytesPositive
      <4> QED BY <1>1, <1>8, <3>2, <4>3 DEF BatchInv, ReadBytes
    <3> QED BY <3>1, <3>2
  <2> QED BY <2>2, <2>3, <2>5 DEF IInv
<1>9. CASE /\ Len(messages) < MaxMessagesPerFeed
           /\ messages' = Append(messages, [frame |-> header, payload |-> b])
           /\ headerBytes' = <<>>
           /\ body' = <<>>
           /\ header' = NoHeader
           /\ UNCHANGED <<failure, phase>>
  <2>1. [frame |-> header, payload |-> b] \in Decoded
    BY <1>1, <1>4 DEF Decoded
  <2>2. /\ messages' \in Seq(Decoded) /\ messages' # <<>>
        /\ Len(messages') = Len(messages) + 1
    BY <1>1, <1>9, <2>1, AppendProperties
  <2>3. <<>> \in Seq(Bytes) /\ Len(<<>>) = 0 /\ NoHeader \in 0 .. Len(frames)
    BY DEF NoHeader, IInv, TypeOK
  <2>4. TypeOK'
    BY <1>3, <1>5, <1>6, <1>9, <2>2, <2>3, ReadBytesPositive DEF IInv, TypeOK
  <2>5. FrameInv' /\ BatchNeverTooLarge'
    BY <1>9, <2>3, ReadBytesPositive DEF IInv, FrameInv, BatchNeverTooLarge
  <2>6. HeaderSize * Len(messages) + Len(input') < ReadBytes
    <3>1. CASE messages = <<>>
      <4>1. Len(input') < ReadBytes
        BY <1>1, <1>2, <1>3, <3>1, ReadBytesPositive DEF IInv, BatchInv
      <4>2. HeaderSize * Len(messages) = 0
        BY <3>1, <2>3, ReadBytesPositive
      <4> QED BY <1>1, <1>2, <1>3, <4>1, <4>2, ReadBytesPositive
    <3>2. CASE messages # <<>>
      <4>1. HeaderSize * (Len(messages) - 1) + HeaderSize + Len(input) < ReadBytes
        BY <1>1, <3>2 DEF IInv, BatchInv
      <4>2. HeaderSize * Len(messages) = HeaderSize * (Len(messages) - 1) + HeaderSize
        BY <1>1, <3>2, HeaderStep, ReadBytesPositive
      <4>3. HeaderSize * Len(messages) \in Nat
        BY <1>1, ReadBytesPositive
      <4> QED BY <1>1, <1>2, <1>3, <4>1, <4>2, <4>3, ReadBytesPositive
    <3> QED BY <3>1, <3>2
  <2>7. BatchInv'
    <3>1. Len(messages') - 1 = Len(messages)
      BY <1>1, <2>2
    <3>2. Len(headerBytes') = 0
      BY <1>9, <2>3
    <3>3. HeaderSize * Len(messages) \in Nat /\ Len(input') \in Nat
      BY <1>1, <1>3, ReadBytesPositive
    <3>4. HeaderSize * Len(messages) + Len(headerBytes') + Len(input') < ReadBytes
      BY <2>6, <3>2, <3>3
    <3>5. HeaderSize * (Len(messages') - 1) + Len(headerBytes') + Len(input') < ReadBytes
      BY <3>1, <3>4
    <3> QED BY <1>1, <1>9, <2>2, <3>5 DEF BatchInv, ReadBytes
  <2> QED BY <2>4, <2>5, <2>7 DEF IInv
<1> QED BY <1>7, <1>8, <1>9

LEMMA FeedDoneInv == IInv /\ FeedDone => IInv'
<1> SUFFICES ASSUME IInv, FeedDone PROVE IInv'
  OBVIOUS
<1>1. Bytes' = Bytes /\ Decoded' = Decoded
  BY DEF FeedDone, Bytes, Decoded
<1>2. delivered' \in Seq(Decoded) /\ <<>> \in Seq(Decoded)
  BY ConcatProperties DEF FeedDone, IInv, TypeOK
<1>3. TypeOK'
  BY <1>1, <1>2 DEF FeedDone, IInv, TypeOK, decoderVars
<1>4. FrameInv' /\ BatchNeverTooLarge'
  BY DEF FeedDone, IInv, FrameInv, BatchNeverTooLarge, decoderVars
<1>5. BatchInv'
  BY DEF FeedDone, BatchInv, BodyComplete, decoderVars
<1> QED BY <1>3, <1>4, <1>5 DEF IInv

LEMMA FinishInv == IInv /\ Finish => IInv'
<1> SUFFICES ASSUME IInv, Finish PROVE IInv'
  OBVIOUS
<1>1. UNCHANGED <<frames, pipe, closed, input, delivered, lastByte>>
  BY DEF Finish
<1>2. input' \in Seq(Bytes)
  BY <1>1 DEF IInv, TypeOK
<1>3. CASE Buffered = 0
  <2>1. phase' = "ended" /\ UNCHANGED <<decoderVars, messages>>
    BY <1>3 DEF Finish
  <2> QED BY <1>1, <2>1 DEF IInv, TypeOK, FrameInv, BatchInv, BatchNeverTooLarge,
                            Bytes, Decoded, decoderVars
<1>4. CASE Buffered # 0
  <2>1. Fail("truncated")
    BY <1>4 DEF Finish
  <2> QED BY <1>1, <1>2, <2>1, FailInv DEF IInv
<1> QED BY <1>3, <1>4

LEMMA Inductive == IInv /\ [Next]_vars => IInv'
<1> SUFFICES ASSUME IInv, [Next]_vars PROVE IInv'
  OBVIOUS
<1>1. CASE UNCHANGED vars
  BY <1>1 DEF IInv, TypeOK, FrameInv, BatchInv, BatchNeverTooLarge, BodyComplete,
              ReadBytes, Bytes, Decoded, vars, decoderVars
<1>2. CASE Next
  BY <1>2, WriteInv, CloseInv, ReadInv, FeedHeaderInv, FeedBodyInv, FeedDoneInv,
     FinishInv DEF Next
<1> QED BY <1>1, <1>2

-----------------------------------------------------------------------------
(* The place in the stream *)

\* Pairs of a frame of fs and an offset.
Positions(fs) == (1 .. Len(fs)) \X Nat

Size(fs, k) == HeaderSize + fs[k].payload

\* The byte at offset o of frame k; past the end of it, the first of the next frame.
ByteAt(fs, k, o) == IF o = Size(fs, k) THEN <<k + 1, 0>> ELSE <<k, o>>

\* The byte that the peer writes after byte b, and the first one.
After(fs, b) == IF b = NoByte THEN <<1, 0>> ELSE ByteAt(fs, b[1], b[2] + 1)

\* s is a piece of the stream of fs, without a gap: from any byte of it the rest of
\* that byte's frame follows, and then the next frame.
Unbroken(fs, s) ==
  /\ \A i \in 1 .. Len(s) : s[i][2] < Size(fs, s[i][1])
  /\ \A i, j \in 1 .. Len(s) :
       i <= j /\ s[i][2] + (j - i) <= Size(fs, s[i][1])
         => s[j] = ByteAt(fs, s[i][1], s[i][2] + (j - i))

\* The messages decoded so far, and the byte the decoder needs next.
Count == Len(delivered) + Len(messages)

Place ==
  IF header = NoHeader THEN <<Count + 1, Len(headerBytes)>>
  ELSE ByteAt(frames, header, HeaderSize + Len(body))

\* The pipe goes on after the last byte read, and up to the end of the last frame
\* while the peer is there.
PipeInv ==
  /\ Unbroken(frames, pipe)
  /\ lastByte # NoByte => lastByte[2] < Size(frames, lastByte[1])
  /\ pipe # <<>> => pipe[1] = After(frames, lastByte)
  /\ ~closed => IF pipe = <<>> THEN After(frames, lastByte) = <<Len(frames) + 1, 0>>
                ELSE pipe[Len(pipe)] = <<Len(frames), Size(frames, Len(frames)) - 1>>

\* The chunk goes on where the decoder is and ends with the last byte read; what the
\* decoder holds is the beginning of the frame after those it has decoded.
PlaceInv ==
  /\ phase # "ended" =>
       /\ Unbroken(frames, input)
       /\ IF input = <<>> THEN Place = After(frames, lastByte)
          ELSE input[1] = Place /\ input[Len(input)] = lastByte
       /\ headerBytes = [j \in 1 .. Len(headerBytes) |-> <<Count + 1, j - 1>>]
       /\ header # NoHeader => header = Count + 1 /\ frames[header].valid
       /\ body = [j \in 1 .. Len(body) |-> <<header, HeaderSize + j - 1>>]
       /\ failure = "none"
  /\ phase = "ended" /\ failure # "header" => closed

StreamInv == IInv /\ PipeInv /\ PlaceInv /\ DecodesWhatWasWritten /\ EndVerdict

\* A frame is at least its header.
LEMMA SizeType ==
  ASSUME NEW fs \in Seq(Frames), NEW k \in 1 .. Len(fs)
  PROVE  /\ Size(fs, k) \in Nat /\ Size(fs, k) >= HeaderSize
         /\ fs[k].payload \in Nat /\ Size(fs, k) = HeaderSize + fs[k].payload
<1>1. fs[k] \in Frames
  OBVIOUS
<1>2. fs[k].payload \in Nat
  BY <1>1, ReadBytesPositive DEF Frames
<1> QED BY <1>2, ReadBytesPositive DEF Size

\* The bytes of the model are positions in its frames.
LEMMA BytesArePositions ==
  ASSUME NEW s \in Seq(Bytes)
  PROVE  s \in Seq(Positions(frames))
<1>1. Bytes \subseteq Positions(frames)
  BY ReadBytesPositive DEF Bytes, Positions
<1> QED BY <1>1, SeqMonotone

\* Both parts of an unbroken piece are unbroken.
LEMMA UnbrokenParts ==
  ASSUME NEW fs \in Seq(Frames), NEW s \in Seq(Positions(fs)), Unbroken(fs, s),
         NEW n \in 0 .. Len(s)
  PROVE  /\ Unbroken(fs, SubSeq(s, 1, n))
         /\ Unbroken(fs, SubSeq(s, n + 1, Len(s)))
<1> DEFINE p == SubSeq(s, 1, n)
           q == SubSeq(s, n + 1, Len(s))
<1>1. Len(p) = n /\ Len(q) = Len(s) - n /\ Len(s) \in Nat
  BY PartOfSeq
<1>2. \A i \in 1 .. n : p[i] = s[i]
  BY <1>1
<1>3. \A i \in 1 .. Len(s) - n : q[i] = s[n + i] /\ n + i \in 1 .. Len(s)
  BY <1>1
<1> HIDE DEF p, q
<1>4. Unbroken(fs, p)
  BY <1>1, <1>2 DEF Unbroken
<1>5. Unbroken(fs, q)
  <2>1. \A i \in 1 .. Len(q) : q[i][2] < Size(fs, q[i][1])
    BY <1>1, <1>3 DEF Unbroken
  <2>2. ASSUME NEW i \in 1 .. Len(q), NEW j \in 1 .. Len(q), i <= j
        PROVE  q[i][2] + (j - i) <= Size(fs, q[i][1])
                 => q[j] = ByteAt(fs, q[i][1], q[i][2] + (j - i))
    <3>1. n + i \in 1 .. Len(s) /\ n + j \in 1 .. Len(s) /\ n + i <= n + j
          /\ (n + j) - (n + i) = j - i /\ q[i] = s[n + i] /\ q[j] = s[n + j]
      BY <1>1, <1>3, <2>2
    <3> QED BY <3>1 DEF Unbroken
  <2> QED BY <2>1, <2>2 DEF Unbroken
<1> QED BY <1>4, <1>5 DEF p, q

\* In an unbroken piece every byte is followed by the one written after it.
LEMMA UnbrokenAfter ==
  ASSUME NEW fs \in Seq(Frames), NEW s \in Seq(Positions(fs)), Unbroken(fs, s),
         NEW n \in 1 .. Len(s), n + 1 \in 1 .. Len(s)
  PROVE  s[n + 1] = After(fs, s[n])
<1>1. s[n] \in Positions(fs)
  OBVIOUS
<1>2. s[n][1] \in 1 .. Len(fs) /\ s[n][2] \in Nat /\ s[n] # NoByte
  BY <1>1 DEF Positions, NoByte
<1>3. s[n][2] < Size(fs, s[n][1]) /\ Size(fs, s[n][1]) \in Nat
  BY <1>2, SizeType DEF Unbroken
<1>4. n <= n + 1 /\ (n + 1) - n = 1
  OBVIOUS
<1>5. s[n][2] + 1 <= Size(fs, s[n][1])
  BY <1>2, <1>3
<1> QED BY <1>2, <1>4, <1>5 DEF After, Unbroken

\* The first n bytes of an unbroken piece that begins inside a frame and does not
\* leave it, and the byte after them.
LEMMA UnbrokenRun ==
  ASSUME NEW fs \in Seq(Frames), NEW s \in Seq(Positions(fs)), Unbroken(fs, s),
         NEW k \in 1 .. Len(fs), NEW o \in Nat, s # <<>>, s[1] = <<k, o>>,
         NEW n \in 0 .. Len(s), o + n <= Size(fs, k)
  PROVE  /\ \A j \in 1 .. n : s[j] = <<k, o + j - 1>>
         /\ n < Len(s) => s[n + 1] = ByteAt(fs, k, o + n)
<1>1. Len(s) \in Nat \ {0} /\ Size(fs, k) \in Nat
  BY SizeType
<1>2. ASSUME NEW j \in 1 .. Len(s), o + (j - 1) <= Size(fs, k)
      PROVE  s[j] = ByteAt(fs, k, o + (j - 1))
  <2>1. 1 \in 1 .. Len(s) /\ 1 <= j /\ s[1][1] = k /\ s[1][2] = o
    BY <1>1
  <2> QED BY <1>2, <2>1 DEF Unbroken
<1>3. ASSUME NEW j \in 1 .. n PROVE s[j] = <<k, o + j - 1>>
  <2>1. j \in 1 .. Len(s) /\ o + (j - 1) <= Size(fs, k)
    BY <1>1
  <2>2. o + (j - 1) # Size(fs, k) /\ o + (j - 1) = o + j - 1
    BY <1>1
  <2>3. s[j] = ByteAt(fs, k, o + (j - 1))
    BY <1>2, <2>1
  <2> QED BY <2>2, <2>3 DEF ByteAt
<1>4. ASSUME n < Len(s) PROVE s[n + 1] = ByteAt(fs, k, o + n)
  <2>1. n + 1 \in 1 .. Len(s) /\ (n + 1) - 1 = n
    BY <1>1, <1>4
  <2> QED BY <1>2, <2>1
<1> QED BY <1>3, <1>4

\* A piece of what has been written stays one when more is written.
LEMMA UnbrokenGrows ==
  ASSUME NEW fs \in Seq(Frames), NEW gs \in Seq(Frames),
         \A k \in 1 .. Len(fs) : gs[k] = fs[k],
         NEW s \in Seq(Positions(fs)), Unbroken(fs, s)
  PROVE  Unbroken(gs, s)
<1>1. \A i \in 1 .. Len(s) : s[i] \in Positions(fs)
  OBVIOUS
<1>2. \A i \in 1 .. Len(s) : Size(gs, s[i][1]) = Size(fs, s[i][1])
  BY <1>1 DEF Size, Positions
<1> QED BY <1>2 DEF Unbroken, ByteAt

\* Nor does the byte after it change.
LEMMA AfterGrows ==
  ASSUME NEW fs \in Seq(Frames), NEW gs \in Seq(Frames),
         \A k \in 1 .. Len(fs) : gs[k] = fs[k],
         NEW b \in Positions(fs) \cup {NoByte}
  PROVE  After(gs, b) = After(fs, b)
BY DEF After, ByteAt, Positions, Size

\* The elements of two sequences in a row.
LEMMA TwoInARow ==
  ASSUME NEW S, NEW s \in Seq(S), NEW t \in Seq(S)
  PROVE  /\ s \o t \in Seq(S) /\ Len(s \o t) = Len(s) + Len(t)
         /\ \A i \in 1 .. Len(s) : (s \o t)[i] = s[i]
         /\ \A j \in 1 .. Len(t) : (s \o t)[Len(s) + j] = t[j]
<1>1. /\ s \o t \in Seq(S) /\ Len(s \o t) = Len(s) + Len(t)
      /\ \A i \in 1 .. Len(s) + Len(t) :
           (s \o t)[i] = IF i <= Len(s) THEN s[i] ELSE t[i - Len(s)]
  BY ConcatProperties
<1> DEFINE st == s \o t
<1>2. Len(s) \in Nat /\ Len(t) \in Nat
  OBVIOUS
<1> HIDE DEF st
<1>3. \A i \in 1 .. Len(s) : st[i] = s[i]
  BY <1>1, <1>2 DEF st
<1>4. ASSUME NEW j \in 1 .. Len(t) PROVE st[Len(s) + j] = t[j]
  <2>1. /\ Len(s) + j \in 1 .. Len(s) + Len(t) /\ ~(Len(s) + j <= Len(s))
        /\ (Len(s) + j) - Len(s) = j
    BY <1>2
  <2> QED BY <1>1, <2>1 DEF st
<1> QED BY <1>1, <1>3, <1>4 DEF st

\* Nothing written, nothing read.
LEMMA InitStream == Init => StreamInv
<1> SUFFICES ASSUME Init PROVE StreamInv
  OBVIOUS
<1>1. IInv
  BY InitInv
<1>2. Len(<<>>) = 0 /\ <<>> = [j \in 1 .. 0 |-> <<1, j - 1>>]
      /\ <<>> = [j \in 1 .. 0 |-> <<0, HeaderSize + j - 1>>]
  OBVIOUS
<1>3. PipeInv
  BY <1>2 DEF Init, PipeInv, Unbroken, After
<1>4. PlaceInv
  <2>1. Unbroken(frames, input)
    BY <1>2 DEF Init, Unbroken
  <2>2. Place = After(frames, lastByte)
    BY <1>2 DEF Init, Place, After, Count, NoHeader, NoByte
  <2>3. headerBytes = [j \in 1 .. Len(headerBytes) |-> <<Count + 1, j - 1>>]
        /\ body = [j \in 1 .. Len(body) |-> <<header, HeaderSize + j - 1>>]
    BY <1>2 DEF Init, Count, NoHeader
  <2> QED BY <2>1, <2>2, <2>3 DEF Init, PlaceInv
<1>5. DecodesWhatWasWritten /\ EndVerdict
  BY <1>2, ConcatProperties DEF Init, DecodesWhatWasWritten, EndVerdict
<1> QED BY <1>1, <1>3, <1>4, <1>5 DEF StreamInv

\* What the types give the steps below.
LEMMA StreamTypes ==
  ASSUME IInv
  PROVE  /\ frames \in Seq(Frames) /\ Len(frames) \in Nat
         /\ input \in Seq(Bytes) /\ Len(input) \in Nat
         /\ pipe \in Seq(Bytes) /\ Len(pipe) \in Nat
         /\ input \in Seq(Positions(frames)) /\ pipe \in Seq(Positions(frames))
         /\ lastByte \in Positions(frames) \cup {NoByte}
         /\ headerBytes \in Seq(Bytes) /\ body \in Seq(Bytes)
         /\ Len(headerBytes) \in Nat /\ Len(body) \in Nat
         /\ delivered \in Seq(Decoded) /\ messages \in Seq(Decoded)
         /\ Count \in Nat
<1>1. lastByte \in Positions(frames) \cup {NoByte}
  BY ReadBytesPositive DEF IInv, TypeOK, Bytes, Positions
<1> QED BY <1>1, BytesArePositions DEF IInv, TypeOK, Count

\* Another frame in the pipe.
LEMMA WriteStream ==
  ASSUME StreamInv, NEW f \in Frames, Write(f)
  PROVE  PipeInv' /\ PlaceInv' /\ DecodesWhatWasWritten' /\ EndVerdict'
<1> DEFINE K == Len(frames)
           N == HeaderSize + f.payload
           L == Len(pipe)
           new == [j \in 1 .. N |-> <<K + 1, j - 1>>]
<1>0. IInv /\ PipeInv /\ PlaceInv /\ DecodesWhatWasWritten /\ EndVerdict /\ ~closed /\ ~closed'
  BY DEF StreamInv, Write
<1>1. /\ frames' \in Seq(Frames) /\ Len(frames') = K + 1
      /\ \A k \in 1 .. K : frames'[k] = frames[k]
      /\ frames'[K + 1] = f /\ K \in Nat /\ frames \in Seq(Frames)
  <2>1. frames'[K + 1] = f
    BY <1>0, StreamTypes DEF Write
  <2> QED BY <1>0, <2>1, WriteGrows, StreamTypes
<1>2. N \in Nat \ {0} /\ Size(frames', K + 1) = N /\ L \in Nat
  BY <1>0, <1>1, StreamTypes, ReadBytesPositive DEF Frames, Size
<1>3. \A k \in 1 .. K : Size(frames', k) = Size(frames, k) /\ Size(frames, k) \in Nat
  BY <1>1, SizeType DEF Size
<1>4. UNCHANGED <<closed, input, headerBytes, body, header, failure, messages,
                  delivered, lastByte, phase>>
  BY DEF Write, decoderVars
<1>5. /\ Len(pipe') = L + N
      /\ \A i \in 1 .. L : pipe'[i] = pipe[i]
      /\ \A j \in 1 .. N : pipe'[L + j] = <<K + 1, j - 1>>
  <2>1. new \in Seq(Positions(frames'))
    <3>1. new \in [1 .. N -> Positions(frames')]
      BY <1>1, <1>2 DEF Positions
    <3> HIDE DEF new
    <3> QED BY <1>2, <3>1
  <2>2. pipe \in Seq(Positions(frames)) /\ Len(new) = N
    BY <1>0, <1>2, StreamTypes
  <2>3. pipe \in Seq(Positions(frames'))
    <3>1. Positions(frames) \subseteq Positions(frames')
      BY <1>1 DEF Positions
    <3> QED BY <2>2, <3>1, SeqMonotone
  <2>4. pipe' = pipe \o new
    BY DEF Write
  <2>5. \A j \in 1 .. N : new[j] = <<K + 1, j - 1>>
    OBVIOUS
  <2> HIDE DEF new, N
  <2>6. /\ Len(pipe \o new) = L + Len(new)
        /\ \A i \in 1 .. L : (pipe \o new)[i] = pipe[i]
        /\ \A j \in 1 .. Len(new) : (pipe \o new)[L + j] = new[j]
    BY <2>1, <2>3, TwoInARow
  <2> QED BY <2>2, <2>4, <2>5, <2>6
<1>7. Unbroken(frames', pipe)
  BY <1>0, <1>1, StreamTypes, UnbrokenGrows DEF PipeInv
<1>8. /\ pipe \in Seq(Positions(frames))
      /\ \A i \in 1 .. L : pipe[i][1] \in 1 .. K /\ pipe[i][2] \in Nat
  <2>1. \A i \in 1 .. L : pipe[i] \in Positions(frames)
    BY <1>0, StreamTypes
  <2> QED BY <1>0, <2>1, StreamTypes DEF Positions
<1> HIDE DEF K, N, L, new
<1>9. Unbroken(frames', pipe')
  <2>1. ASSUME NEW i \in 1 .. Len(pipe')
        PROVE  pipe'[i][2] < Size(frames', pipe'[i][1])
    <3>1. CASE i \in 1 .. L
      BY <1>5, <1>7, <3>1 DEF Unbroken, L
    <3>2. CASE i \notin 1 .. L
      <4>1. i - L \in 1 .. N /\ L + (i - L) = i
        BY <1>2, <1>5, <3>2
      <4>2. pipe'[i] = <<K + 1, (i - L) - 1>>
        BY <1>5, <4>1
      <4> QED BY <1>2, <4>1, <4>2
    <3> QED BY <3>1, <3>2
  <2>2. ASSUME NEW i \in 1 .. Len(pipe'), NEW j \in 1 .. Len(pipe'), i <= j
        PROVE  pipe'[i][2] + (j - i) <= Size(frames', pipe'[i][1])
                 => pipe'[j] = ByteAt(frames', pipe'[i][1], pipe'[i][2] + (j - i))
    <3>1. CASE j \in 1 .. L
      <4>1. i \in 1 .. L /\ pipe'[i] = pipe[i] /\ pipe'[j] = pipe[j]
        BY <1>2, <1>5, <2>2, <3>1
      <4> QED BY <1>7, <2>2, <3>1, <4>1 DEF Unbroken, L
    <3>2. CASE i \notin 1 .. L
      <4>1. /\ i - L \in 1 .. N /\ L + (i - L) = i /\ j - L \in 1 .. N /\ L + (j - L) = j
            /\ ((i - L) - 1) + (j - i) = (j - L) - 1
        BY <1>2, <1>5, <2>2, <3>2
      <4>2. pipe'[i] = <<K + 1, (i - L) - 1>> /\ pipe'[j] = <<K + 1, (j - L) - 1>>
        BY <1>5, <4>1
      <4>3. (j - L) - 1 < N
        BY <1>2, <4>1
      <4> QED BY <1>2, <4>1, <4>2, <4>3 DEF ByteAt
    <3>3. CASE i \in 1 .. L /\ j \notin 1 .. L
      <4> DEFINE k == pipe[i][1]
                 o == pipe[i][2]
                 size == Size(frames', k)
                 m == j - L
      <4>1. /\ k \in 1 .. K /\ o \in Nat /\ size \in Nat /\ size = Size(frames, k)
            /\ pipe'[i] = <<k, o>> /\ m \in 1 .. N /\ L + m = j
            /\ pipe'[j] = <<K + 1, m - 1>>
            /\ o + (j - i) = (o + (L - i)) + m
        <5>1. k \in 1 .. K /\ o \in Nat /\ size \in Nat /\ size = Size(frames, k)
          BY <1>3, <1>8, <3>3
        <5>2. m \in 1 .. N /\ L + m = j
          BY <1>2, <1>5, <3>3
        <5>3. pipe'[i] = <<k, o>>
          <6>1. pipe[i] \in Positions(frames)
            BY <1>8, <3>3 DEF L
          <6>2. pipe[i] = <<pipe[i][1], pipe[i][2]>>
            BY <6>1 DEF Positions
          <6> QED BY <1>5, <3>3, <6>2
        <5>4. pipe'[j] = <<K + 1, m - 1>>
          BY <1>5, <5>2
        <5>5. o + (j - i) = (o + (L - i)) + m
          BY <1>2, <5>1, <5>2, <3>3
        <5> QED BY <5>1, <5>2, <5>3, <5>4, <5>5
      <4> HIDE DEF k, o, size, m
      <4>2. CASE o + (L - i) >= size
        <5>1. o + (j - i) > size
          BY <1>2, <3>3, <4>1, <4>2
        <5> QED BY <4>1, <5>1 DEF size
      <4>3. CASE o + (L - i) < size
        <5>1. pipe[L] = <<k, o + (L - i)>>
          <6>1. i \in 1 .. L /\ L \in 1 .. L /\ i <= L
            BY <1>2, <3>3
          <6>2. o + (L - i) <= size /\ o + (L - i) # size
            BY <1>2, <4>1, <4>3, <6>1
          <6>3. pipe[L] = ByteAt(frames', k, o + (L - i))
            BY <1>7, <6>1, <6>2 DEF Unbroken, L, k, o, size
          <6> QED BY <6>2, <6>3 DEF ByteAt, size
        <5>2. pipe[L] = <<K, Size(frames, K) - 1>>
          <6>1. pipe # <<>>
            BY <3>3 DEF L
          <6> QED BY <1>0, <6>1 DEF PipeInv, L, K
        <5>3. k = K /\ o + (L - i) = size - 1
          BY <4>1, <5>1, <5>2
        <5>4. /\ ~(o + (j - i) < size)
              /\ o + (j - i) = size => m = 1
          BY <1>2, <3>3, <4>1, <5>3
        <5>5. o + (j - i) <= size => o + (j - i) = size /\ pipe'[j] = <<k + 1, 0>>
          BY <1>2, <3>3, <4>1, <5>3, <5>4
        <5> QED BY <4>1, <5>5 DEF ByteAt, size
      <4>4. o + (L - i) \in Int
        BY <1>2, <3>3, <4>1
      <4> QED BY <4>1, <4>2, <4>3, <4>4
    <3> QED BY <3>1, <3>2, <3>3
  <2> QED BY <2>1, <2>2 DEF Unbroken
<1>10. After(frames', lastByte) = After(frames, lastByte)
  BY <1>0, <1>1, StreamTypes, AfterGrows DEF K
<1>11. PipeInv'
  <2>1. lastByte' # NoByte => lastByte'[2] < Size(frames', lastByte'[1])
    BY <1>0, <1>3, <1>4, StreamTypes DEF PipeInv, Positions, K
  <2>2. pipe' # <<>> /\ pipe'[1] = After(frames', lastByte')
    <3>1. CASE pipe = <<>>
      <4>1. L = 0 /\ After(frames, lastByte) = <<K + 1, 0>>
        BY <1>0, <3>1 DEF PipeInv, L, K
      <4>2. pipe'[1] = <<K + 1, 0>> /\ Len(pipe') # 0
        BY <1>2, <1>5, <4>1
      <4> QED BY <1>4, <1>10, <4>1, <4>2
    <3>2. CASE pipe # <<>>
      <4>1. L # 0
        BY <1>0, <3>2, StreamTypes DEF L
      <4>2. pipe'[1] = pipe[1] /\ Len(pipe') # 0
        BY <1>2, <1>5, <4>1
      <4> QED BY <1>0, <1>4, <1>10, <3>2, <4>2 DEF PipeInv
    <3> QED BY <3>1, <3>2
  <2>3. pipe'[Len(pipe')] = <<Len(frames'), Size(frames', Len(frames')) - 1>>
    <3>1. N \in 1 .. N
      BY <1>2
    <3> QED BY <1>1, <1>2, <1>5, <3>1 DEF K
  <2> QED BY <1>9, <2>1, <2>2, <2>3 DEF PipeInv
<1>12. PlaceInv'
  <2>1. header # NoHeader => header \in 1 .. K /\ frames'[header] = frames[header]
    BY <1>0, <1>1 DEF IInv, TypeOK, NoHeader, K
  <2>2. Count' = Count /\ Place' = Place
    BY <1>4, <2>1 DEF Count, Place, ByteAt, Size
  <2>3. phase # "ended" => Unbroken(frames', input')
    BY <1>0, <1>1, <1>4, StreamTypes, UnbrokenGrows DEF PlaceInv, K
  <2> QED BY <1>0, <1>4, <1>10, <2>1, <2>2, <2>3 DEF PlaceInv
<1>13. DecodesWhatWasWritten'
  <2> DEFINE decoded == delivered \o messages
  <2>1. decoded \in Seq(Decoded)
    BY <1>0, StreamTypes, ConcatProperties
  <2>2. decoded' = decoded
    BY <1>4
  <2>3. ASSUME NEW i \in DOMAIN decoded
        PROVE  /\ decoded[i].frame = i
               /\ frames'[i].valid /\ frames'[i].payload <= MaxPayload
               /\ decoded[i].payload = PayloadOf(i)'
    <3>1. decoded[i] \in Decoded
      BY <2>1
    <3>2. decoded[i].frame = i /\ frames[i].valid /\ frames[i].payload <= MaxPayload
          /\ decoded[i].payload = PayloadOf(i)
      BY <1>0 DEF DecodesWhatWasWritten
    <3>3. i \in 1 .. K
      BY <3>1, <3>2 DEF Decoded, K
    <3>4. frames'[i] = frames[i]
      BY <1>1, <3>3
    <3> QED BY <3>2, <3>4 DEF PayloadOf
  <2> QED BY <2>2, <2>3 DEF DecodesWhatWasWritten
<1>14. EndVerdict'
  <2>1. phase' = "ended" => failure' = "header"
    BY <1>0, <1>4 DEF PlaceInv
  <2> QED BY <2>1 DEF EndVerdict
<1> QED BY <1>11, <1>12, <1>13, <1>14

\* The peer is gone: the pipe may have lost its end, nothing else.
LEMMA CloseStream ==
  ASSUME StreamInv, Close
  PROVE  PipeInv' /\ PlaceInv' /\ DecodesWhatWasWritten' /\ EndVerdict'
<1>0. IInv /\ PipeInv /\ PlaceInv /\ DecodesWhatWasWritten /\ EndVerdict
  BY DEF StreamInv
<1>1. PICK n \in 0 .. Len(pipe) : pipe' = SubSeq(pipe, 1, n)
  BY DEF Close
<1>2. Unbroken(frames, pipe') /\ Len(pipe') = n
      /\ (pipe' # <<>> => pipe # <<>> /\ pipe'[1] = pipe[1])
  <2>1. pipe \in Seq(Positions(frames)) /\ frames \in Seq(Frames)
    BY <1>0, StreamTypes
  <2>2. Unbroken(frames, pipe') /\ Len(pipe') = n /\ pipe' \in Seq(Positions(frames))
    BY <1>0, <1>1, <2>1, UnbrokenParts, PartOfSeq DEF PipeInv
  <2>3. pipe' # <<>> => n # 0
    BY <2>2
  <2>4. n # 0 => pipe'[1] = pipe[1] /\ pipe # <<>>
    BY <1>1, <2>1
  <2> QED BY <2>2, <2>3, <2>4
<1>3. UNCHANGED <<frames, input, decoderVars, messages, delivered, lastByte, phase>> /\ closed'
  BY DEF Close
<1>4. PipeInv'
  BY <1>0, <1>2, <1>3 DEF PipeInv
<1>5. Place' = Place /\ Count' = Count
  BY <1>3 DEF Place, Count, decoderVars
<1>6. PlaceInv'
  BY <1>0, <1>3, <1>5 DEF PlaceInv, decoderVars
<1>7. DecodesWhatWasWritten' /\ EndVerdict'
  BY <1>0, <1>3 DEF DecodesWhatWasWritten, EndVerdict, PayloadOf, FrameSize, decoderVars
<1> QED BY <1>4, <1>6, <1>7

\* A read cuts the pipe in two; the decoder has used up everything before.
LEMMA ReadStream ==
  ASSUME StreamInv, NEW n \in 1 .. Len(pipe), Read(n)
  PROVE  PipeInv' /\ PlaceInv' /\ DecodesWhatWasWritten' /\ EndVerdict'
<1>0. IInv /\ PipeInv /\ PlaceInv /\ DecodesWhatWasWritten /\ EndVerdict
  BY DEF StreamInv
<1>1. /\ phase = "reading" /\ phase' = "feeding" /\ input = <<>> /\ messages = <<>>
      /\ input' = SubSeq(pipe, 1, n) /\ pipe' = SubSeq(pipe, n + 1, Len(pipe))
      /\ lastByte' = pipe[n] /\ messages' = messages
      /\ UNCHANGED <<frames, closed, decoderVars, delivered>>
  BY <1>0 DEF Read, IInv, BatchInv
<1>2. pipe \in Seq(Positions(frames)) /\ frames \in Seq(Frames) /\ Len(pipe) \in Nat
  BY <1>0, StreamTypes
<1>3. /\ Unbroken(frames, input') /\ Unbroken(frames, pipe')
      /\ Len(input') = n /\ Len(pipe') = Len(pipe) - n
  BY <1>0, <1>1, <1>2, UnbrokenParts, PartOfSeq DEF PipeInv
<1>4. /\ input'[1] = pipe[1] /\ input'[n] = pipe[n]
      /\ n < Len(pipe) => pipe'[1] = pipe[n + 1] /\ pipe'[Len(pipe) - n] = pipe[Len(pipe)]
  BY <1>1, <1>2
<1>5. n < Len(pipe) => pipe[n + 1] = After(frames, pipe[n])
  BY <1>0, <1>2, UnbrokenAfter DEF PipeInv
<1>6. pipe # <<>> /\ input' # <<>> /\ (pipe' = <<>> <=> n = Len(pipe))
  <2>1. input' \in Seq(Positions(frames)) /\ pipe' \in Seq(Positions(frames))
    BY <1>1, <1>2, PartOfSeq
  <2> QED BY <1>2, <1>3, <2>1
<1>7. PipeInv'
  <2>1. lastByte' # NoByte => lastByte'[2] < Size(frames', lastByte'[1])
    BY <1>0, <1>1, <1>2 DEF PipeInv, Unbroken
  <2>2. pipe' # <<>> => pipe'[1] = After(frames', lastByte')
    BY <1>1, <1>2, <1>4, <1>5, <1>6
  <2>3. ~closed' => IF pipe' = <<>>
                    THEN After(frames', lastByte') = <<Len(frames') + 1, 0>>
                    ELSE pipe'[Len(pipe')] = <<Len(frames'), Size(frames', Len(frames')) - 1>>
    <3>1. ~closed => pipe[Len(pipe)] = <<Len(frames), Size(frames, Len(frames)) - 1>>
      BY <1>0, <1>6 DEF PipeInv
    <3>2. CASE n < Len(pipe)
      <4>1. pipe' # <<>> /\ pipe'[Len(pipe')] = pipe[Len(pipe)]
        BY <1>3, <1>4, <1>6, <3>2
      <4> QED BY <1>1, <3>1, <4>1
    <3>3. CASE n = Len(pipe)
      <4>1. pipe[n] \in Positions(frames)
        BY <1>2
      <4>2. pipe[n][1] \in 1 .. Len(frames) /\ pipe[n] # NoByte
        BY <4>1 DEF Positions, NoByte
      <4>3. Size(frames, pipe[n][1]) \in Nat
        BY <1>2, <4>2, SizeType
      <4>4. ~closed => After(frames, pipe[n]) = <<Len(frames) + 1, 0>>
        BY <3>1, <3>3, <4>2, <4>3 DEF After, ByteAt
      <4> QED BY <1>1, <1>6, <3>3, <4>4
    <3> QED BY <1>2, <3>2, <3>3
  <2> QED BY <1>1, <1>3, <2>1, <2>2, <2>3 DEF PipeInv
<1>8. PlaceInv'
  <2>1. Place' = Place /\ Count' = Count
    BY <1>1 DEF Place, Count, decoderVars
  <2>2. Place = After(frames, lastByte) /\ pipe[1] = After(frames, lastByte)
    BY <1>0, <1>1, <1>6 DEF PlaceInv, PipeInv
  <2>3. input'[1] = Place' /\ input'[Len(input')] = lastByte'
    BY <1>1, <1>3, <1>4, <2>1, <2>2
  <2> QED BY <1>0, <1>1, <1>3, <1>6, <2>1, <2>3 DEF PlaceInv, decoderVars
<1>9. DecodesWhatWasWritten' /\ EndVerdict'
  BY <1>0, <1>1 DEF DecodesWhatWasWritten, EndVerdict, PayloadOf
<1> QED BY <1>7, <1>8, <1>9

\* The first n bytes of the chunk are the decoder's next n, of frame k from offset o
\* on, and the rest of the chunk goes on after them.
LEMMA ChunkTaken ==
  ASSUME StreamInv, phase # "ended", input # <<>>,
         NEW k \in 1 .. Len(frames), NEW o \in Nat, input[1] = <<k, o>>,
         NEW n \in 1 .. Len(input), o + n <= Size(frames, k),
         NEW rest, rest = SubSeq(input, n + 1, Len(input))
  PROVE  /\ \A j \in 1 .. n : input[j] = <<k, o + j - 1>>
         /\ Unbroken(frames, rest)
         /\ IF rest = <<>> THEN ByteAt(frames, k, o + n) = After(frames, lastByte)
            ELSE rest[1] = ByteAt(frames, k, o + n) /\ rest[Len(rest)] = lastByte
<1>0. IInv /\ PlaceInv
  BY DEF StreamInv
<1>1. /\ input \in Seq(Positions(frames)) /\ frames \in Seq(Frames) /\ Len(input) \in Nat
      /\ Unbroken(frames, input) /\ input[Len(input)] = lastByte
  BY <1>0, StreamTypes DEF PlaceInv
<1>2. /\ \A j \in 1 .. n : input[j] = <<k, o + j - 1>>
      /\ n < Len(input) => input[n + 1] = ByteAt(frames, k, o + n)
  <2>1. n \in 0 .. Len(input)
    OBVIOUS
  <2> QED BY <1>1, <2>1, UnbrokenRun
<1>3. Unbroken(frames, rest)
  <2>1. n \in 0 .. Len(input)
    OBVIOUS
  <2> QED BY <1>1, <2>1, UnbrokenParts
<1>4. rest \in Seq(Positions(frames)) /\ Len(rest) = Len(input) - n
  <2>1. n \in 0 .. Len(input)
    OBVIOUS
  <2> QED BY <1>1, <2>1, PartOfSeq
<1>5. CASE n = Len(input)
  <2>1. rest = <<>>
    BY <1>1, <1>4, <1>5
  <2>2. lastByte = <<k, o + n - 1>>
    BY <1>1, <1>2, <1>5
  <2>3. lastByte # NoByte /\ (o + n - 1) + 1 = o + n
    BY <2>2 DEF NoByte
  <2>4. After(frames, lastByte) = ByteAt(frames, k, o + n)
    BY <2>2, <2>3 DEF After
  <2> QED BY <1>2, <1>3, <2>1, <2>4
<1>6. CASE n < Len(input)
  <2>1. rest # <<>>
    <3>1. Len(rest) # 0 /\ Len(<<>>) = 0
      BY <1>1, <1>4, <1>6
    <3> QED BY <3>1
  <2>2. rest[1] = input[n + 1] /\ rest[Len(input) - n] = input[Len(input)]
    BY <1>1, <1>6
  <2> QED BY <1>1, <1>2, <1>3, <1>4, <1>6, <2>1, <2>2
<1>7. n = Len(input) \/ n < Len(input)
  BY <1>1
<1> QED BY <1>5, <1>6, <1>7

\* The bytes of a header after the ones held; the header they make is that of the frame
\* after those decoded.
LEMMA FeedHeaderStream ==
  ASSUME StreamInv, FeedHeader
  PROVE  PipeInv' /\ PlaceInv' /\ DecodesWhatWasWritten' /\ EndVerdict'
<1> DEFINE H == Len(headerBytes)
           k == Count + 1
           take == Least(HeaderSize - H, Len(input))
           part == SubSeq(input, 1, take)
           b == headerBytes \o part
<1>0. IInv /\ PipeInv /\ PlaceInv /\ DecodesWhatWasWritten /\ EndVerdict
  BY DEF StreamInv
<1>1. /\ phase = "feeding" /\ input # <<>> /\ header = NoHeader
      /\ H < HeaderSize /\ body = <<>> /\ H \in Nat /\ HeaderSize \in Nat
      /\ Count \in Nat /\ k \in Nat /\ Len(input) \in Nat \ {0}
      /\ input \in Seq(Bytes) /\ headerBytes \in Seq(Bytes)
      /\ input[1] = <<k, H>> /\ headerBytes = [j \in 1 .. H |-> <<k, j - 1>>]
      /\ frames \in Seq(Frames) /\ Len(frames) \in Nat
  BY <1>0, StreamTypes, ReadBytesPositive DEF FeedHeader, IInv, FrameInv, PlaceInv, Place
<1>2. take \in 1 .. Len(input) /\ H + take <= HeaderSize
      /\ (H + take = HeaderSize \/ take = Len(input))
  <2>1. HeaderSize - H \in Nat \ {0}
    BY <1>1
  <2>2. take \in Nat /\ take <= HeaderSize - H /\ take <= Len(input)
        /\ (take = HeaderSize - H \/ take = Len(input))
    BY <1>1, <2>1, LeastOfTwo
  <2> HIDE DEF take, H
  <2> QED BY <1>1, <2>1, <2>2
<1>3. k \in 1 .. Len(frames)
  <2> HIDE DEF k, H
  <2>1. 1 \in 1 .. Len(input)
    BY <1>1
  <2>2. input[1] \in Bytes
    BY <1>1, <2>1, ElementOfSeq
  <2> QED BY <1>1, <2>2 DEF Bytes
<1>4. Size(frames, k) \in Nat /\ HeaderSize <= Size(frames, k)
      /\ Size(frames, k) = HeaderSize + frames[k].payload /\ frames[k].payload \in Nat
  BY <1>1, <1>3, SizeType
<1>5. /\ input' = SubSeq(input, take + 1, Len(input))
      /\ UNCHANGED <<frames, pipe, closed, delivered, lastByte>>
      /\ \/ /\ Len(b) < HeaderSize
            /\ headerBytes' = b
            /\ UNCHANGED <<header, body, failure, messages, phase>>
         \/ /\ Len(b) = HeaderSize /\ Parsed(b) # NoHeader
            /\ headerBytes' = b
            /\ header' = Parsed(b)
            /\ UNCHANGED <<body, failure, messages, phase>>
         \/ Fail("header")
  BY DEF FeedHeader
<1>6. part \in Seq(Bytes) /\ Len(part) = take /\ \A j \in 1 .. take : part[j] = input[j]
  <2> HIDE DEF take
  <2> QED BY <1>1, <1>2, PartOfSeq
<1>7. b \in Seq(Bytes) /\ Len(b) = H + take
      /\ (\A j \in 1 .. H : b[j] = headerBytes[j])
      /\ (\A j \in 1 .. take : b[H + j] = part[j])
  <2> HIDE DEF part, take
  <2>1. headerBytes \in Seq(Bytes) /\ part \in Seq(Bytes)
    BY <1>1, <1>6
  <2>2. /\ b \in Seq(Bytes) /\ Len(b) = H + Len(part)
        /\ \A j \in 1 .. H : b[j] = headerBytes[j]
        /\ \A j \in 1 .. Len(part) : b[H + j] = part[j]
    BY <2>1, TwoInARow
  <2> HIDE DEF b, H
  <2> QED BY <1>6, <2>2
<1> HIDE DEF H, k, take, part, b
<1>8. /\ \A j \in 1 .. take : input[j] = <<k, H + j - 1>>
      /\ Unbroken(frames, input')
      /\ IF input' = <<>> THEN ByteAt(frames, k, H + take) = After(frames, lastByte)
         ELSE input'[1] = ByteAt(frames, k, H + take) /\ input'[Len(input')] = lastByte
  <2>1. H + take <= Size(frames, k)
    BY <1>1, <1>2, <1>4
  <2>2. phase # "ended" /\ input # <<>> /\ H \in Nat /\ input[1] = <<k, H>>
    BY <1>1
  <2>3. ASSUME NEW rest, rest = SubSeq(input, take + 1, Len(input))
        PROVE  /\ \A j \in 1 .. take : input[j] = <<k, H + j - 1>>
               /\ Unbroken(frames, rest)
               /\ IF rest = <<>> THEN ByteAt(frames, k, H + take) = After(frames, lastByte)
                  ELSE rest[1] = ByteAt(frames, k, H + take) /\ rest[Len(rest)] = lastByte
    BY <1>2, <1>3, <2>1, <2>2, <2>3, ChunkTaken
  <2> QED BY <1>5, <2>3
<1>9. b = [j \in 1 .. Len(b) |-> <<k, j - 1>>]
  <2>1. ASSUME NEW j \in 1 .. Len(b) PROVE b[j] = <<k, j - 1>>
    <3>1. CASE j \in 1 .. H
      BY <1>1, <1>7, <3>1
    <3>2. CASE j \notin 1 .. H
      <4>1. j - H \in 1 .. take /\ H + (j - H) = j
        BY <1>1, <1>2, <1>7, <2>1, <3>2
      <4>2. b[j] = <<k, H + (j - H) - 1>>
        BY <1>6, <1>7, <1>8, <4>1
      <4> QED BY <1>1, <4>1, <4>2
    <3> QED BY <3>1, <3>2
  <2>2. b = [j \in 1 .. Len(b) |-> b[j]]
    BY <1>7
  <2> QED BY <2>1, <2>2
<1>10. PipeInv'
  BY <1>0, <1>5 DEF PipeInv
<1>11. CASE Fail("header")
  <2>1. /\ messages' = <<>> /\ phase' = "ended" /\ failure' = "header"
    BY <1>11 DEF Fail
  <2>2. DecodesWhatWasWritten'
    <3>1. ASSUME NEW i \in DOMAIN (delivered \o <<>>)
          PROVE  i \in DOMAIN (delivered \o messages)
                 /\ (delivered \o <<>>)[i] = (delivered \o messages)[i]
      <4>1. delivered \in Seq(Decoded) /\ messages \in Seq(Decoded)
        BY <1>0, StreamTypes
      <4> QED BY <3>1, <4>1, ConcatProperties
    <3> QED BY <1>0, <1>5, <2>1, <3>1 DEF DecodesWhatWasWritten, PayloadOf
  <2> QED BY <1>10, <2>1, <2>2 DEF PlaceInv, EndVerdict
<1>12. ASSUME headerBytes' = b, UNCHANGED <<body, failure, messages, phase>>
       PROVE  DecodesWhatWasWritten' /\ EndVerdict' /\ Count' = Count
  BY <1>0, <1>1, <1>5, <1>12 DEF DecodesWhatWasWritten, PayloadOf, EndVerdict, Count
<1>13. CASE /\ Len(b) < HeaderSize
            /\ headerBytes' = b
            /\ UNCHANGED <<header, body, failure, messages, phase>>
  <2>1. H + take < HeaderSize /\ H + take # Size(frames, k)
    BY <1>1, <1>2, <1>4, <1>7, <1>13
  <2>2. Place' = ByteAt(frames, k, H + take)
    BY <1>1, <1>7, <1>12, <1>13, <2>1 DEF Place, ByteAt, k
  <2>3. PlaceInv'
    BY <1>0, <1>1, <1>8, <1>9, <1>12, <1>13, <2>1, <2>2, <1>5 DEF PlaceInv, k
  <2> QED BY <1>10, <1>12, <1>13, <2>3
<1>14. CASE /\ Len(b) = HeaderSize /\ Parsed(b) # NoHeader
            /\ headerBytes' = b
            /\ header' = Parsed(b)
            /\ UNCHANGED <<body, failure, messages, phase>>
  <2>1. b[1] = <<k, 0>>
    BY <1>1, <1>9, <1>14, ReadBytesPositive
  <2>2. header' = k /\ frames[k].valid /\ header' # NoHeader
    BY <1>14, <2>1 DEF Parsed
  <2>3. Len(body) = 0 /\ body = [j \in 1 .. Len(body) |-> <<k, HeaderSize + j - 1>>]
    BY <1>1
  <2>4. Place' = ByteAt(frames, k, H + take)
    <3>1. HeaderSize + Len(body') = H + take
      BY <1>1, <1>7, <1>14, <2>3
    <3> QED BY <1>5, <2>2, <3>1 DEF Place
  <2>5. Unbroken(frames', input') /\ failure' = "none"
    BY <1>0, <1>1, <1>5, <1>8, <1>14 DEF PlaceInv
  <2>6. IF input' = <<>> THEN Place' = After(frames', lastByte')
        ELSE input'[1] = Place' /\ input'[Len(input')] = lastByte'
    BY <1>5, <1>8, <2>4
  <2>7. k = Count' + 1 /\ phase' # "ended"
    BY <1>1, <1>12, <1>14 DEF k
  <2>8. headerBytes' = [j \in 1 .. Len(headerBytes') |-> <<Count' + 1, j - 1>>]
    BY <1>9, <1>14, <2>7
  <2>9. body' = [j \in 1 .. Len(body') |-> <<header', HeaderSize + j - 1>>]
    BY <1>14, <2>2, <2>3
  <2>10. header' = Count' + 1 /\ frames'[header'].valid
    BY <1>5, <2>2, <2>7
  <2> HIDE DEF k
  <2>11. PlaceInv'
    BY <2>5, <2>6, <2>7, <2>8, <2>9, <2>10 DEF PlaceInv
  <2> QED BY <1>10, <1>12, <1>14, <2>11
<1> QED BY <1>5, <1>11, <1>13, <1>14

\* The bytes of a body after the ones held; then the frame is done, with the payload it
\* was written with.
LEMMA FeedBodyStream ==
  ASSUME StreamInv, FeedBody
  PROVE  PipeInv' /\ PlaceInv' /\ DecodesWhatWasWritten' /\ EndVerdict'
<1> DEFINE B == Len(body)
           size == frames[header].payload
           take == Least(size - B, Len(input))
           part == SubSeq(input, 1, take)
           b == body \o part
           o == HeaderSize + B
<1>0. IInv /\ PipeInv /\ PlaceInv /\ DecodesWhatWasWritten /\ EndVerdict
  BY DEF StreamInv
<1>1. /\ phase = "feeding" /\ header # NoHeader /\ (input # <<>> \/ B = size)
      /\ header \in 1 .. Len(frames) /\ header = Count + 1 /\ frames[header].valid
      /\ Count \in Nat /\ B \in Nat /\ B <= size /\ size <= MaxPayload /\ Len(input) \in Nat
      /\ input \in Seq(Bytes) /\ body \in Seq(Bytes) /\ frames \in Seq(Frames)
      /\ body = [j \in 1 .. B |-> <<header, HeaderSize + j - 1>>]
      /\ HeaderSize \in Nat \ {0} /\ failure = "none"
  <2>1. phase = "feeding" /\ header # NoHeader /\ (input # <<>> \/ B = size)
    BY DEF FeedBody, BodyComplete
  <2>2. /\ header \in 1 .. Len(frames) /\ B <= size /\ size <= MaxPayload
    BY <1>0, <2>1 DEF IInv, TypeOK, FrameInv, NoHeader
  <2>3. /\ header = Count + 1 /\ frames[header].valid /\ failure = "none"
        /\ body = [j \in 1 .. B |-> <<header, HeaderSize + j - 1>>]
    BY <1>0, <2>1 DEF PlaceInv
  <2> QED BY <1>0, <2>1, <2>2, <2>3, StreamTypes, ReadBytesPositive
<1>2. size \in Nat /\ Size(frames, header) = HeaderSize + size
  BY <1>1, SizeType
<1>3. /\ take \in 0 .. Len(input) /\ B + take <= size
      /\ take = 0 => B = size
  <2>1. size - B \in Nat
    BY <1>1, <1>2
  <2>2. take \in Nat /\ take <= size - B /\ take <= Len(input)
        /\ (take = size - B \/ take = Len(input))
    BY <1>1, <2>1, LeastOfTwo
  <2>3. Len(input) = 0 => input = <<>>
    BY <1>1
  <2> HIDE DEF take, B, size
  <2> QED BY <1>1, <1>2, <2>2, <2>3
<1>4. /\ input' = SubSeq(input, take + 1, Len(input))
      /\ UNCHANGED <<frames, pipe, closed, delivered, lastByte>>
      /\ \/ /\ Len(b) < size
            /\ body' = b
            /\ UNCHANGED <<headerBytes, header, failure, messages, phase>>
         \/ /\ Len(b) = size
            /\ messages' = Append(messages, [frame |-> header, payload |-> b])
            /\ headerBytes' = <<>>
            /\ body' = <<>>
            /\ header' = NoHeader
            /\ UNCHANGED <<failure, phase>>
  <2>1. ~(Len(messages) >= MaxMessagesPerFeed)
    <3>1. Len(messages) < MaxMessagesPerFeed
      BY <1>0, <1>1, RoomInBatch
    <3> QED BY <1>0, <3>1, ReadBytesPositive DEF IInv, TypeOK
  <2>2. \/ /\ Len(b) < size
           /\ body' = b
           /\ UNCHANGED <<headerBytes, header, failure, messages, phase>>
        \/ /\ Len(b) = size
           /\ Len(messages) >= MaxMessagesPerFeed
           /\ Fail("batch")
        \/ /\ Len(b) = size
           /\ Len(messages) < MaxMessagesPerFeed
           /\ messages' = Append(messages, [frame |-> header, payload |-> b])
           /\ headerBytes' = <<>>
           /\ body' = <<>>
           /\ header' = NoHeader
           /\ UNCHANGED <<failure, phase>>
    BY DEF FeedBody
  <2>3. /\ input' = SubSeq(input, take + 1, Len(input))
        /\ UNCHANGED <<frames, pipe, closed, delivered, lastByte>>
    BY DEF FeedBody
  <2> QED BY <2>1, <2>2, <2>3, Zenon
<1>5. part \in Seq(Bytes) /\ Len(part) = take /\ \A j \in 1 .. take : part[j] = input[j]
  <2> HIDE DEF take
  <2> QED BY <1>1, <1>3, PartOfSeq
<1>6. b \in Seq(Bytes) /\ Len(b) = B + take
      /\ (\A j \in 1 .. B : b[j] = body[j])
      /\ (\A j \in 1 .. take : b[B + j] = part[j])
  <2> HIDE DEF part, take
  <2>1. body \in Seq(Bytes) /\ part \in Seq(Bytes)
    BY <1>1, <1>5
  <2>2. /\ b \in Seq(Bytes) /\ Len(b) = B + Len(part)
        /\ \A j \in 1 .. B : b[j] = body[j]
        /\ \A j \in 1 .. Len(part) : b[B + j] = part[j]
    BY <2>1, TwoInARow
  <2> HIDE DEF b, B
  <2> QED BY <1>5, <2>2
<1> HIDE DEF B, size, take, part, b
<1>7. o \in Nat /\ o + take <= Size(frames, header) /\ o + take = HeaderSize + (B + take)
  BY <1>1, <1>2, <1>3
<1>8. /\ \A j \in 1 .. take : input[j] = <<header, o + j - 1>>
      /\ Unbroken(frames, input')
      /\ IF input' = <<>> THEN ByteAt(frames, header, o + take) = After(frames, lastByte)
         ELSE input'[1] = ByteAt(frames, header, o + take) /\ input'[Len(input')] = lastByte
  <2>1. Place = ByteAt(frames, header, o)
    BY <1>1 DEF Place, B
  <2>2. CASE take = 0
    <3>1. input' = input
      BY <1>1, <1>4, <2>2
    <3>2. o + take = o
      BY <1>7, <2>2
    <3> QED BY <1>0, <1>1, <2>1, <2>2, <3>1, <3>2 DEF PlaceInv
  <2>3. CASE take # 0
    <3>1. take \in 1 .. Len(input) /\ input # <<>> /\ o # Size(frames, header)
      BY <1>1, <1>2, <1>3, <2>3
    <3>2. input[1] = <<header, o>>
      BY <1>0, <1>1, <2>1, <3>1 DEF PlaceInv, ByteAt
    <3>3. phase # "ended"
      BY <1>1
    <3> HIDE DEF o
    <3>4. ASSUME NEW rest, rest = SubSeq(input, take + 1, Len(input))
          PROVE  /\ \A j \in 1 .. take : input[j] = <<header, o + j - 1>>
                 /\ Unbroken(frames, rest)
                 /\ IF rest = <<>>
                    THEN ByteAt(frames, header, o + take) = After(frames, lastByte)
                    ELSE rest[1] = ByteAt(frames, header, o + take) /\ rest[Len(rest)] = lastByte
      BY <1>1, <1>7, <3>1, <3>2, <3>3, <3>4, ChunkTaken
    <3> QED BY <1>4, <3>4
  <2> QED BY <2>2, <2>3
<1>9. b = [j \in 1 .. Len(b) |-> <<header, HeaderSize + j - 1>>]
  <2>1. ASSUME NEW j \in 1 .. Len(b) PROVE b[j] = <<header, HeaderSize + j - 1>>
    <3>1. CASE j \in 1 .. B
      BY <1>1, <1>6, <3>1
    <3>2. CASE j \notin 1 .. B
      <4>1. /\ j - B \in 1 .. take /\ B + (j - B) = j
            /\ o + (j - B) - 1 = HeaderSize + j - 1
        BY <1>1, <1>3, <1>6, <2>1, <3>2
      <4>2. b[j] = <<header, o + (j - B) - 1>>
        BY <1>5, <1>6, <1>8, <4>1
      <4> QED BY <4>1, <4>2
    <3> QED BY <3>1, <3>2
  <2>2. b = [j \in 1 .. Len(b) |-> b[j]]
    BY <1>6
  <2> QED BY <2>1, <2>2
<1>10. PipeInv' /\ Unbroken(frames', input')
  BY <1>0, <1>4, <1>8 DEF PipeInv
<1>11. CASE /\ Len(b) < size
            /\ body' = b
            /\ UNCHANGED <<headerBytes, header, failure, messages, phase>>
  <2>1. Count' = Count
    BY <1>4, <1>11 DEF Count
  <2>2. Place' = ByteAt(frames, header, o + take)
    <3>1. HeaderSize + Len(body') = o + take
      BY <1>1, <1>6, <1>7, <1>11
    <3> QED BY <1>1, <1>4, <1>11, <3>1 DEF Place
  <2>3. IF input' = <<>> THEN Place' = After(frames', lastByte')
        ELSE input'[1] = Place' /\ input'[Len(input')] = lastByte'
    BY <1>4, <1>8, <2>2
  <2>4. body' = [j \in 1 .. Len(body') |-> <<header', HeaderSize + j - 1>>]
    BY <1>9, <1>11
  <2>5. PlaceInv'
    BY <1>0, <1>1, <1>4, <1>10, <1>11, <2>1, <2>3, <2>4 DEF PlaceInv
  <2>6. DecodesWhatWasWritten' /\ EndVerdict'
    BY <1>0, <1>1, <1>4, <1>11 DEF DecodesWhatWasWritten, PayloadOf, EndVerdict
  <2> QED BY <1>10, <2>5, <2>6
<1>12. CASE /\ Len(b) = size
            /\ messages' = Append(messages, [frame |-> header, payload |-> b])
            /\ headerBytes' = <<>>
            /\ body' = <<>>
            /\ header' = NoHeader
            /\ UNCHANGED <<failure, phase>>
  <2> DEFINE m == [frame |-> header, payload |-> b]
  <2>1. /\ delivered \in Seq(Decoded) /\ messages \in Seq(Decoded)
        /\ Len(delivered) \in Nat /\ Len(messages) \in Nat
        /\ m \in Decoded
    BY <1>0, <1>1, <1>6, StreamTypes DEF Decoded
  <2> HIDE DEF m
  <2>2. messages' \in Seq(Decoded) /\ Len(messages') = Len(messages) + 1
        /\ (\A i \in 1 .. Len(messages) : messages'[i] = messages[i])
        /\ messages'[Len(messages) + 1] = m
    BY <1>12, <2>1, AppendProperties DEF m
  <2>3. Count' = header
    BY <1>1, <1>4, <2>1, <2>2 DEF Count
  <2>4. Place' = ByteAt(frames, header, o + take)
    <3>1. o + take = Size(frames, header)
      BY <1>2, <1>6, <1>7, <1>12
    <3>2. Place' = <<header + 1, 0>>
      BY <1>12, <2>3 DEF Place
    <3> QED BY <3>1, <3>2 DEF ByteAt
  <2>5. IF input' = <<>> THEN Place' = After(frames', lastByte')
        ELSE input'[1] = Place' /\ input'[Len(input')] = lastByte'
    BY <1>4, <1>8, <2>4
  <2>6. /\ headerBytes' = [j \in 1 .. Len(headerBytes') |-> <<Count' + 1, j - 1>>]
        /\ body' = [j \in 1 .. Len(body') |-> <<header', HeaderSize + j - 1>>]
    BY <1>12
  <2>7. PlaceInv'
    BY <1>1, <1>10, <1>12, <2>5, <2>6 DEF PlaceInv
  <2>8. DecodesWhatWasWritten'
    <3> DEFINE old == delivered \o messages
               new == delivered \o messages'
               D == Len(delivered)
               M == Len(messages)
    <3>1. /\ Len(old) = D + M /\ DOMAIN old = 1 .. D + M
          /\ \A i \in 1 .. D + M : old[i] = IF i <= D THEN delivered[i] ELSE messages[i - D]
      BY <2>1, ConcatProperties
    <3>2. /\ Len(new) = D + M + 1 /\ DOMAIN new = 1 .. D + M + 1
          /\ \A i \in 1 .. D + M + 1 :
               new[i] = IF i <= D THEN delivered[i] ELSE messages'[i - D]
      <4>1. /\ Len(new) = D + Len(messages') /\ DOMAIN new = 1 .. D + Len(messages')
            /\ \A i \in 1 .. D + Len(messages') :
                 new[i] = IF i <= D THEN delivered[i] ELSE messages'[i - D]
        <5>1. ASSUME NEW s \in Seq(Decoded)
              PROVE  /\ DOMAIN (delivered \o s) = 1 .. D + Len(s)
                     /\ Len(delivered \o s) = D + Len(s)
                     /\ \A i \in 1 .. D + Len(s) :
                          (delivered \o s)[i] = IF i <= D THEN delivered[i] ELSE s[i - D]
          BY <2>1, ConcatProperties
        <5> QED BY <2>2, <5>1
      <4>2. D + Len(messages') = D + M + 1
        BY <2>1, <2>2
      <4> QED BY <4>1, <4>2
    <3> HIDE DEF old, new
    <3>3. ASSUME NEW i \in DOMAIN new
          PROVE  /\ new[i].frame = i
                 /\ frames[i].valid /\ frames[i].payload <= MaxPayload
                 /\ new[i].payload = PayloadOf(i)
      <4>1. CASE i \in 1 .. D + M
        <5>1. new[i] = old[i]
          <6>1. ~(i <= D) => i - D \in 1 .. M
            BY <2>1, <4>1
          <6> QED BY <2>1, <2>2, <3>1, <3>2, <3>3, <4>1, <6>1
        <5> QED BY <1>0, <3>1, <4>1, <5>1 DEF DecodesWhatWasWritten, old
      <4>2. CASE i \notin 1 .. D + M
        <5>1. i = D + M + 1 /\ ~(i <= D) /\ i - D = M + 1
          BY <2>1, <3>2, <3>3, <4>2
        <5>2. i = header
          BY <1>1, <5>1 DEF Count
        <5>3. new[i] = m
          BY <2>2, <3>2, <3>3, <5>1
        <5>4. b = PayloadOf(header)
          BY <1>9, <1>12 DEF PayloadOf, size
        <5> QED BY <1>1, <5>2, <5>3, <5>4 DEF m, size
      <4> QED BY <4>1, <4>2
    <3> QED BY <1>4, <3>3 DEF DecodesWhatWasWritten, PayloadOf, new
  <2>9. EndVerdict'
    BY <1>1, <1>12 DEF EndVerdict
  <2> QED BY <1>10, <2>7, <2>8, <2>9
<1> QED BY <1>4, <1>11, <1>12

\* feed hands its messages over.
LEMMA FeedDoneStream ==
  ASSUME StreamInv, FeedDone
  PROVE  PipeInv' /\ PlaceInv' /\ DecodesWhatWasWritten' /\ EndVerdict'
<1>0. IInv /\ PipeInv /\ PlaceInv /\ DecodesWhatWasWritten /\ EndVerdict
  BY DEF StreamInv
<1>1. /\ phase = "feeding" /\ phase' = "reading"
      /\ delivered' = delivered \o messages /\ messages' = <<>>
      /\ UNCHANGED <<frames, pipe, closed, input, decoderVars, lastByte>>
  BY DEF FeedDone
<1>2. delivered \in Seq(Decoded) /\ messages \in Seq(Decoded)
  BY <1>0, StreamTypes
<1>3. /\ delivered' \in Seq(Decoded) /\ Len(delivered') = Len(delivered) + Len(messages)
      /\ delivered' \o messages' = delivered \o messages
  <2>1. /\ delivered \o messages \in Seq(Decoded)
        /\ Len(delivered \o messages) = Len(delivered) + Len(messages)
    BY <1>2, ConcatProperties
  <2>2. delivered' \o <<>> = delivered'
    BY <1>1, <2>1, ConcatEmptySeq
  <2> QED BY <1>1, <2>1, <2>2
<1>4. Count' = Count
  BY <1>1, <1>2, <1>3 DEF Count
<1>5. Place' = Place
  BY <1>1, <1>4 DEF Place, decoderVars
<1>6. PipeInv' /\ PlaceInv'
  BY <1>0, <1>1, <1>4, <1>5 DEF PipeInv, PlaceInv, decoderVars
<1>7. DecodesWhatWasWritten' /\ EndVerdict'
  BY <1>0, <1>1, <1>3 DEF DecodesWhatWasWritten, PayloadOf, EndVerdict
<1> QED BY <1>6, <1>7

\* What the decoder holds at the end of the pipe tells where the stream ends.
LEMMA FinishStream ==
  ASSUME StreamInv, Finish
  PROVE  PipeInv' /\ PlaceInv' /\ DecodesWhatWasWritten' /\ EndVerdict'
<1>0. IInv /\ PipeInv /\ PlaceInv /\ DecodesWhatWasWritten /\ EndVerdict
  BY DEF StreamInv
<1>1. /\ phase = "reading" /\ closed /\ phase' = "ended"
      /\ UNCHANGED <<frames, pipe, closed, input, delivered, lastByte>>
  BY DEF Finish, Fail
<1>2. /\ messages = <<>> /\ input = <<>> /\ failure = "none"
      /\ Place = After(frames, lastByte)
  BY <1>0, <1>1 DEF IInv, BatchInv, PlaceInv
<1>3. messages' = <<>>
  BY <1>2 DEF Finish, Fail
<1>4. PipeInv' /\ PlaceInv' /\ DecodesWhatWasWritten'
  BY <1>0, <1>1, <1>2, <1>3 DEF PipeInv, PlaceInv, DecodesWhatWasWritten, PayloadOf
<1>5. /\ headerBytes \in Seq(Bytes) /\ body \in Seq(Bytes)
      /\ Len(headerBytes) \in Nat /\ Len(body) \in Nat /\ Len(delivered) \in Nat
      /\ delivered \in Seq(Decoded) /\ Count = Len(delivered) /\ HeaderSize \in Nat \ {0}
      /\ header # NoHeader => Len(headerBytes) = HeaderSize /\ Len(body) # frames[header].payload
      /\ header = NoHeader => Len(body) = 0
      /\ header \in 0 .. Len(frames)
  <2>1. Len(messages) = 0
    BY <1>2
  <2>2. delivered \in Seq(Decoded) /\ Len(delivered) \in Nat
    BY <1>0, StreamTypes
  <2>3. Count = Len(delivered)
    BY <2>1, <2>2 DEF Count
  <2>4. header # NoHeader => Len(body) # frames[header].payload
    BY <1>0, <1>1 DEF IInv, BatchInv, BodyComplete
  <2>5. header # NoHeader => Len(headerBytes) = HeaderSize
    BY <1>0 DEF IInv, FrameInv
  <2>6. header = NoHeader => body = <<>>
    BY <1>0 DEF IInv, FrameInv
  <2>7. header \in 0 .. Len(frames)
    BY <1>0 DEF IInv, TypeOK
  <2> QED BY <1>0, <2>2, <2>3, <2>4, <2>5, <2>6, <2>7, StreamTypes, ReadBytesPositive
<1>6. CASE Buffered = 0
  <2>1. failure' = "none"
    BY <1>2, <1>6 DEF Finish, decoderVars
  <2>2. header = NoHeader /\ Len(headerBytes) = 0
    BY <1>5, <1>6 DEF Buffered
  <2>3. After(frames, lastByte) = <<Len(delivered) + 1, 0>>
    BY <1>2, <1>5, <2>2 DEF Place
  <2>4. CASE lastByte = NoByte
    <3>1. Len(delivered) = 0
      BY <1>5, <2>3, <2>4 DEF After
    <3>2. delivered = <<>>
      BY <1>5, <3>1
    <3> QED BY <1>1, <1>4, <2>1, <2>4, <3>2 DEF EndVerdict
  <2>5. CASE lastByte # NoByte
    <3> DEFINE k == lastByte[1]
               o == lastByte[2]
    <3>1. k \in 1 .. Len(frames) /\ o \in Nat /\ lastByte = <<k, o>>
      BY <1>0, <2>5, StreamTypes DEF Positions
    <3> HIDE DEF k, o
    <3>2. ByteAt(frames, k, o + 1) = <<Len(delivered) + 1, 0>>
      BY <2>3, <2>5 DEF After, k, o
    <3>3. o + 1 = Size(frames, k) /\ k + 1 = Len(delivered) + 1
      BY <3>1, <3>2 DEF ByteAt
    <3>4. k = Len(delivered) /\ o = Size(frames, k) - 1 /\ delivered # <<>>
      BY <1>0, <1>5, <3>1, <3>3, StreamTypes
    <3>5. lastByte = <<Len(delivered), FrameSize(Len(delivered)) - 1>>
      BY <3>1, <3>4 DEF Size, FrameSize
    <3>6. EndVerdict'
      BY <1>1, <2>1, <3>4, <3>5 DEF EndVerdict, FrameSize
    <3> QED BY <1>4, <3>6
  <2> QED BY <2>4, <2>5
<1>7. CASE Buffered # 0
  <2>1. failure' = "truncated"
    BY <1>7 DEF Finish, Fail
  <2>2. ~ (Place[2] = 0)
    <3>1. CASE header = NoHeader
      BY <1>5, <1>7, <3>1 DEF Buffered, Place
    <3>2. CASE header # NoHeader
      <4>1. HeaderSize + Len(body) # Size(frames, header)
        <5>1. header \in 1 .. Len(frames)
          BY <1>5, <3>2 DEF NoHeader
        <5>2. frames[header].payload \in Nat
              /\ Size(frames, header) = HeaderSize + frames[header].payload
          BY <1>0, <5>1, StreamTypes, SizeType
        <5> QED BY <1>5, <3>2, <5>2
      <4>2. Place = <<header, HeaderSize + Len(body)>>
        BY <3>2, <4>1 DEF Place, ByteAt
      <4> QED BY <1>5, <4>2
    <3> QED BY <3>1, <3>2
  <2>3. lastByte # NoByte
    BY <1>2, <2>2 DEF After
  <2> DEFINE k == lastByte[1]
             o == lastByte[2]
  <2>4. k \in 1 .. Len(frames) /\ o \in Nat /\ o < Size(frames, k)
    BY <1>0, <2>3, StreamTypes DEF Positions, PipeInv
  <2>5. Size(frames, k) \in Nat
    BY <1>0, <2>4, StreamTypes, SizeType
  <2> HIDE DEF k, o
  <2>6. Place = ByteAt(frames, k, o + 1)
    BY <1>2, <2>3 DEF After, k, o
  <2>7. o + 1 # Size(frames, k)
    BY <2>2, <2>6 DEF ByteAt
  <2>8. o < FrameSize(k) - 1
    BY <2>4, <2>5, <2>7 DEF Size, FrameSize
  <2>9. EndVerdict'
    BY <1>1, <2>1, <2>8 DEF EndVerdict, FrameSize, k, o
  <2> QED BY <1>4, <2>9
<1> QED BY <1>6, <1>7

\* The stream, the decoder's place in it and what was decoded, step by step.
LEMMA StreamInductive == StreamInv /\ [Next]_vars => StreamInv'
<1> SUFFICES ASSUME StreamInv, [Next]_vars PROVE StreamInv'
  OBVIOUS
<1>0. IInv'
  BY Inductive DEF StreamInv
<1>1. CASE \E f \in Frames : Write(f)
  BY <1>0, <1>1, WriteStream DEF StreamInv
<1>2. CASE Close
  BY <1>0, <1>2, CloseStream DEF StreamInv
<1>3. CASE \E n \in 1 .. Len(pipe) : Read(n)
  BY <1>0, <1>3, ReadStream DEF StreamInv
<1>4. CASE FeedHeader
  BY <1>0, <1>4, FeedHeaderStream DEF StreamInv
<1>5. CASE FeedBody
  BY <1>0, <1>5, FeedBodyStream DEF StreamInv
<1>6. CASE FeedDone
  BY <1>0, <1>6, FeedDoneStream DEF StreamInv
<1>7. CASE Finish
  BY <1>0, <1>7, FinishStream DEF StreamInv
<1>8. CASE UNCHANGED vars
  <2>1. PipeInv' /\ PlaceInv'
    BY <1>8 DEF vars, decoderVars, StreamInv, PipeInv, PlaceInv, Place, Count
  <2>2. DecodesWhatWasWritten' /\ EndVerdict'
    BY <1>8 DEF vars, decoderVars, StreamInv, DecodesWhatWasWritten, EndVerdict,
                PayloadOf, FrameSize
  <2> QED BY <1>0, <2>1, <2>2 DEF StreamInv
<1> QED BY <1>1, <1>2, <1>3, <1>4, <1>5, <1>6, <1>7, <1>8 DEF Next

-----------------------------------------------------------------------------

\* The decoder keeps its types, and never buffers more than one header and one
\* payload, whatever arrives in whatever pieces.
THEOREM TypeCorrect == Spec => []TypeOK
<1>1. IInv => TypeOK
  BY DEF IInv
<1> QED BY <1>1, InitInv, Inductive, PTL DEF Spec

\* For every header size and batch limit a read of as many bytes as that many
\* headers cannot make a feed exceed the batch limit: the only way the reader
\* fails a well-formed stream is out of its reach.
THEOREM BatchNeverTooLargeHolds == Spec => []BatchNeverTooLarge
<1>1. IInv => BatchNeverTooLarge
  BY DEF IInv
<1> QED BY <1>1, InitInv, Inductive, PTL DEF Spec

\* Framing, for every stream and however a pipe cuts it into chunks: what has been
\* decoded is the frames that were written, in order, each once with its own payload.
THEOREM DecodesWhatWasWrittenHolds == Spec => []DecodesWhatWasWritten
<1>1. StreamInv => DecodesWhatWasWritten
  BY DEF StreamInv
<1> QED BY <1>1, InitStream, StreamInductive, PTL DEF Spec

\* The verdict of finish is right wherever the peer stopped writing.
THEOREM EndVerdictHolds == Spec => []EndVerdict
<1>1. StreamInv => EndVerdict
  BY DEF StreamInv
<1> QED BY <1>1, InitStream, StreamInductive, PTL DEF Spec

=============================================================================
