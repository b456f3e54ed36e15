---------------------------- MODULE FrameDecoder ----------------------------
(***************************************************************************)
(* The RuntimeMessage v1 decoder, the same in core/contracts for Rust and  *)
(* for C++, and the loop that feeds it what a pipe happens to deliver:     *)
(* read_stdout in the manager, run_stdio in the Runtime.  A byte is the    *)
(* pair of the frame it was written for and its offset there, so that a    *)
(* decoder that loses its place in the stream shows.                       *)
(***************************************************************************)
EXTENDS Integers, Sequences

CONSTANTS
  HeaderSize,            \* HEADER_SIZE
  MaxPayload,            \* MAX_CONTROL_PAYLOAD_BYTES
  MaxMessagesPerFeed,    \* MAX_MESSAGES_PER_FEED
  MaxFrames              \* bound of the model: frames of one stream

ASSUME DecoderAssumption ==
  /\ HeaderSize \in Nat \ {0}
  /\ MaxPayload \in Nat
  /\ MaxMessagesPerFeed \in Nat \ {0}
  /\ MaxFrames \in Nat \ {0}

\* STDOUT_READ_BYTES and kStdioReadChunkBytes.  Mutant: room for one frame more.
ReadBytesOneMore == HeaderSize * (MaxMessagesPerFeed + 1)
ReadBytes == HeaderSize * MaxMessagesPerFeed

\* A header declares the size of its payload, up to two bytes too large here.
\* The rest of the header is well-formed or not.
Frames == [payload : 0 .. MaxPayload + 2, valid : BOOLEAN]
NoHeader == 0
NoByte == <<0, 0>>

VARIABLES
  frames,        \* what the peer has written, frame by frame
  pipe, closed,  \* its bytes still unread; the peer has closed its end
  input,         \* the rest of the chunk being fed
  headerBytes, body, header,   \* Decoder: the frame it is in the middle of
  messages,      \* decoded by the feed under way
  failure,       \* Decoder.failure: none, header, batch, truncated
  delivered,     \* what the feeds have returned to the reader
  lastByte,      \* history: the last byte read, none before
  phase          \* reading, feeding, ended

decoderVars == <<headerBytes, body, header, failure>>
vars == <<frames, pipe, closed, input, headerBytes, body, header, messages,
          failure, delivered, lastByte, phase>>

Init ==
  /\ frames = <<>>
  /\ pipe = <<>>
  /\ closed = FALSE
  /\ input = <<>>
  /\ headerBytes = <<>>
  /\ body = <<>>
  /\ header = NoHeader
  /\ messages = <<>>
  /\ failure = "none"
  /\ delivered = <<>>
  /\ lastByte = NoByte
  /\ phase = "reading"

-----------------------------------------------------------------------------
(* The peer (external) *)

FrameSize(k) == HeaderSize + frames[k].payload

Write(f) ==
  /\ ~closed
  /\ Len(frames) < MaxFrames
  /\ frames' = Append(frames, f)
  /\ LET k == Len(frames) + 1
     IN  pipe' = pipe \o [j \in 1 .. HeaderSize + f.payload |-> <<k, j - 1>>]
  /\ UNCHANGED <<closed, input, decoderVars, messages, delivered, lastByte, phase>>

\* The peer closes its end, or dies in the middle of a write.
Close ==
  /\ ~closed
  /\ closed' = TRUE
  /\ \E n \in 0 .. Len(pipe) : pipe' = SubSeq(pipe, 1, n)
  /\ UNCHANGED <<frames, input, decoderVars, messages, delivered, lastByte, phase>>

-----------------------------------------------------------------------------
(* Decoder::feed, one turn of its loop at a time *)

\* One read returns whatever is there, up to the size of the buffer.
Read(n) ==
  /\ phase = "reading"
  /\ n <= ReadBytes
  /\ input' = SubSeq(pipe, 1, n)
  /\ pipe' = SubSeq(pipe, n + 1, Len(pipe))
  /\ lastByte' = pipe[n]
  /\ messages' = <<>>
  /\ phase' = "feeding"
  /\ UNCHANGED <<frames, closed, decoderVars, delivered>>

\* Decoder::fail, and the reader gives up.
Fail(kind) ==
  /\ failure' = kind
  /\ headerBytes' = <<>>
  /\ body' = <<>>
  /\ header' = NoHeader
  /\ messages' = <<>>
  /\ phase' = "ended"

\* parse_header, on the bytes b that were collected: the frame they are the
\* header of, if they are one and every field of it is acceptable.
Parsed(b) ==
  IF /\ frames[b[1][1]].valid
     /\ frames[b[1][1]].payload <= MaxPayload
     /\ b = [j \in 1 .. HeaderSize |-> <<b[1][1], j - 1>>]
  THEN b[1][1] ELSE NoHeader

Least(m, n) == IF m <= n THEN m ELSE n

FeedHeader ==
  /\ phase = "feeding"
  /\ input # <<>> /\ header = NoHeader
  /\ LET take == Least(HeaderSize - Len(headerBytes), Len(input))
         b == headerBytes \o SubSeq(input, 1, take)
     IN  /\ input' = SubSeq(input, take + 1, Len(input))
         /\ \/ /\ Len(b) < HeaderSize
               /\ headerBytes' = b
               /\ UNCHANGED <<header, body, failure, messages, phase>>
            \/ /\ Len(b) = HeaderSize /\ Parsed(b) # NoHeader
               /\ headerBytes' = b
               /\ header' = Parsed(b)
               /\ UNCHANGED <<body, failure, messages, phase>>
            \/ /\ Len(b) = HeaderSize /\ Parsed(b) = NoHeader
               /\ Fail("header")
  /\ UNCHANGED <<frames, pipe, closed, delivered, lastByte>>

\* A frame that needs no more bytes is finished in the turn that parsed it.
BodyComplete == Len(body) = frames[header].payload

\* Mutant: the next frame goes on after this one's body.
FeedBodyKeepsBody ==
  /\ phase = "feeding"
  /\ header # NoHeader
  /\ input # <<>> \/ BodyComplete
  /\ LET take == Least(frames[header].payload - Len(body), Len(input))
         b == body \o SubSeq(input, 1, take)
     IN  /\ input' = SubSeq(input, take + 1, Len(input))
         /\ body' = b
         /\ \/ /\ Len(b) < frames[header].payload
               /\ UNCHANGED <<headerBytes, header, messages>>
            \/ /\ Len(b) >= frames[header].payload
               /\ messages' = Append(messages, [frame |-> header, payload |-> b])
               /\ headerBytes' = <<>>
               /\ header' = NoHeader
         /\ UNCHANGED <<failure, phase>>
  /\ UNCHANGED <<frames, pipe, closed, delivered, lastByte>>

FeedBody ==
  /\ phase = "feeding"
  /\ header # NoHeader
  /\ input # <<>> \/ BodyComplete
  /\ LET take == Least(frames[header].payload - Len(body), Len(input))
         b == body \o SubSeq(input, 1, take)
     IN  /\ input' = SubSeq(input, take + 1, Len(input))
         /\ \/ /\ Len(b) < frames[header].payload
               /\ body' = b
               /\ UNCHANGED <<headerBytes, header, failure, messages, phase>>
            \/ /\ Len(b) = frames[header].payload
               /\ Len(messages) >= MaxMessagesPerFeed
               /\ Fail("batch")
            \/ /\ Len(b) = frames[header].payload
               /\ Len(messages) < MaxMessagesPerFeed
               /\ messages' = Append(messages, [frame |-> header, payload |-> b])
               /\ headerBytes' = <<>>
               /\ body' = <<>>
               /\ header' = NoHeader
               /\ UNCHANGED <<failure, phase>>
  /\ UNCHANGED <<frames, pipe, closed, delivered, lastByte>>

\* feed returns, and the reader hands over every message of this chunk.
FeedDone ==
  /\ phase = "feeding"
  /\ input = <<>>
  /\ ~(header # NoHeader /\ BodyComplete)
  /\ delivered' = delivered \o messages
  /\ messages' = <<>>
  /\ phase' = "reading"
  /\ UNCHANGED <<frames, pipe, closed, input, decoderVars, lastByte>>

\* Decoder::finish at the end of the pipe.  Mutant: only the body counts.
BufferedBody == Len(body)
Buffered == Len(headerBytes) + Len(body)

Finish ==
  /\ phase = "reading"
  /\ closed /\ pipe = <<>>
  /\ IF Buffered = 0
     THEN /\ phase' = "ended"
          /\ UNCHANGED <<decoderVars, messages>>
     ELSE Fail("truncated")
  /\ UNCHANGED <<frames, pipe, closed, input, delivered, lastByte>>

Next ==
  \/ \E f \in Frames : Write(f)
  \/ Close
  \/ \E n \in 1 .. Len(pipe) : Read(n)
  \/ FeedHeader \/ FeedBody \/ FeedDone
  \/ Finish

Spec == Init /\ [][Next]_vars

-----------------------------------------------------------------------------

Bytes == (1 .. Len(frames)) \X (0 .. HeaderSize + MaxPayload + 1)
Decoded == [frame : 1 .. Len(frames), payload : Seq(Bytes)]

\* The types, and the decoder's memory: never more than one header and one body.
TypeOK ==
  /\ frames \in Seq(Frames)
  /\ Len(frames) <= MaxFrames
  /\ pipe \in Seq(Bytes)
  /\ closed \in BOOLEAN
  /\ input \in Seq(Bytes)
  /\ headerBytes \in Seq(Bytes)
  /\ body \in Seq(Bytes)
  /\ Len(headerBytes) <= HeaderSize
  /\ Len(body) <= MaxPayload
  /\ header \in 0 .. Len(frames)
  /\ messages \in Seq(Decoded)
  /\ failure \in {"none", "header", "batch", "truncated"}
  /\ delivered \in Seq(Decoded)
  /\ lastByte \in Bytes \cup {NoByte}
  /\ phase \in {"reading", "feeding", "ended"}

\* The payload of frame k as it was written.
PayloadOf(k) == [j \in 1 .. frames[k].payload |-> <<k, HeaderSize + j - 1>>]

\* Framing: however the stream was cut into chunks, what has been decoded is the
\* frames that were written, from the first one on, each once, in order and with
\* its own payload, none of them malformed or larger than the decoder's storage.
DecodesWhatWasWritten ==
  LET decoded == delivered \o messages
  IN  \A i \in DOMAIN decoded :
        /\ decoded[i].frame = i
        /\ frames[i].valid /\ frames[i].payload <= MaxPayload
        /\ decoded[i].payload = PayloadOf(i)

\* A read is too small for the batch limit to be reached, even when the smallest
\* frames stick together behind a frame that was begun by an earlier read.
BatchNeverTooLarge == failure # "batch"

\* The verdict at the end of the pipe: clean exactly when the last byte that
\* arrived ends the last frame that was decoded, truncated exactly when it lies
\* inside a frame.
EndVerdict ==
  LET last == <<Len(delivered), FrameSize(Len(delivered)) - 1>>
  IN  phase = "ended" =>
        /\ failure = "none" =>
             lastByte = IF delivered = <<>> THEN NoByte ELSE last
        /\ failure = "truncated" =>
             lastByte[2] < FrameSize(lastByte[1]) - 1

=============================================================================
