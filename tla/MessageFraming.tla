--------------------------- MODULE MessageFraming ---------------------------
(***************************************************************************)
(* How the internal server cuts a connection's byte stream into messages:  *)
(* asyncReceiveHandler and processBufferData on structures::Connection's   *)
(* connContext, one action per call of processBufferData, which calls      *)
(* itself for what a read holds beyond the message it has completed.       *)
(* The peer writes whole frames, a header with the payload's size and the  *)
(* payload; TCP divides the stream into reads as it likes.  A byte is told *)
(* apart by the message it belongs to and its place in the frame.          *)
(* Module InternalServer starts from the messages found here.              *)
(***************************************************************************)
EXTENDS Naturals, Sequences

CONSTANTS
    MaxFrames,      \* bound: messages the peer writes
    MaxPayload,     \* bound: bytes of a payload
    BufferLength    \* settings::buffer_length

ASSUME FramingBounds == MaxFrames \in Nat /\ MaxPayload \in Nat /\ BufferLength \in Nat

VARIABLES
    written,                \* payload sizes of the messages the peer has written
    stream,                 \* bytes written and not yet processed
    bytesTransferred,       \* how many of them are in the present read and still to be processed
    bufferOffset,           \* where in the buffer they start
    completeMessageSize,
    completeMessage,
    handled,                \* messages given to handleMessage, which accepted them
    served                  \* FALSE once the handler has given the connection up

framingVars == <<written, stream, bytesTransferred, bufferOffset,
                 completeMessageSize, completeMessage, handled, served>>

\* settings::header, bytes of a message's size.
HeaderSize == 4

Byte(msg, at) == [msg |-> msg, at |-> at]

\* The k-th message on the wire, with n bytes of payload.
Frame(k, n) == [i \in 1..(HeaderSize + n) |-> Byte(k, i)]

Payload(k) == [i \in 1..written[k] |-> Byte(k, HeaderSize + i)]

FramingInit ==
    /\ written = <<>> /\ stream = <<>>
    /\ bytesTransferred = 0 /\ bufferOffset = 0
    /\ completeMessageSize = 0 /\ completeMessage = <<>>
    /\ handled = <<>> /\ served = TRUE

\* The peer writes a message with n bytes of payload.
Write(n) ==
    /\ Len(written) < MaxFrames
    /\ written' = Append(written, n)
    /\ stream' = stream \o Frame(Len(written) + 1, n)
    /\ UNCHANGED <<bytesTransferred, bufferOffset, completeMessageSize, completeMessage, handled, served>>

\* addAsyncReceive completes with n bytes, never more than the buffer holds.
Receive(n) ==
    /\ served /\ bytesTransferred = 0
    /\ n <= Len(stream) /\ n <= BufferLength
    /\ bytesTransferred' = n /\ bufferOffset' = 0
    /\ UNCHANGED <<written, stream, completeMessageSize, completeMessage, handled, served>>

-----------------------------------------------------------------------------
(* processBufferData *)

Processing == served /\ bytesTransferred > 0

\* Mutant of IncompleteHeader: the rest of a message is taken for a header.
IncompleteHeaderAlways == bytesTransferred < HeaderSize

IncompleteHeader == bytesTransferred < HeaderSize /\ completeMessageSize = 0

\* What the tests at the start of processBufferData let pass.
Processable == bufferOffset + bytesTransferred <= BufferLength /\ ~IncompleteHeader

\* Bytes of a header that come before the message's.
HeaderLeft == IF completeMessageSize = 0 THEN HeaderSize ELSE 0

BytesLeft == bytesTransferred - HeaderLeft

\* The memcpy of the size: what the peer wrote if these bytes are a header, else anything.
SizesRead ==
    IF completeMessageSize # 0 THEN {completeMessageSize}
    ELSE IF \A i \in 1..HeaderSize : stream[i] = Byte(stream[1].msg, i)
    THEN {written[stream[1].msg]}
    ELSE 0..MaxPayload

\* completeMessageSize - completeMessage.size()
Missing(size) == size - Len(completeMessage)

\* completeMessage with n bytes more.
Extended(n) == completeMessage \o SubSeq(stream, HeaderLeft + 1, HeaderLeft + n)

\* n bytes of the read are done with.
Consume(n) ==
    /\ stream' = SubSeq(stream, n + 1, Len(stream))
    /\ bytesTransferred' = bytesTransferred - n
    /\ bufferOffset' = bufferOffset + n

\* The read cannot be processed: the connection is removed.
RejectRead ==
    /\ Processing /\ ~Processable
    /\ served' = FALSE
    /\ UNCHANGED <<written, stream, bytesTransferred, bufferOffset,
                   completeMessageSize, completeMessage, handled>>

\* The read ends before the message does.
FillMessage ==
    /\ Processing /\ Processable
    /\ \E size \in SizesRead :
        /\ BytesLeft < Missing(size)
        /\ completeMessageSize' = size
        /\ completeMessage' = Extended(BytesLeft)
        /\ Consume(bytesTransferred)
    /\ UNCHANGED <<written, handled, served>>

\* Mutant of CompleteMessage: the size of the message stays.
CompleteMessageUnreset ==
    /\ Processing /\ Processable
    /\ \E size \in SizesRead :
        /\ Missing(size) <= BytesLeft /\ size # 0
        /\ handled' = Append(handled, Extended(Missing(size)))
        /\ Consume(HeaderLeft + Missing(size))
        /\ completeMessageSize' = size
    /\ completeMessage' = <<>>
    /\ UNCHANGED <<written, served>>

\* The message is complete and handleMessage accepts it.
CompleteMessage ==
    /\ Processing /\ Processable
    /\ \E size \in SizesRead :
        /\ Missing(size) <= BytesLeft /\ size # 0
        /\ handled' = Append(handled, Extended(Missing(size)))
        /\ Consume(HeaderLeft + Missing(size))
    /\ completeMessageSize' = 0 /\ completeMessage' = <<>>
    /\ UNCHANGED <<written, served>>

\* handleMessage refuses the complete message, an empty one always: it is neither a status
\* nor a connect.
RefuseMessage ==
    /\ Processing /\ Processable
    /\ \E size \in SizesRead :
        /\ Missing(size) <= BytesLeft
        /\ completeMessageSize' = size
        /\ completeMessage' = Extended(Missing(size))
    /\ served' = FALSE
    /\ UNCHANGED <<written, stream, bytesTransferred, bufferOffset, handled>>

FramingNext ==
    \/ \E n \in 0..MaxPayload : Write(n)
    \/ \E n \in 1..Len(stream) : Receive(n)
    \/ RejectRead \/ FillMessage \/ CompleteMessage \/ RefuseMessage

FramingSpec == FramingInit /\ [][FramingNext]_framingVars

-----------------------------------------------------------------------------
(* Properties *)

\* The first byte processBufferData has to look at next.
NextByte ==
    Byte(Len(handled) + 1,
         IF completeMessageSize = 0 THEN 1 ELSE HeaderSize + Len(completeMessage) + 1)

\* However TCP divides the stream, the messages handled are those the peer wrote, whole and
\* in order; while the connection is served, processing goes on exactly where it stopped and
\* no message stays behind once every byte is processed (processBufferData, connContext).
FramingFaithful ==
    /\ Len(handled) <= Len(written)
    /\ \A k \in 1..Len(handled) : handled[k] = Payload(k)
    /\ served => IF stream = <<>> THEN Len(handled) = Len(written) /\ completeMessageSize = 0
                 ELSE stream[1] = NextByte

\* The handler gives a connection up only when a read ends inside the header of the next
\* message, or when handleMessage refused that message, complete as the peer wrote it; the
\* test of the offset against the buffer never fails (processBufferData's error returns).
GivenUpForCause ==
    ~served =>
        LET next == Len(handled) + 1
        IN  /\ next <= Len(written)
            /\ stream # <<>>
            /\ \/ bytesTransferred < HeaderSize /\ stream[1] = Byte(next, 1)
               \/ completeMessageSize = written[next] /\ completeMessage = Payload(next)
=============================================================================
