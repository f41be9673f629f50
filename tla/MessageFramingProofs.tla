------------------------ MODULE MessageFramingProofs ------------------------
(***************************************************************************)
(* Proofs about MessageFraming, for streams of any number of messages of   *)
(* any size, any buffer and any division of the stream into reads.         *)
(***************************************************************************)
EXTENDS MessageFraming, Integers, QueueLemmas

-----------------------------------------------------------------------------
(* The inductive invariant *)

Bytes == [msg : Nat, at : Nat]

FramingTypes ==
    /\ written \in Seq(Nat)
    /\ stream \in Seq(Bytes)
    /\ bytesTransferred \in 0..Len(stream)
    /\ bufferOffset \in Nat
    /\ completeMessageSize \in Nat
    /\ completeMessage \in Seq(Bytes)
    /\ handled \in Seq(Seq(Bytes))
    /\ served \in BOOLEAN

\* Where the frame that byte i of the stream s belongs to ends, if its messages have the
\* sizes w.
FrameEnd(w, s, i) == i + HeaderSize + w[s[i].msg] - s[i].at

\* What byte i of the stream says of the bytes after it: its frame follows to the end, and
\* then the next frame, if there is one.  (Said of the next byte only, it would take an
\* induction to see what a read of several bytes finds.)
FollowedByFrame(w, s, i) ==
    /\ s[i].msg \in 1..Len(w)
    /\ s[i].at \in 1..(HeaderSize + w[s[i].msg])
    /\ FrameEnd(w, s, i) <= Len(s)
    /\ \A j \in i..FrameEnd(w, s, i) : s[j] = Byte(s[i].msg, s[i].at + (j - i))
    /\ FrameEnd(w, s, i) = Len(s) => s[i].msg = Len(w)
    /\ FrameEnd(w, s, i) < Len(s) => s[FrameEnd(w, s, i) + 1] = Byte(s[i].msg + 1, 1)

IsStream(w, s) == \A i \in 1..Len(s) : FollowedByFrame(w, s, i)

\* The offset never leaves the buffer.
InBuffer == bufferOffset + bytesTransferred <= BufferLength

\* What connContext holds of a message: nothing before its header, a proper part after it.
ContextInv ==
    /\ completeMessageSize = 0 => completeMessage = <<>>
    /\ completeMessageSize # 0 =>
          /\ Len(handled) < Len(written)
          /\ completeMessageSize = written[Len(handled) + 1]
          /\ Len(completeMessage) < completeMessageSize
    /\ \A j \in 1..Len(completeMessage) : completeMessage[j] = Byte(Len(handled) + 1, HeaderSize + j)

FramingInv ==
    /\ FramingTypes
    /\ IsStream(written, stream)
    /\ InBuffer
    /\ served => ContextInv
    /\ FramingFaithful
    /\ GivenUpForCause

-----------------------------------------------------------------------------
(* Frames and streams *)

LEMMA ByteProperties ==
    ASSUME NEW k \in Nat, NEW a \in Nat
    PROVE  Byte(k, a) \in Bytes /\ Byte(k, a).msg = k /\ Byte(k, a).at = a
BY DEF Byte, Bytes

LEMMA FrameProperties ==
    ASSUME NEW k \in Nat, NEW n \in Nat
    PROVE  /\ Frame(k, n) \in Seq(Bytes)
           /\ Len(Frame(k, n)) = HeaderSize + n
           /\ \A i \in 1..(HeaderSize + n) : Frame(k, n)[i] = Byte(k, i)
<1>1. HeaderSize + n \in Nat
  BY DEF HeaderSize
<1>2. \A i \in 1..(HeaderSize + n) : Byte(k, i) \in Bytes
  BY ByteProperties, <1>1
<1>3. Frame(k, n) \in [1..(HeaderSize + n) -> Bytes]
  BY <1>2 DEF Frame
<1> QED
  BY <1>1, <1>3 DEF Frame

\* The stream without its first n bytes.
LEMMA RestOfStream ==
    ASSUME NEW s \in Seq(Bytes), NEW n \in 0..Len(s)
    PROVE  LET t == SubSeq(s, n + 1, Len(s))
           IN  /\ t \in Seq(Bytes)
               /\ Len(t) = Len(s) - n
               /\ \A i \in 1..Len(t) : t[i] = s[n + i]
<1> DEFINE t == SubSeq(s, n + 1, Len(s))
<1>1. Len(s) \in Nat
  BY LenProperties
<1>2. n + 1 \in 1..(Len(s) + 1) /\ Len(s) \in 0..Len(s) /\ n + 1 <= Len(s) + 1
  BY <1>1
<1>3. /\ t \in Seq(Bytes)
      /\ Len(t) = Len(s) - (n + 1) + 1
      /\ \A k \in 1..(Len(s) - (n + 1) + 1) : t[k] = s[(n + 1) + k - 1]
  BY <1>2, PartProperties
<1> HIDE DEF t
<1>4. Len(t) = Len(s) - n
  BY <1>1, <1>3
<1>5. \A i \in 1..Len(t) : t[i] = s[n + i]
  <2> TAKE i \in 1..Len(t)
  <2>1. i \in 1..(Len(s) - (n + 1) + 1) /\ (n + 1) + i - 1 = n + i
    BY <1>1, <1>4
  <2> QED
    BY <1>3, <2>1
<1> QED
  BY <1>3, <1>4, <1>5 DEF t

\* What is left of a stream is a stream.
LEMMA RestIsStream ==
    ASSUME NEW w \in Seq(Nat), NEW s \in Seq(Bytes), IsStream(w, s), NEW n \in 0..Len(s)
    PROVE  IsStream(w, SubSeq(s, n + 1, Len(s)))
<1> DEFINE t == SubSeq(s, n + 1, Len(s))
<1>1. /\ t \in Seq(Bytes) /\ Len(t) = Len(s) - n /\ Len(s) \in Nat /\ Len(w) \in Nat
      /\ \A i \in 1..Len(t) : t[i] = s[n + i]
  BY RestOfStream, LenProperties
<1>2. \A k \in 1..Len(w) : w[k] \in Nat
  BY ElementOfSeq
<1> HIDE DEF t
<1>3. ASSUME NEW i \in 1..Len(t) PROVE FollowedByFrame(w, t, i)
  <2>1. n + i \in 1..Len(s) /\ t[i] = s[n + i] /\ t[i] \in Bytes
    BY <1>1, ElementOfSeq
  <2>2. FollowedByFrame(w, s, n + i)
    BY <2>1 DEF IsStream
  <2>3. /\ t[i].msg \in 1..Len(w) /\ t[i].at \in 1..(HeaderSize + w[t[i].msg])
        /\ t[i].msg \in Nat /\ t[i].at \in Nat /\ w[t[i].msg] \in Nat
    BY <1>2, <2>1, <2>2 DEF FollowedByFrame, Bytes
  <2>4. FrameEnd(w, s, n + i) = n + FrameEnd(w, t, i) /\ FrameEnd(w, t, i) \in Nat /\ i <= FrameEnd(w, t, i)
    <3>1. n \in Nat /\ i \in Nat
      BY <1>1
    <3>2. /\ FrameEnd(w, s, n + i) = n + i + HeaderSize + w[t[i].msg] - t[i].at
          /\ FrameEnd(w, t, i) = i + HeaderSize + w[t[i].msg] - t[i].at
      BY <2>1 DEF FrameEnd
    <3>3. \A size \in Nat : \A at \in 1..(HeaderSize + size) :
             /\ n + i + HeaderSize + size - at = n + (i + HeaderSize + size - at)
             /\ i + HeaderSize + size - at \in Nat /\ i <= i + HeaderSize + size - at
      BY <3>1 DEF HeaderSize
    <3> QED
      BY <2>3, <3>2, <3>3
  <2>5. FrameEnd(w, t, i) <= Len(t)
    BY <1>1, <2>2, <2>4 DEF FollowedByFrame
  <2>6. ASSUME NEW j \in i..FrameEnd(w, t, i)
        PROVE  t[j] = Byte(t[i].msg, t[i].at + (j - i))
    <3>1. n + j \in (n + i)..FrameEnd(w, s, n + i) /\ (n + j) - (n + i) = j - i
      BY <2>4
    <3>2. t[j] = s[n + j]
      BY <1>1, <2>4, <2>5
    <3>3. s[n + j] = Byte(s[n + i].msg, s[n + i].at + ((n + j) - (n + i)))
      BY <2>2, <3>1 DEF FollowedByFrame
    <3> QED
      BY <2>1, <3>1, <3>2, <3>3
  <2>7. FrameEnd(w, t, i) = Len(t) => t[i].msg = Len(w)
    <3>1. FrameEnd(w, t, i) = Len(t) => FrameEnd(w, s, n + i) = Len(s)
      BY <1>1, <2>4
    <3> QED
      BY <2>1, <2>2, <3>1 DEF FollowedByFrame
  <2>8. FrameEnd(w, t, i) < Len(t) => t[FrameEnd(w, t, i) + 1] = Byte(t[i].msg + 1, 1)
    <3> SUFFICES ASSUME FrameEnd(w, t, i) < Len(t)
                 PROVE  t[FrameEnd(w, t, i) + 1] = Byte(t[i].msg + 1, 1)
      OBVIOUS
    <3>1. /\ FrameEnd(w, s, n + i) < Len(s)
          /\ n + (FrameEnd(w, t, i) + 1) = FrameEnd(w, s, n + i) + 1
          /\ FrameEnd(w, t, i) + 1 \in 1..Len(t)
      BY <1>1, <2>4
    <3>2. t[FrameEnd(w, t, i) + 1] = s[n + (FrameEnd(w, t, i) + 1)]
      BY <1>1, <3>1
    <3> QED
      BY <2>1, <2>2, <3>1, <3>2 DEF FollowedByFrame
  <2> QED
    BY <2>3, <2>5, <2>6, <2>7, <2>8 DEF FollowedByFrame
<1> QED
  BY <1>3 DEF IsStream, t

\* A stream with one more whole frame is a stream.
LEMMA WrittenIsStream ==
    ASSUME NEW w \in Seq(Nat), NEW s \in Seq(Bytes), IsStream(w, s), NEW n \in Nat
    PROVE  /\ IsStream(Append(w, n), s \o Frame(Len(w) + 1, n))
           /\ s \o Frame(Len(w) + 1, n) \in Seq(Bytes)
           /\ Len(s \o Frame(Len(w) + 1, n)) = Len(s) + HeaderSize + n
           /\ \A i \in 1..Len(s) : (s \o Frame(Len(w) + 1, n))[i] = s[i]
           /\ (s \o Frame(Len(w) + 1, n))[Len(s) + 1] = Byte(Len(w) + 1, 1)
<1> DEFINE f == Frame(Len(w) + 1, n)
           v == Append(w, n)
           t == s \o f
<1>1. /\ v \in Seq(Nat) /\ Len(w) \in Nat /\ Len(v) = Len(w) + 1
      /\ \A k \in 1..Len(w) : w[k] \in Nat /\ v[k] = w[k]
      /\ v[Len(w) + 1] = n
  BY PushProperties
<1>2. /\ f \in Seq(Bytes) /\ Len(f) = HeaderSize + n
      /\ \A i \in 1..(HeaderSize + n) : f[i] = Byte(Len(w) + 1, i)
  <2>1. Len(w) + 1 \in Nat
    BY <1>1
  <2> QED
    BY <2>1, FrameProperties
<1>3. /\ t \in Seq(Bytes) /\ Len(s) \in Nat /\ Len(t) = Len(s) + (HeaderSize + n)
      /\ \A i \in 1..(Len(s) + (HeaderSize + n)) :
            t[i] = IF i <= Len(s) THEN s[i] ELSE f[i - Len(s)]
  <2>1. f \in Seq(Bytes)
    BY <1>2
  <2> HIDE DEF f
  <2>2. /\ t \in Seq(Bytes) /\ Len(t) = Len(s) + Len(f)
        /\ \A i \in 1..(Len(s) + Len(f)) : t[i] = IF i <= Len(s) THEN s[i] ELSE f[i - Len(s)]
    BY <2>1, ConcatProperties
  <2> HIDE DEF t
  <2> QED
    BY <1>2, <2>2, LenProperties
<1> HIDE DEF f, v, t
<1>4. \A i \in 1..Len(s) : i \in 1..Len(t) /\ t[i] = s[i]
  BY <1>3 DEF HeaderSize
<1>5. ASSUME NEW i \in 1..(HeaderSize + n)
      PROVE  Len(s) + i \in 1..Len(t) /\ t[Len(s) + i] = Byte(Len(w) + 1, i)
  <2>1. Len(s) + i \in 1..Len(t) /\ ~(Len(s) + i <= Len(s)) /\ (Len(s) + i) - Len(s) = i
    BY <1>3 DEF HeaderSize
  <2> QED
    BY <1>2, <1>3, <2>1
<1>6. t[Len(s) + 1] = Byte(Len(w) + 1, 1)
  BY <1>5 DEF HeaderSize
<1>7. ASSUME NEW i \in 1..Len(s) PROVE FollowedByFrame(v, t, i)
  <2>1. t[i] = s[i] /\ t[i] \in Bytes /\ i \in Nat
    BY <1>4, ElementOfSeq
  <2>2. FollowedByFrame(w, s, i)
    BY DEF IsStream
  <2>3. /\ t[i].msg \in 1..Len(w) /\ t[i].msg \in 1..Len(v) /\ v[t[i].msg] = w[t[i].msg]
        /\ w[t[i].msg] \in Nat /\ t[i].at \in 1..(HeaderSize + w[t[i].msg])
    BY <1>1, <2>1, <2>2 DEF FollowedByFrame
  <2>4. FrameEnd(v, t, i) = FrameEnd(w, s, i)
    BY <2>1, <2>3 DEF FrameEnd
  <2>5. FrameEnd(v, t, i) \in Nat /\ FrameEnd(v, t, i) <= Len(s) /\ Len(s) < Len(t)
    <3>1. \A size \in Nat : \A at \in 1..(HeaderSize + size) : i + HeaderSize + size - at \in Nat
      BY <2>1 DEF HeaderSize
    <3>2. FrameEnd(v, t, i) \in Nat
      BY <2>3, <3>1 DEF FrameEnd
    <3> QED
      BY <1>3, <2>2, <2>4, <3>2 DEF FollowedByFrame, HeaderSize
  <2>6. ASSUME NEW j \in i..FrameEnd(v, t, i)
        PROVE  t[j] = Byte(t[i].msg, t[i].at + (j - i))
    <3>1. j \in 1..Len(s)
      BY <1>3, <2>5
    <3> QED
      BY <1>4, <2>1, <2>2, <2>4, <3>1 DEF FollowedByFrame
  <2>7. FrameEnd(v, t, i) # Len(t)
    BY <1>3, <2>5
  <2>8. t[FrameEnd(v, t, i) + 1] = Byte(t[i].msg + 1, 1)
    <3>1. CASE FrameEnd(v, t, i) = Len(s)
      BY <1>6, <2>1, <2>2, <2>4, <3>1 DEF FollowedByFrame
    <3>2. CASE FrameEnd(v, t, i) < Len(s)
      <4>1. FrameEnd(v, t, i) + 1 \in 1..Len(s)
        BY <1>3, <2>5, <3>2
      <4> QED
        BY <1>4, <2>1, <2>2, <2>4, <3>2, <4>1 DEF FollowedByFrame
    <3> QED
      BY <1>3, <2>5, <3>1, <3>2
  <2> QED
    BY <1>3, <2>3, <2>5, <2>6, <2>7, <2>8 DEF FollowedByFrame
<1>8. ASSUME NEW i \in 1..(HeaderSize + n) PROVE FollowedByFrame(v, t, Len(s) + i)
  <2>1. t[Len(s) + i] = Byte(Len(w) + 1, i) /\ Len(w) + 1 \in Nat /\ i \in Nat
    BY <1>1, <1>5 DEF HeaderSize
  <2>2. t[Len(s) + i].msg = Len(w) + 1 /\ t[Len(s) + i].at = i
    BY <2>1, ByteProperties
  <2>3. FrameEnd(v, t, Len(s) + i) = Len(t)
    <3>1. FrameEnd(v, t, Len(s) + i) = Len(s) + i + HeaderSize + n - i
      BY <1>1, <2>2 DEF FrameEnd
    <3> QED
      BY <1>3, <2>1, <3>1 DEF HeaderSize
  <2>4. ASSUME NEW j \in (Len(s) + i)..Len(t)
        PROVE  t[j] = Byte(Len(w) + 1, i + (j - (Len(s) + i)))
    <3>1. j - Len(s) \in 1..(HeaderSize + n) /\ Len(s) + (j - Len(s)) = j
          /\ i + (j - (Len(s) + i)) = j - Len(s)
      BY <1>3, <2>1 DEF HeaderSize
    <3> QED
      BY <1>5, <3>1
  <2> QED
    BY <1>1, <1>3, <2>2, <2>3, <2>4, SMTT(30) DEF FollowedByFrame, HeaderSize
<1>9. ASSUME NEW i \in 1..Len(t) PROVE FollowedByFrame(v, t, i)
  <2>1. CASE i <= Len(s)
    BY <1>3, <1>7, <2>1
  <2>2. CASE ~(i <= Len(s))
    <3>1. i - Len(s) \in 1..(HeaderSize + n) /\ Len(s) + (i - Len(s)) = i
      BY <1>3, <2>2 DEF HeaderSize
    <3> QED
      BY <1>8, <3>1
  <2> QED
    BY <2>1, <2>2
<1>10. IsStream(v, t) /\ Len(t) = Len(s) + HeaderSize + n
  BY <1>3, <1>9 DEF IsStream, HeaderSize
<1> QED
  BY <1>3, <1>4, <1>6, <1>10 DEF t, v, f

-----------------------------------------------------------------------------
(* What processBufferData finds in a read *)

\* The number of the message that is being read.
Present == Len(handled) + 1

\* A byte is that of the stream: it is named by the place where processing stopped, and so
\* is every byte up to the end of its message.
LEMMA ReadIsOfPresent ==
    ASSUME FramingInv, Processing, Processable
    PROVE  LET size == written[Present]
               end == HeaderLeft + Missing(size)
           IN  /\ Present \in 1..Len(written) /\ size \in Nat
               /\ Missing(size) \in 0..size /\ Len(completeMessage) \in Nat
               /\ HeaderLeft \in 0..bytesTransferred /\ HeaderLeft \in {0, HeaderSize}
               /\ end \in 1..Len(stream)
               /\ \A i \in 1..end : stream[i] = Byte(Present, HeaderSize - HeaderLeft + Len(completeMessage) + i)
               /\ end = Len(stream) => Present = Len(written)
               /\ end < Len(stream) => stream[end + 1] = Byte(Present + 1, 1)
<1> DEFINE size == written[Present]
           end == HeaderLeft + Missing(size)
           at == IF completeMessageSize = 0 THEN 1 ELSE HeaderSize + Len(completeMessage) + 1
<1>1. /\ Len(handled) \in Nat /\ Len(written) \in Nat /\ Len(stream) \in Nat
      /\ Len(completeMessage) \in Nat /\ bytesTransferred \in Nat /\ completeMessageSize \in Nat
      /\ bytesTransferred \in 1..Len(stream) /\ 1 \in 1..Len(stream) /\ Present \in Nat
  BY LenProperties DEF FramingInv, FramingTypes, Processing, Present
<1>2. stream[1] = Byte(Present, at) /\ at \in Nat
  <2>1. stream # <<>>
    BY <1>1
  <2> QED
    BY <1>1, <2>1 DEF FramingInv, FramingFaithful, Processing, NextByte, Present, HeaderSize
<1>3. stream[1].msg = Present /\ stream[1].at = at
  BY <1>1, <1>2, ByteProperties
<1>4. FollowedByFrame(written, stream, 1)
  BY <1>1 DEF FramingInv, IsStream
<1>5. Present \in 1..Len(written) /\ size \in Nat /\ at \in 1..(HeaderSize + size)
  BY <1>3, <1>4, ElementOfSeq DEF FollowedByFrame, FramingInv, FramingTypes
<1>6. /\ completeMessageSize = 0 => Len(completeMessage) = 0
      /\ completeMessageSize # 0 => Len(completeMessage) < size
  BY DEF FramingInv, ContextInv, Processing, Present
<1>7. /\ HeaderLeft \in 0..bytesTransferred /\ HeaderLeft \in {0, HeaderSize}
      /\ completeMessageSize = 0 <=> HeaderLeft = HeaderSize
  BY <1>1 DEF HeaderLeft, HeaderSize, Processable, IncompleteHeader
<1>8. Missing(size) = size - Len(completeMessage) /\ Missing(size) \in 0..size
  BY <1>1, <1>5, <1>6 DEF Missing
<1>9. at = HeaderSize - HeaderLeft + Len(completeMessage) + 1
  BY <1>1, <1>6, <1>7 DEF HeaderSize
<1>10. FrameEnd(written, stream, 1) = end
  <2>1. FrameEnd(written, stream, 1) = 1 + HeaderSize + size - at
    BY <1>3 DEF FrameEnd
  <2> QED
    BY <1>1, <1>5, <1>7, <1>8, <1>9, <2>1, SMTT(30) DEF HeaderSize
<1>11. end \in 1..Len(stream)
  <2>1. end \in Nat /\ end # 0
    BY <1>1, <1>5, <1>6, <1>7, <1>8 DEF HeaderSize
  <2> QED
    BY <1>1, <1>4, <1>10, <2>1 DEF FollowedByFrame
<1>12. ASSUME NEW i \in 1..end
       PROVE  stream[i] = Byte(Present, HeaderSize - HeaderLeft + Len(completeMessage) + i)
  <2>1. at + (i - 1) = HeaderSize - HeaderLeft + Len(completeMessage) + i
    BY <1>1, <1>7, <1>9, <1>11 DEF HeaderSize
  <2> QED
    BY <1>3, <1>4, <1>10, <2>1 DEF FollowedByFrame
<1> QED
  BY <1>1, <1>3, <1>4, <1>5, <1>7, <1>8, <1>10, <1>11, <1>12 DEF FollowedByFrame

\* The size read from a header is the one the peer wrote.
LEMMA SizeReadIsWritten ==
    ASSUME FramingInv, Processing, Processable
    PROVE  SizesRead = {written[Present]}
<1>1. CASE completeMessageSize # 0
  BY <1>1 DEF FramingInv, ContextInv, Processing, Present, SizesRead
<1>2. CASE completeMessageSize = 0
  <2>1. HeaderLeft = HeaderSize /\ Len(completeMessage) = 0
    BY <1>2 DEF HeaderLeft, FramingInv, ContextInv, Processing
  <2>2. \A i \in 1..HeaderSize : stream[i] = Byte(Present, i)
    <3> TAKE i \in 1..HeaderSize
    <3>1. /\ i \in 1..(HeaderLeft + Missing(written[Present]))
          /\ HeaderSize - HeaderLeft + Len(completeMessage) + i = i
      BY <2>1, ReadIsOfPresent DEF HeaderSize
    <3> QED
      BY <3>1, ReadIsOfPresent
  <2>3. stream[1].msg = Present
    <3>1. Present \in Nat
      BY ReadIsOfPresent
    <3> QED
      BY <2>2, <3>1, ByteProperties DEF HeaderSize
  <2> QED
    BY <1>2, <2>2, <2>3 DEF SizesRead
<1> QED
  BY <1>1, <1>2

\* What is appended to completeMessage goes on with the payload the peer wrote.
LEMMA ExtendedIsPayload ==
    ASSUME FramingInv, Processing, Processable, NEW n \in 0..Missing(written[Present])
    PROVE  /\ Extended(n) \in Seq(Bytes)
           /\ Len(Extended(n)) = Len(completeMessage) + n
           /\ \A j \in 1..Len(Extended(n)) : Extended(n)[j] = Byte(Present, HeaderSize + j)
<1> DEFINE part == SubSeq(stream, HeaderLeft + 1, HeaderLeft + n)
           end == HeaderLeft + Missing(written[Present])
<1>1. /\ Len(completeMessage) \in Nat /\ Len(stream) \in Nat /\ n \in Nat /\ HeaderLeft \in Nat
      /\ HeaderLeft + n <= end /\ end \in 1..Len(stream)
  <2>1. Missing(written[Present]) \in Nat /\ bytesTransferred \in Nat
    BY ReadIsOfPresent, LenProperties DEF FramingInv, FramingTypes
  <2> QED
    BY <2>1, ReadIsOfPresent, LenProperties DEF FramingInv, FramingTypes
<1>2. /\ stream \in Seq(Bytes) /\ HeaderLeft + 1 \in 1..(Len(stream) + 1)
      /\ HeaderLeft + n \in 0..Len(stream) /\ HeaderLeft + 1 <= HeaderLeft + n + 1
      /\ HeaderLeft + n - (HeaderLeft + 1) + 1 = n
  BY <1>1 DEF FramingInv, FramingTypes
<1>3. /\ part \in Seq(Bytes) /\ Len(part) = n
      /\ \A k \in 1..n : part[k] = stream[HeaderLeft + 1 + k - 1]
  <2> DEFINE first == HeaderLeft + 1
             last == HeaderLeft + n
  <2>1. /\ first \in 1..(Len(stream) + 1) /\ last \in 0..Len(stream) /\ first <= last + 1
        /\ last - first + 1 = n
    <3>1. first \in 1..(Len(stream) + 1)
      BY <1>2
    <3>2. last \in 0..Len(stream)
      BY <1>2
    <3>3. first <= last + 1
      BY <1>1
    <3>4. last - first + 1 = n
      BY <1>1
    <3> QED
      BY <3>1, <3>2, <3>3, <3>4
  <2>2. part = SubSeq(stream, first, last)
    OBVIOUS
  <2> SUFFICES /\ part \in Seq(Bytes) /\ Len(part) = n
                 /\ \A k \in 1..n : part[k] = stream[first + k - 1]
    OBVIOUS
  <2> HIDE DEF first, last, part
  <2>3. /\ part \in Seq(Bytes) /\ Len(part) = last - first + 1
        /\ \A k \in 1..(last - first + 1) : part[k] = stream[first + k - 1]
    BY <1>2, <2>1, <2>2, PartProperties
  <2> QED
    BY <2>1, <2>3
<1> HIDE DEF part
<1>4. ASSUME NEW k \in 1..n
      PROVE  part[k] = Byte(Present, HeaderSize + Len(completeMessage) + k)
  <2>1. /\ HeaderLeft + 1 + k - 1 \in 1..end /\ HeaderLeft + 1 + k - 1 = HeaderLeft + k
        /\ HeaderSize - HeaderLeft + Len(completeMessage) + (HeaderLeft + k)
              = HeaderSize + Len(completeMessage) + k
    BY <1>1 DEF HeaderSize
  <2>2. stream[HeaderLeft + k] = Byte(Present, HeaderSize - HeaderLeft + Len(completeMessage) + (HeaderLeft + k))
    BY <2>1, ReadIsOfPresent
  <2> QED
    BY <1>3, <2>1, <2>2
<1>5. /\ completeMessage \o part \in Seq(Bytes)
      /\ Len(completeMessage \o part) = Len(completeMessage) + n
      /\ \A i \in 1..(Len(completeMessage) + n) :
            (completeMessage \o part)[i] =
                IF i <= Len(completeMessage) THEN completeMessage[i] ELSE part[i - Len(completeMessage)]
  BY <1>3, ConcatProperties DEF FramingInv, FramingTypes
<1>6. \A j \in 1..Len(completeMessage) : completeMessage[j] = Byte(Present, HeaderSize + j)
  BY DEF FramingInv, ContextInv, Processing, Present
<1>7. ASSUME NEW j \in 1..(Len(completeMessage) + n)
      PROVE  (completeMessage \o part)[j] = Byte(Present, HeaderSize + j)
  <2>1. CASE j <= Len(completeMessage)
    BY <1>1, <1>5, <1>6, <2>1
  <2>2. CASE ~(j <= Len(completeMessage))
    <3>1. j - Len(completeMessage) \in 1..n
          /\ HeaderSize + Len(completeMessage) + (j - Len(completeMessage)) = HeaderSize + j
      BY <1>1, <2>2 DEF HeaderSize
    <3> QED
      BY <1>4, <1>5, <2>2, <3>1
  <2> QED
    BY <2>1, <2>2
<1> QED
  BY <1>5, <1>7 DEF Extended, part

\* A complete message is the payload the peer wrote.
LEMMA CompletedIsPayload ==
    ASSUME FramingInv, Processing, Processable
    PROVE  Extended(Missing(written[Present])) = Payload(Present)
<1> DEFINE m == Extended(Missing(written[Present]))
<1>1. /\ written[Present] \in Nat /\ Present \in Nat /\ Len(completeMessage) \in Nat
      /\ Missing(written[Present]) \in 0..written[Present]
      /\ Missing(written[Present]) = written[Present] - Len(completeMessage)
  BY ReadIsOfPresent DEF Missing
<1>2. Missing(written[Present]) \in 0..Missing(written[Present])
  BY <1>1
<1>3. /\ m \in Seq(Bytes) /\ Len(m) = written[Present]
      /\ \A j \in 1..Len(m) : m[j] = Byte(Present, HeaderSize + j)
  BY <1>1, <1>2, ExtendedIsPayload
<1> HIDE DEF m
<1>4. /\ Payload(Present) \in Seq(Bytes) /\ Len(Payload(Present)) = written[Present]
      /\ \A j \in 1..written[Present] : Payload(Present)[j] = Byte(Present, HeaderSize + j)
  <2>1. \A j \in 1..written[Present] : Byte(Present, HeaderSize + j) \in Bytes
    BY <1>1, ByteProperties DEF HeaderSize
  <2>2. Payload(Present) \in [1..written[Present] -> Bytes]
    BY <2>1 DEF Payload
  <2> QED
    BY <1>1, <2>2 DEF Payload
<1>5. m = Payload(Present)
  BY <1>3, <1>4, SeqEqual
<1> QED
  BY <1>5 DEF m

-----------------------------------------------------------------------------
(* The invariant is inductive *)

LEMMA FramingInvInit == FramingInit => FramingInv
<1> SUFFICES ASSUME FramingInit PROVE FramingInv
  OBVIOUS
<1> USE DEF FramingInit
<1>1. FramingTypes
  BY DEF FramingTypes
<1>2. IsStream(written, stream)
  BY DEF IsStream
<1>3. InBuffer
  BY FramingBounds DEF InBuffer
<1>4. ContextInv
  BY DEF ContextInv
<1>5. FramingFaithful /\ GivenUpForCause
  BY DEF FramingFaithful, GivenUpForCause
<1> QED
  BY <1>1, <1>2, <1>3, <1>4, <1>5 DEF FramingInv

LEMMA WriteStep ==
    ASSUME FramingInv, NEW n \in Nat, Write(n)
    PROVE  FramingInv'
<1> USE DEF Write
<1>1. /\ written' = Append(written, n) /\ written \in Seq(Nat) /\ written' \in Seq(Nat)
      /\ Len(written) \in Nat /\ Len(written') = Len(written) + 1
      /\ \A k \in 1..Len(written) : written'[k] = written[k]
  BY PushProperties DEF FramingInv, FramingTypes
<1>2. /\ stream \in Seq(Bytes) /\ stream' \in Seq(Bytes) /\ Len(stream) \in Nat
      /\ Len(stream') = Len(stream) + HeaderSize + n
      /\ \A i \in 1..Len(stream) : stream'[i] = stream[i]
      /\ stream'[Len(stream) + 1] = Byte(Len(written) + 1, 1)
      /\ IsStream(written', stream')
  BY WrittenIsStream, LenProperties DEF FramingInv, FramingTypes
<1>3. /\ UNCHANGED <<bytesTransferred, bufferOffset, completeMessageSize, completeMessage, handled, served>>
      /\ Len(handled) \in Nat
  BY LenProperties DEF FramingInv, FramingTypes
<1>4. FramingTypes'
  BY <1>1, <1>2, <1>3 DEF FramingInv, FramingTypes, HeaderSize
<1>5. InBuffer'
  BY <1>3 DEF FramingInv, InBuffer
<1>6. served' => ContextInv'
  <2> SUFFICES ASSUME served PROVE ContextInv'
    BY <1>3
  <2>1. completeMessageSize # 0 => Len(handled) + 1 \in 1..Len(written)
    BY <1>1, <1>3 DEF FramingInv, ContextInv
  <2>2. completeMessageSize' # 0 =>
            /\ Len(handled') < Len(written')
            /\ completeMessageSize' = written'[Len(handled') + 1]
            /\ Len(completeMessage') < completeMessageSize'
    BY <1>1, <1>3, <2>1 DEF FramingInv, ContextInv
  <2> QED
    BY <1>3, <2>2 DEF FramingInv, ContextInv
<1>7. FramingFaithful'
  <2>1. Len(handled') <= Len(written')
    BY <1>1, <1>3 DEF FramingInv, FramingFaithful
  <2>2. ASSUME NEW k \in 1..Len(handled) PROVE handled'[k] = Payload(k)'
    <3>1. k \in 1..Len(written) /\ handled[k] = Payload(k)
      BY <1>1, <1>3 DEF FramingInv, FramingFaithful
    <3> QED
      BY <1>1, <1>3, <3>1 DEF Payload
  <2>3. stream' # <<>>
    BY <1>2, EmptySeq DEF HeaderSize
  <2>4. served => stream'[1] = NextByte'
    <3> SUFFICES ASSUME served PROVE stream'[1] = NextByte'
      OBVIOUS
    <3>1. NextByte' = NextByte
      BY <1>3 DEF NextByte
    <3>2. CASE stream = <<>>
      <4>1. Len(stream) = 0 /\ Len(handled) = Len(written) /\ completeMessageSize = 0
        BY <3>2, EmptySeq DEF FramingInv, FramingFaithful
      <4>2. Len(stream) + 1 = 1
        BY <4>1
      <4> QED
        BY <1>2, <3>1, <4>1, <4>2 DEF NextByte
    <3>3. CASE stream # <<>>
      <4>1. 1 \in 1..Len(stream)
        BY <1>2, <3>3, EmptySeq
      <4> QED
        BY <1>2, <3>1, <3>3, <4>1 DEF FramingInv, FramingFaithful
    <3> QED
      BY <3>2, <3>3
  <2> QED
    BY <1>3, <2>1, <2>2, <2>3, <2>4 DEF FramingFaithful
<1>8. GivenUpForCause'
  <2> SUFFICES ASSUME ~served PROVE GivenUpForCause'
    BY <1>3 DEF GivenUpForCause
  <2> DEFINE next == Len(handled) + 1
  <2>1. next \in 1..Len(written) /\ stream # <<>>
    BY <1>1, <1>3 DEF FramingInv, GivenUpForCause
  <2>2. 1 \in 1..Len(stream) /\ stream'[1] = stream[1] /\ stream' # <<>>
    BY <1>2, <2>1, EmptySeq DEF HeaderSize
  <2>3. written'[next] = written[next] /\ Payload(next)' = Payload(next) /\ next <= Len(written')
    BY <1>1, <1>3, <2>1 DEF Payload
  <2> QED
    BY <1>3, <2>2, <2>3 DEF FramingInv, GivenUpForCause
<1> QED
  BY <1>2, <1>4, <1>5, <1>6, <1>7, <1>8 DEF FramingInv

LEMMA ReceiveStep ==
    ASSUME FramingInv, NEW n \in 1..Len(stream), Receive(n)
    PROVE  FramingInv'
<1> USE DEF Receive
<1>1. /\ UNCHANGED <<written, stream, completeMessageSize, completeMessage, handled, served>>
      /\ bytesTransferred' = n /\ bufferOffset' = 0 /\ n <= BufferLength /\ n \in 0..Len(stream) /\ served
  BY LenProperties DEF FramingInv, FramingTypes
<1>2. FramingTypes'
  BY <1>1 DEF FramingInv, FramingTypes
<1>3. InBuffer'
  BY <1>1 DEF InBuffer
<1>4. IsStream(written, stream)' /\ ContextInv'
  BY <1>1 DEF FramingInv, IsStream, FollowedByFrame, FrameEnd, ContextInv
<1>5. FramingFaithful'
  BY <1>1 DEF FramingInv, FramingFaithful, NextByte, Payload
<1> QED
  BY <1>1, <1>2, <1>3, <1>4, <1>5 DEF FramingInv, GivenUpForCause

LEMMA RejectReadStep ==
    ASSUME FramingInv, RejectRead
    PROVE  FramingInv'
<1>1. /\ UNCHANGED <<written, stream, bytesTransferred, bufferOffset, completeMessageSize, completeMessage, handled>>
      /\ served' = FALSE
  BY DEF RejectRead
<1>2. FramingTypes' /\ IsStream(written, stream)' /\ InBuffer'
  BY <1>1 DEF FramingInv, FramingTypes, IsStream, FollowedByFrame, FrameEnd, InBuffer
<1>3. FramingFaithful'
  BY <1>1 DEF FramingInv, FramingFaithful, Payload
<1>4. IncompleteHeader /\ bytesTransferred > 0 /\ served
  BY DEF RejectRead, Processing, Processable, FramingInv, InBuffer
<1>5. stream # <<>> /\ 1 \in 1..Len(stream) /\ Len(handled) + 1 \in Nat
  BY <1>4, LenProperties, EmptySeq DEF FramingInv, FramingTypes
<1>6. stream[1] = Byte(Len(handled) + 1, 1)
  BY <1>4, <1>5 DEF FramingInv, FramingFaithful, NextByte, IncompleteHeader
<1>7. Len(handled) + 1 <= Len(written)
  <2>1. stream[1].msg = Len(handled) + 1
    BY <1>5, <1>6, ByteProperties
  <2>2. stream[1].msg \in 1..Len(written)
    BY <1>5 DEF FramingInv, IsStream, FollowedByFrame
  <2> QED
    BY <2>1, <2>2
<1>8. GivenUpForCause'
  BY <1>1, <1>4, <1>5, <1>6, <1>7 DEF GivenUpForCause, IncompleteHeader
<1> QED
  BY <1>1, <1>2, <1>3, <1>8 DEF FramingInv

\* n bytes of a read are done with.
LEMMA ConsumeStep ==
    ASSUME FramingInv, NEW n \in 0..bytesTransferred, Consume(n), UNCHANGED written
    PROVE  /\ stream' \in Seq(Bytes) /\ Len(stream') = Len(stream) - n
           /\ \A i \in 1..Len(stream') : stream'[i] = stream[n + i]
           /\ bytesTransferred' \in 0..Len(stream') /\ bufferOffset' \in Nat
           /\ InBuffer' /\ IsStream(written, stream)'
<1>1. /\ Len(stream) \in Nat /\ bytesTransferred \in 0..Len(stream) /\ bufferOffset \in Nat
      /\ n \in 0..Len(stream) /\ n \in Nat
      /\ written \in Seq(Nat) /\ stream \in Seq(Bytes)
  BY LenProperties DEF FramingInv, FramingTypes
<1>2. /\ stream' = SubSeq(stream, n + 1, Len(stream))
      /\ bytesTransferred' = bytesTransferred - n /\ bufferOffset' = bufferOffset + n
  BY DEF Consume
<1>3. /\ stream' \in Seq(Bytes) /\ Len(stream') = Len(stream) - n
      /\ \A i \in 1..Len(stream') : stream'[i] = stream[n + i]
  BY <1>1, <1>2, RestOfStream
<1>4. IsStream(written, stream')
  BY <1>1, <1>2, RestIsStream DEF FramingInv
<1>5. bytesTransferred' \in 0..Len(stream') /\ bufferOffset' \in Nat /\ InBuffer'
  BY <1>1, <1>2, <1>3, FramingBounds DEF FramingInv, InBuffer
<1> QED
  BY <1>3, <1>4, <1>5

LEMMA FillMessageStep ==
    ASSUME FramingInv, FillMessage
    PROVE  FramingInv'
<1> DEFINE size == written[Present]
<1>1. Processing /\ Processable /\ served /\ UNCHANGED <<written, handled, served>>
  BY DEF FillMessage, Processing
<1>2. /\ BytesLeft < Missing(size) /\ completeMessageSize' = size
      /\ completeMessage' = Extended(BytesLeft) /\ Consume(bytesTransferred)
  BY <1>1, SizeReadIsWritten DEF FillMessage
<1>3. /\ Present \in 1..Len(written) /\ size \in Nat /\ Missing(size) \in 0..size
      /\ Missing(size) = size - Len(completeMessage)
      /\ Len(completeMessage) \in Nat /\ HeaderLeft \in 0..bytesTransferred /\ HeaderLeft \in {0, HeaderSize}
      /\ bytesTransferred \in Nat /\ Len(stream) \in Nat /\ Len(handled) \in Nat /\ Len(written) \in Nat
      /\ bytesTransferred \in 0..bytesTransferred
      /\ HeaderLeft + Missing(size) \in 1..Len(stream)
  BY <1>1, ReadIsOfPresent, LenProperties DEF FramingInv, FramingTypes, Missing
<1>4. /\ BytesLeft \in 0..Missing(size) /\ bytesTransferred = HeaderLeft + BytesLeft
      /\ bytesTransferred + 1 \in 1..(HeaderLeft + Missing(size))
      /\ size # 0 /\ bytesTransferred < Len(stream)
  BY <1>2, <1>3, SMTT(30) DEF BytesLeft
<1>5. /\ completeMessage' \in Seq(Bytes) /\ Len(completeMessage') = Len(completeMessage) + BytesLeft
      /\ \A j \in 1..Len(completeMessage') : completeMessage'[j] = Byte(Present, HeaderSize + j)
  BY <1>1, <1>2, <1>4, ExtendedIsPayload
<1>6. /\ stream' \in Seq(Bytes) /\ Len(stream') = Len(stream) - bytesTransferred
      /\ \A i \in 1..Len(stream') : stream'[i] = stream[bytesTransferred + i]
      /\ bytesTransferred' \in 0..Len(stream') /\ bufferOffset' \in Nat
      /\ InBuffer' /\ IsStream(written, stream)'
  BY <1>1, <1>2, <1>3, ConsumeStep
<1>7. FramingTypes'
  BY <1>1, <1>2, <1>3, <1>5, <1>6 DEF FramingInv, FramingTypes
<1>8. ContextInv'
  <2>1. Len(handled') < Len(written') /\ completeMessageSize' = written'[Len(handled') + 1]
    BY <1>1, <1>2, <1>3 DEF Present
  <2>2. Len(completeMessage') < completeMessageSize' /\ completeMessageSize' # 0
    BY <1>2, <1>3, <1>4, <1>5, SMTT(30)
  <2> QED
    BY <1>1, <1>5, <2>1, <2>2 DEF ContextInv, Present
<1>9. FramingFaithful'
  <2>1. Len(handled') <= Len(written') /\ \A k \in 1..Len(handled') : handled'[k] = Payload(k)'
    BY <1>1 DEF FramingInv, FramingFaithful, Payload
  <2>2. stream' # <<>> /\ 1 \in 1..Len(stream')
    BY <1>3, <1>4, <1>6, EmptySeq
  <2>3. stream'[1] = NextByte'
    <3>1. stream'[1] = stream[bytesTransferred + 1]
      BY <1>6, <2>2
    <3>2. stream[bytesTransferred + 1]
            = Byte(Present, HeaderSize - HeaderLeft + Len(completeMessage) + (bytesTransferred + 1))
      BY <1>1, <1>4, ReadIsOfPresent
    <3>3. HeaderSize - HeaderLeft + Len(completeMessage) + (bytesTransferred + 1)
            = HeaderSize + Len(completeMessage') + 1
      BY <1>3, <1>4, <1>5 DEF HeaderSize
    <3>4. NextByte' = Byte(Present, HeaderSize + Len(completeMessage') + 1)
      BY <1>1, <1>2, <1>4 DEF NextByte, Present
    <3> QED
      BY <3>1, <3>2, <3>3, <3>4
  <2> QED
    BY <1>1, <2>1, <2>2, <2>3 DEF FramingFaithful
<1> QED
  BY <1>1, <1>6, <1>7, <1>8, <1>9 DEF FramingInv, GivenUpForCause

LEMMA CompleteMessageStep ==
    ASSUME FramingInv, CompleteMessage
    PROVE  FramingInv'
<1> DEFINE size == written[Present]
           end == HeaderLeft + Missing(size)
<1>1. Processing /\ Processable /\ served /\ UNCHANGED <<written, served>>
  BY DEF CompleteMessage, Processing
<1>2. /\ Missing(size) <= BytesLeft /\ handled' = Append(handled, Extended(Missing(size)))
      /\ Consume(end) /\ completeMessageSize' = 0 /\ completeMessage' = <<>>
  BY <1>1, SizeReadIsWritten DEF CompleteMessage
<1>3. /\ Present \in 1..Len(written) /\ size \in Nat /\ Missing(size) \in 0..size
      /\ HeaderLeft \in 0..bytesTransferred /\ HeaderLeft \in Nat
      /\ bytesTransferred \in Nat /\ Len(stream) \in Nat /\ Len(handled) \in Nat /\ Len(written) \in Nat
      /\ handled \in Seq(Seq(Bytes))
  BY <1>1, ReadIsOfPresent, LenProperties DEF FramingInv, FramingTypes
<1>4. end \in 0..bytesTransferred /\ end \in 1..Len(stream)
  <2>1. end \in 0..bytesTransferred
    BY <1>2, <1>3 DEF BytesLeft
  <2> QED
    BY <1>1, <2>1, ReadIsOfPresent
<1>5. Extended(Missing(size)) = Payload(Present) /\ Payload(Present) \in Seq(Bytes)
  <2>1. Missing(size) \in 0..Missing(size)
    BY <1>3
  <2> QED
    BY <1>1, <2>1, CompletedIsPayload, ExtendedIsPayload
<1>6. /\ handled' \in Seq(Seq(Bytes)) /\ Len(handled') = Present
      /\ \A k \in 1..Len(handled) : handled'[k] = handled[k]
      /\ handled'[Present] = Payload(Present)
  BY <1>2, <1>3, <1>5, PushProperties DEF Present
<1>7. /\ stream' \in Seq(Bytes) /\ Len(stream') = Len(stream) - end
      /\ \A i \in 1..Len(stream') : stream'[i] = stream[end + i]
      /\ bytesTransferred' \in 0..Len(stream') /\ bufferOffset' \in Nat
      /\ InBuffer' /\ IsStream(written, stream)'
  BY <1>1, <1>2, <1>4, ConsumeStep
<1>8. FramingTypes' /\ ContextInv'
  BY <1>1, <1>2, <1>6, <1>7, EmptySeq DEF FramingInv, FramingTypes, ContextInv
<1>9. FramingFaithful'
  <2>1. Len(handled') <= Len(written')
    BY <1>1, <1>3, <1>6
  <2>2. ASSUME NEW k \in 1..Len(handled') PROVE handled'[k] = Payload(k)'
    <3>1. Payload(k)' = Payload(k)
      BY <1>1 DEF Payload
    <3>2. k \in 1..Len(handled) \/ k = Present
      BY <1>3, <1>6 DEF Present
    <3> QED
      BY <1>6, <3>1, <3>2 DEF FramingInv, FramingFaithful
  <2>3. stream' = <<>> => Len(handled') = Len(written') /\ completeMessageSize' = 0
    <3>1. stream' = <<>> => end = Len(stream)
      BY <1>3, <1>4, <1>7, EmptySeq
    <3> QED
      BY <1>1, <1>2, <1>6, <3>1, ReadIsOfPresent
  <2>4. stream' # <<>> => stream'[1] = NextByte'
    <3> SUFFICES ASSUME stream' # <<>> PROVE stream'[1] = NextByte'
      OBVIOUS
    <3>1. 1 \in 1..Len(stream') /\ end < Len(stream)
      BY <1>3, <1>4, <1>7, EmptySeq, SMTT(30)
    <3>2. stream[end + 1] = Byte(Present + 1, 1)
      BY <1>1, <3>1, ReadIsOfPresent
    <3>3. NextByte' = Byte(Present + 1, 1)
      BY <1>2, <1>6 DEF NextByte
    <3> QED
      BY <1>7, <3>1, <3>2, <3>3
  <2> QED
    BY <2>1, <2>2, <2>3, <2>4 DEF FramingFaithful
<1> QED
  BY <1>1, <1>7, <1>8, <1>9 DEF FramingInv, GivenUpForCause

LEMMA RefuseMessageStep ==
    ASSUME FramingInv, RefuseMessage
    PROVE  FramingInv'
<1> DEFINE size == written[Present]
<1>1. /\ Processing /\ Processable /\ served' = FALSE
      /\ UNCHANGED <<written, stream, bytesTransferred, bufferOffset, handled>>
  BY DEF RefuseMessage
<1>2. completeMessageSize' = size /\ completeMessage' = Extended(Missing(size))
  BY <1>1, SizeReadIsWritten DEF RefuseMessage
<1>3. /\ Present \in 1..Len(written) /\ size \in Nat
      /\ Missing(size) \in 0..Missing(size) /\ Len(stream) \in Nat /\ bytesTransferred \in 1..Len(stream)
  BY <1>1, ReadIsOfPresent, LenProperties DEF FramingInv, FramingTypes, Processing
<1>4. completeMessage' = Payload(Present) /\ completeMessage' \in Seq(Bytes)
  BY <1>1, <1>2, <1>3, CompletedIsPayload, ExtendedIsPayload
<1>5. FramingTypes' /\ IsStream(written, stream)' /\ InBuffer'
  BY <1>1, <1>2, <1>3, <1>4
  DEF FramingInv, FramingTypes, IsStream, FollowedByFrame, FrameEnd, InBuffer
<1>6. FramingFaithful'
  BY <1>1 DEF FramingInv, FramingFaithful, Payload
<1>7. stream # <<>>
  BY <1>3, EmptySeq
<1>8. GivenUpForCause'
  <2>1. Payload(Present)' = Payload(Present)
    BY <1>1 DEF Payload, Present
  <2> QED
    BY <1>1, <1>2, <1>3, <1>4, <1>7, <2>1 DEF GivenUpForCause, Present
<1> QED
  BY <1>1, <1>5, <1>6, <1>8 DEF FramingInv

LEMMA FramingInvNext == FramingInv /\ [FramingNext]_framingVars => FramingInv'
<1> SUFFICES ASSUME FramingInv, [FramingNext]_framingVars PROVE FramingInv'
  OBVIOUS
<1>1. ASSUME NEW n \in 0..MaxPayload, Write(n) PROVE FramingInv'
  <2>1. n \in Nat
    BY FramingBounds
  <2> QED
    BY <1>1, <2>1, WriteStep
<1>2. ASSUME NEW n \in 1..Len(stream), Receive(n) PROVE FramingInv'
  BY <1>2, ReceiveStep
<1>3. CASE RejectRead
  BY <1>3, RejectReadStep
<1>4. CASE FillMessage
  BY <1>4, FillMessageStep
<1>5. CASE CompleteMessage
  BY <1>5, CompleteMessageStep
<1>6. CASE RefuseMessage
  BY <1>6, RefuseMessageStep
<1>7. CASE UNCHANGED framingVars
  BY <1>7
  DEF framingVars, FramingInv, FramingTypes, IsStream, FollowedByFrame, FrameEnd, InBuffer,
      ContextInv, FramingFaithful, NextByte, Payload, GivenUpForCause
<1> QED
  BY <1>1, <1>2, <1>3, <1>4, <1>5, <1>6, <1>7 DEF FramingNext

LEMMA FramingInvariance == FramingSpec => []FramingInv
<1>1. FramingInit => FramingInv
  BY FramingInvInit
<1>2. FramingInv /\ [FramingNext]_framingVars => FramingInv'
  BY FramingInvNext
<1> QED
  BY <1>1, <1>2, PTL DEF FramingSpec

\* However TCP divides a stream of any length into reads, and wherever a read ends, what
\* processBufferData hands over are the messages the peer wrote, whole and in order, and it
\* goes on exactly where it stopped (connContext).
THEOREM MessagesAreFaithful == FramingSpec => []FramingFaithful
<1>1. FramingInv => FramingFaithful
  BY DEF FramingInv
<1> QED
  BY <1>1, FramingInvariance, PTL

\* processBufferData gives a connection up only where a read ends inside a header or at a
\* message handleMessage refuses: no size is ever read from bytes that are not a header,
\* and the offset never leaves the buffer.
THEOREM GivenUpOnlyForCause == FramingSpec => []GivenUpForCause
<1>1. FramingInv => GivenUpForCause
  BY DEF FramingInv
<1> QED
  BY <1>1, FramingInvariance, PTL
=============================================================================
