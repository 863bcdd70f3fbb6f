-------------------------- MODULE FrameReaderProofs --------------------------
(***************************************************************************)
(* Proofs about FrameReader, for every width of a byte, every set of       *)
(* streams and every chunk size; and about FramedLine, for every line of   *)
(* frames and noise.                                                       *)
(***************************************************************************)
EXTENDS FramedLine, SequenceTheorems, WellFoundedInduction, TLAPS

\* What extraction leaves behind: nothing, or the beginning of one frame.
Waiting == buffer = <<>> \/ (buffer[1] = START /\ ~Complete(buffer))

\* The buffer is exactly the part of the stream read and not yet erased.
Window == buffer = SubSeq(stream, consumed + 1, taken)

IInv ==
    /\ TypeOK
    /\ Window
    /\ phase = "reading" => Waiting
    /\ BufferBounded

-----------------------------------------------------------------------------
LEMMA WindowLength ==
    ASSUME TypeOK, Window
    PROVE  /\ Len(buffer) = taken - consumed
           /\ \A i \in 1 .. Len(buffer) : buffer[i] = stream[consumed + i]
<1>1. \A i \in consumed + 1 .. taken : stream[i] \in Byte
  BY ElementOfSeq DEF TypeOK
<1>. QED
  BY <1>1, SubSeqProperties DEF TypeOK, Window

\* Erasing n bytes from the front moves the window n bytes along the stream.
LEMMA EraseWindow ==
    ASSUME TypeOK, Window, NEW n \in Nat, n <= Len(buffer), Erase(n), UNCHANGED <<stream, taken>>
    PROVE  /\ Window'
           /\ buffer' \in Seq(Byte)
           /\ consumed' = consumed + n
           /\ consumed' \in 0 .. taken
           /\ Len(buffer') = Len(buffer) - n
<1>1. \A i \in 1 .. Len(buffer) : buffer[i] \in Byte /\ buffer[i] = stream[consumed + i]
  BY WindowLength, ElementOfSeq DEF TypeOK
<1>2. \A i \in 1 .. Len(stream) : stream[i] \in Byte
  BY ElementOfSeq DEF TypeOK
<1>3. Len(buffer) \in Nat /\ Len(stream) \in Nat /\ Len(buffer) = taken - consumed
  BY WindowLength, LenProperties DEF TypeOK
<1> DEFINE s == SubSeq(buffer, n + 1, Len(buffer))
           t == SubSeq(stream, consumed + n + 1, taken)
<1>4. s \in Seq(Byte) /\ Len(s) = Len(buffer) - n
      /\ \A i \in 1 .. Len(s) : s[i] = buffer[n + i]
  BY <1>1, <1>3, SubSeqProperties
<1>5. t \in Seq(Byte) /\ Len(t) = taken - consumed - n
      /\ \A i \in 1 .. Len(t) : t[i] = stream[consumed + n + i]
  BY <1>2, <1>3, SubSeqProperties DEF TypeOK
<1>6. s = t
  <2>1. \A i \in 1 .. Len(s) : s[i] = t[i]
    BY <1>1, <1>3, <1>4, <1>5 DEF TypeOK
  <2>. QED
    BY <2>1, <1>3, <1>4, <1>5, SeqEqual
<1>. QED
  BY <1>3, <1>4, <1>6 DEF Erase, Window, TypeOK

\* When the buffer begins with START, the bytes a complete frame takes up.
LEMMA HeaderFacts ==
    ASSUME TypeOK, AtHeader, Complete(buffer)
    PROVE  /\ TotalLength(buffer) \in HeaderAndChecksum .. Len(buffer)
           /\ TotalLength(buffer) = buffer[3] + HeaderAndChecksum
           /\ Raw \in Seq(Byte)
           /\ Len(Raw) = TotalLength(buffer)
           /\ \A i \in 1 .. Len(Raw) : Raw[i] = buffer[i]
<1>1. Len(buffer) \in Nat /\ \A i \in 1 .. Len(buffer) : buffer[i] \in Byte
  BY ElementOfSeq, LenProperties DEF TypeOK
<1>2. Len(buffer) >= 4 /\ buffer[3] \in Byte
  BY <1>1 DEF Complete, HeaderAndChecksum
<1>3. TotalLength(buffer) \in HeaderAndChecksum .. Len(buffer)
  BY <1>1, <1>2, CodecAssumption DEF Complete, TotalLength, HeaderAndChecksum, Byte
<1>4. \A i \in 1 .. TotalLength(buffer) : buffer[i] \in Byte
  BY <1>1, <1>3 DEF HeaderAndChecksum
<1>. QED
  BY <1>1, <1>3, <1>4, SubSeqProperties DEF Raw, TotalLength, HeaderAndChecksum

LEMMA FrameTyped ==
    ASSUME NEW raw \in Seq(Byte), Len(raw) >= HeaderAndChecksum
    PROVE  /\ FrameOf(raw) \in [command : Byte, payload : Seq(Byte)]
           /\ Len(FrameOf(raw).payload) = Len(raw) - HeaderAndChecksum
<1>1. Len(raw) \in Nat /\ \A i \in 1 .. Len(raw) : raw[i] \in Byte
  BY ElementOfSeq, LenProperties
<1>2. raw[2] \in Byte
  BY <1>1 DEF HeaderAndChecksum
<1> DEFINE m == 4  n == Len(raw) - 1  sub == SubSeq(raw, m, n)
<1>3. m \in Int /\ n \in Int /\ \A i \in m .. n : raw[i] \in Byte
  BY <1>1
<1>4. sub \in Seq(Byte) /\ Len(sub) = IF m <= n THEN n - m + 1 ELSE 0
  BY <1>3, SubSeqProperties
<1>5. n >= 3 /\ n + 1 = Len(raw) /\ m = 4
  BY <1>1 DEF HeaderAndChecksum
<1>6. Len(sub) = n - 3
  <2> HIDE DEF sub, n, m
  <2>. QED
    BY <1>3, <1>4, <1>5
<1>7. sub \in Seq(Byte) /\ Len(sub) = Len(raw) - HeaderAndChecksum
  <2> HIDE DEF sub, n, m
  <2>. QED
    BY <1>1, <1>3, <1>4, <1>5, <1>6 DEF HeaderAndChecksum
<1>. QED
  BY <1>2, <1>7 DEF FrameOf

-----------------------------------------------------------------------------
LEMMA InitWithIInv ==
    ASSUME NEW s \in Seq(Byte), InitWith(s)
    PROVE  IInv
<1>1. stream \in Seq(Byte) /\ Len(stream) \in Nat
  BY LenProperties DEF InitWith
<1>2. TypeOK
  BY <1>1, EmptySeq DEF InitWith, TypeOK
<1>3. Window
  BY SubSeqEmpty DEF InitWith, Window
<1>4. Waiting
  BY DEF InitWith, Waiting
<1>5. BufferBounded
  BY CodecAssumption, EmptySeq DEF InitWith, BufferBounded, MaxFrameLength, HeaderAndChecksum
<1>. QED
  BY <1>2, <1>3, <1>4, <1>5 DEF IInv

LEMMA InitIInv == Init => IInv
  BY InitWithIInv, ReaderAssumption DEF Init

\* A read() appends the next bytes of the stream to the window.
LEMMA ReadIInv ==
    ASSUME IInv, Read
    PROVE  IInv'
<1> USE DEF IInv
<1>1. PICK n \in 1 .. ReadMax :
          /\ taken + n <= Len(stream)
          /\ buffer' = buffer \o SubSeq(stream, taken + 1, taken + n)
          /\ taken' = taken + n
  BY DEF Read
<1>2. /\ phase = "reading" /\ phase' = "extracting"
      /\ stream' = stream /\ frames' = frames /\ consumed' = consumed
  BY DEF Read
<1>3. Len(stream) \in Nat /\ Len(buffer) \in Nat /\ n \in Nat /\ ReadMax \in Nat
  BY LenProperties, ReaderAssumption DEF TypeOK
<1>4. \A i \in 1 .. Len(stream) : stream[i] \in Byte
  BY ElementOfSeq DEF TypeOK
<1> DEFINE chunk == SubSeq(stream, taken + 1, taken + n)
<1>5. chunk \in Seq(Byte) /\ Len(chunk) = n
  BY <1>1, <1>3, <1>4, SubSeqProperties DEF TypeOK
<1>6. buffer' \in Seq(Byte) /\ Len(buffer') = Len(buffer) + n
  BY <1>1, <1>5, ConcatProperties DEF TypeOK
<1>7. TypeOK'
  BY <1>1, <1>2, <1>3, <1>6 DEF TypeOK
<1>8. Window'
  <2>1. /\ consumed + 1 \in 1 .. Len(stream) + 1
        /\ taken \in consumed .. Len(stream)
        /\ taken + n \in taken .. Len(stream)
    BY <1>1, <1>3 DEF TypeOK
  <2>2. SubSeq(stream, consumed + 1, taken) \o chunk = SubSeq(stream, consumed + 1, taken + n)
    BY <2>1, ConcatAdjacentSubSeq DEF TypeOK
  <2>. QED
    BY <1>1, <1>2, <2>2 DEF Window
<1>9. BufferBounded'
  BY <1>1, <1>2, <1>3, <1>6, CodecAssumption
     DEF BufferBounded, MaxFrameLength, HeaderAndChecksum
<1>. QED
  BY <1>2, <1>7, <1>8, <1>9

\* A step of the extraction loop that erases n bytes keeps the bounds.
LEMMA EraseIInv ==
    ASSUME IInv, NEW n \in Nat, n <= Len(buffer), Erase(n),
           phase = "extracting", UNCHANGED <<stream, taken, phase>>,
           frames' \in Seq([at : 1 .. Len(stream), frame : Frames])
    PROVE  IInv'
<1> USE DEF IInv
<1>1. /\ Window' /\ buffer' \in Seq(Byte) /\ consumed' \in 0 .. taken
      /\ Len(buffer') = Len(buffer) - n
  BY EraseWindow
<1>2. Len(buffer) \in Nat /\ ReadMax \in Nat
  BY LenProperties, ReaderAssumption DEF TypeOK
<1>3. TypeOK'
  BY <1>1 DEF TypeOK
<1>4. BufferBounded'
  BY <1>1, <1>2, CodecAssumption DEF BufferBounded, MaxFrameLength, HeaderAndChecksum
<1>. QED
  BY <1>1, <1>3, <1>4

\* Running out of bytes leaves less than one frame behind.
LEMMA AwaitMoreIInv ==
    ASSUME IInv, AwaitMore
    PROVE  IInv'
<1> USE DEF IInv
<1>1. /\ phase' = "reading"
      /\ UNCHANGED <<stream, taken, buffer, frames, consumed>>
  BY DEF AwaitMore
<1>2. Waiting
  BY DEF AwaitMore, AtHeader, Waiting
<1>3. Len(buffer) < MaxFrameLength
  <2>1. Len(buffer) \in Nat /\ \A i \in 1 .. Len(buffer) : buffer[i] \in Byte
    BY ElementOfSeq, LenProperties DEF TypeOK
  <2>2. CASE buffer = <<>>
    BY <2>2, CodecAssumption, EmptySeq DEF MaxFrameLength, HeaderAndChecksum
  <2>3. CASE Len(buffer) < HeaderAndChecksum
    BY <2>1, <2>3, CodecAssumption DEF MaxFrameLength, HeaderAndChecksum
  <2>4. CASE Len(buffer) >= HeaderAndChecksum /\ Len(buffer) < TotalLength(buffer)
    <3>1. buffer[3] \in Byte
      BY <2>1, <2>4 DEF HeaderAndChecksum
    <3>. QED
      BY <2>1, <2>4, <3>1, CodecAssumption
         DEF TotalLength, MaxFrameLength, HeaderAndChecksum, Byte
  <2>5. buffer = <<>> \/ ~Complete(buffer)
    BY DEF AwaitMore
  <2>6. buffer = <<>> \/ Len(buffer) < HeaderAndChecksum
        \/ (Len(buffer) >= HeaderAndChecksum /\ Len(buffer) < TotalLength(buffer))
    <3>1. CASE buffer = <<>>
      BY <3>1
    <3>2. CASE Len(buffer) < HeaderAndChecksum
      BY <3>2
    <3>3. CASE Len(buffer) >= HeaderAndChecksum /\ buffer # <<>>
      <4>1. buffer[3] \in Byte
        BY <2>1, <3>3 DEF HeaderAndChecksum
      <4>2. TotalLength(buffer) \in Int
        BY <4>1, CodecAssumption DEF TotalLength, HeaderAndChecksum, Byte
      <4>. QED
        BY <2>1, <2>5, <3>3, <4>2 DEF Complete
    <3>. QED
      BY <2>1, <3>1, <3>2, <3>3 DEF HeaderAndChecksum
  <2>. QED
    BY <2>2, <2>3, <2>4, <2>6
<1>4. TypeOK'
  BY <1>1 DEF TypeOK
<1>5. Window' /\ Waiting'
  BY <1>1, <1>2 DEF Window, Waiting, Complete, TotalLength
<1>6. BufferBounded'
  BY <1>1, <1>3, CodecAssumption DEF BufferBounded, MaxFrameLength, HeaderAndChecksum
<1>. QED
  BY <1>4, <1>5, <1>6

\* A delivered frame is recorded with a position inside the stream.
LEMMA DeliverIInv ==
    ASSUME IInv, Deliver
    PROVE  IInv'
<1>1. AtHeader /\ Complete(buffer) /\ TypeOK /\ Window
  BY DEF Deliver, IInv
<1>2. /\ TotalLength(buffer) \in HeaderAndChecksum .. Len(buffer)
      /\ Raw \in Seq(Byte)
      /\ Len(Raw) = TotalLength(buffer)
  BY <1>1, HeaderFacts
<1>3. Len(buffer) \in Nat /\ Len(stream) \in Nat /\ Len(buffer) = taken - consumed
  BY <1>1, WindowLength, LenProperties DEF TypeOK
<1>4. consumed + 1 \in 1 .. Len(stream)
  BY <1>1, <1>2, <1>3 DEF TypeOK, HeaderAndChecksum
<1>5. FrameOf(Raw) \in Frames
  <2>1. /\ FrameOf(Raw) \in [command : Byte, payload : Seq(Byte)]
        /\ Len(FrameOf(Raw).payload) = TotalLength(buffer) - HeaderAndChecksum
    BY <1>2, FrameTyped DEF HeaderAndChecksum
  <2>2. buffer[3] \in Byte
    BY <1>1, <1>2, <1>3, ElementOfSeq DEF TypeOK, HeaderAndChecksum
  <2>3. TotalLength(buffer) - HeaderAndChecksum <= MaxByte
    BY <2>2, CodecAssumption DEF TotalLength, HeaderAndChecksum, Byte
  <2>. QED
    BY <2>1, <2>3 DEF Frames
<1> DEFINE Entry == [at : 1 .. Len(stream), frame : Frames]
           entry == [at |-> consumed + 1, frame |-> FrameOf(Raw)]
<1>6. entry \in Entry
  BY <1>4, <1>5
<1>7. Append(frames, entry) \in Seq(Entry)
  <2>1. frames \in Seq(Entry)
    BY <1>1 DEF TypeOK
  <2> HIDE DEF Entry, entry
  <2>. QED
    BY <1>6, <2>1, AppendProperties
<1>8. frames' \in Seq(Entry)
  BY <1>7 DEF Deliver
<1>9. /\ Erase(TotalLength(buffer)) /\ phase = "extracting"
      /\ UNCHANGED <<stream, taken, phase>>
  BY DEF Deliver, AtHeader
<1>10. TotalLength(buffer) \in Nat /\ TotalLength(buffer) <= Len(buffer)
  BY <1>2, <1>3 DEF HeaderAndChecksum
<1>. QED
  BY <1>8, <1>9, <1>10, EraseIInv

LEMMA NextIInv == IInv /\ [Next]_vars => IInv'
<1> SUFFICES ASSUME IInv, [Next]_vars
             PROVE  IInv'
  OBVIOUS
<1>1. CASE Read
  BY <1>1, ReadIInv
<1>2. CASE ReadNothing \/ UNCHANGED vars
  BY <1>2 DEF ReadNothing, vars, IInv, TypeOK, Window, Waiting, BufferBounded,
              Complete, TotalLength
<1>3. CASE DropByte
  <2>1. Len(buffer) \in Nat /\ Len(buffer) >= 1
    BY <1>3, LenProperties, EmptySeq DEF DropByte, IInv, TypeOK
  <2>2. frames' = frames /\ TypeOK
    BY <1>3 DEF DropByte, IInv
  <2>3. frames' \in Seq([at : 1 .. Len(stream), frame : Frames])
    BY <2>2 DEF TypeOK
  <2>. QED
    BY <1>3, <2>1, <2>3, EraseIInv DEF DropByte
<1>4. CASE AwaitMore
  BY <1>4, AwaitMoreIInv
<1>5. CASE Discard
  <2>1. AtHeader /\ Complete(buffer) /\ TypeOK /\ frames' = frames
    BY <1>5 DEF Discard, IInv
  <2>2. TotalLength(buffer) \in Nat /\ TotalLength(buffer) <= Len(buffer)
    BY <2>1, HeaderFacts, LenProperties DEF HeaderAndChecksum, TypeOK
  <2>3. frames' \in Seq([at : 1 .. Len(stream), frame : Frames])
    BY <2>1 DEF TypeOK
  <2>. QED
    BY <1>5, <2>2, <2>3, EraseIInv DEF Discard, AtHeader
<1>6. CASE Deliver
  BY <1>6, DeliverIInv
<1>. QED
  BY <1>1, <1>2, <1>3, <1>4, <1>5, <1>6 DEF Next, Extract

-----------------------------------------------------------------------------
LEMMA Invariance == Spec => []IInv
<1>1. Init => IInv
  BY InitIInv
<1>2. IInv /\ [Next]_vars => IInv'
  BY NextIInv
<1>. QED
  BY <1>1, <1>2, PTL DEF Spec

\* Every variable of a receiving session keeps its type, for any stream and
\* chunk size: in particular metis_try_extract_frame never erases more than has
\* been read, and what it delivers is a frame a device could have built, with a
\* payload no longer than its length byte can say.
THEOREM TypeCorrect == Spec => []TypeOK
<1>1. IInv => TypeOK
  BY DEF IInv
<1>. QED
  BY <1>1, Invariance, PTL

\* The receive buffer (metis_buffer in listen_loop) never holds as much as one
\* frame when read() is called, nor one frame and a chunk at any other time.
THEOREM ReaderBufferBounded == Spec => []BufferBounded
<1>1. IInv => BufferBounded
  BY DEF IInv
<1>. QED
  BY <1>1, Invariance, PTL

-----------------------------------------------------------------------------
\* A complete frame in front of the buffer is the one at byte consumed + 1 of
\* the stream.
LEMMA RawInStream ==
    ASSUME TypeOK, Window, AtHeader, Complete(buffer)
    PROVE  /\ stream[consumed + 1] = START
           /\ consumed + TotalLength(buffer) \in consumed + 1 .. Len(stream)
           /\ CompleteAt(stream, consumed + 1)
           /\ RawAt(stream, consumed + 1) = Raw
           /\ consumed + 1 + stream[consumed + 3] + HeaderAndChecksum
                = consumed + 1 + TotalLength(buffer)
<1>1. /\ Len(buffer) \in Nat /\ Len(stream) \in Nat /\ Len(buffer) = taken - consumed
      /\ taken \in 0 .. Len(stream) /\ consumed \in 0 .. taken
      /\ \A i \in 1 .. Len(buffer) : buffer[i] = stream[consumed + i]
      /\ \A i \in 1 .. Len(stream) : stream[i] \in Byte
  BY WindowLength, ElementOfSeq, LenProperties DEF TypeOK
<1>2. /\ TotalLength(buffer) \in HeaderAndChecksum .. Len(buffer)
      /\ TotalLength(buffer) = buffer[3] + HeaderAndChecksum
      /\ Raw \in Seq(Byte) /\ Len(Raw) = TotalLength(buffer)
      /\ \A i \in 1 .. Len(Raw) : Raw[i] = buffer[i]
  BY HeaderFacts
<1>3. buffer[1] = stream[consumed + 1] /\ buffer[3] = stream[consumed + 3]
  BY <1>1, <1>2 DEF HeaderAndChecksum
<1>4. stream[consumed + 1] = START
  BY <1>3 DEF AtHeader
<1> DEFINE n == TotalLength(buffer)
           h == stream[consumed + 3]
           t == SubSeq(stream, consumed + 1, consumed + n)
<1>5. consumed \in Nat /\ consumed + 3 \in 1 .. Len(stream) /\ h \in Nat
  <2>1. consumed \in Nat /\ consumed + 3 \in 1 .. Len(stream)
    BY <1>1, <1>2 DEF HeaderAndChecksum
  <2>2. h \in Byte
    BY <1>1, <2>1
  <2>. QED
    BY <2>1, <2>2, CodecAssumption DEF Byte
<1>6. n \in Nat /\ n >= 4 /\ consumed + n <= Len(stream) /\ n = h + 4
  BY <1>1, <1>2, <1>3 DEF HeaderAndChecksum
<1>7. consumed + 1 + 2 = consumed + 3
  BY <1>5
<1>8. stream[consumed + 1 + 2] = h
  BY <1>7
<1>9. t \in Seq(Byte) /\ Len(t) = n /\ \A i \in 1 .. n : t[i] = stream[consumed + i]
  BY <1>1, <1>6, SubSeqProperties
<1>10. t = Raw
  <2>1. Len(Raw) = n
    BY <1>2
  <2>2. \A i \in 1 .. Len(t) : t[i] = Raw[i]
    <3>1. 1 .. n \subseteq 1 .. Len(buffer)
      BY <1>1, <1>2, <1>6
    <3>2. \A i \in 1 .. n : buffer[i] = stream[consumed + i]
      BY <1>1, <3>1
    <3>. QED
      BY <1>2, <1>9, <2>1, <3>2
  <2>. QED
    BY <1>2, <1>9, <2>1, <2>2, SeqEqual
<1> HIDE DEF n, h, t
<1>11. consumed + n \in consumed + 1 .. Len(stream)
  BY <1>1, <1>5, <1>6
<1>12. consumed + 1 + h + HeaderAndChecksum = consumed + 1 + n
  BY <1>5, <1>6 DEF HeaderAndChecksum
<1>13. CompleteAt(stream, consumed + 1)
  BY <1>1, <1>5, <1>6, <1>8 DEF CompleteAt, HeaderAndChecksum
<1>14. RawAt(stream, consumed + 1) = t
  <2>1. consumed + 1 + h + HeaderAndChecksum - 1 = consumed + n
    BY <1>5, <1>6 DEF HeaderAndChecksum
  <2>. QED
    BY <1>8, <2>1 DEF RawAt, t
<1>. QED
  BY <1>4, <1>10, <1>11, <1>12, <1>13, <1>14 DEF n, h

\* Every step of the reader is a step of FrameStream or leaves it alone.
LEMMA StepImplements == IInv /\ [Next]_vars => [FS!Next]_FS!vars
<1> SUFFICES ASSUME IInv, [Next]_vars
             PROVE  [FS!Next]_FS!vars
  OBVIOUS
<1>1. /\ TypeOK /\ Window
      /\ Len(buffer) \in Nat /\ Len(stream) \in Nat /\ Len(buffer) = taken - consumed
      /\ taken \in 0 .. Len(stream) /\ consumed \in 0 .. taken
      /\ \A i \in 1 .. Len(buffer) : buffer[i] = stream[consumed + i]
  BY WindowLength, LenProperties DEF IInv, TypeOK
<1>2. CASE Read \/ ReadNothing \/ AwaitMore \/ UNCHANGED vars
  BY <1>2 DEF Read, ReadNothing, AwaitMore, vars, FS!vars
<1>3. CASE DropByte
  <2>1. /\ consumed' = consumed + 1
        /\ UNCHANGED <<stream, frames>> /\ buffer # <<>> /\ buffer[1] # START
    BY <1>3 DEF DropByte, Erase
  <2>2. Len(buffer) >= 1
    BY <1>1, <2>1, EmptySeq DEF TypeOK
  <2>3. consumed' \in consumed + 1 .. Len(stream)
    BY <1>1, <2>1, <2>2
  <2>4. ~ValidAt(stream, consumed + 1)
    BY <1>1, <2>1, <2>2 DEF ValidAt
  <2>5. \A i \in consumed + 1 .. consumed' : i = consumed + 1
    BY <1>1, <2>1
  <2>. QED
    BY <2>1, <2>3, <2>4, <2>5 DEF FS!Next, FS!Skip
<1>4. CASE Discard
  <2>1. /\ AtHeader /\ Complete(buffer) /\ ~ChecksumHolds(Raw)
        /\ consumed' = consumed + TotalLength(buffer)
        /\ UNCHANGED <<stream, frames>>
    BY <1>4 DEF Discard, Erase
  <2>2. /\ stream[consumed + 1] = START
        /\ consumed' \in consumed + 1 .. Len(stream)
        /\ CompleteAt(stream, consumed + 1)
        /\ RawAt(stream, consumed + 1) = Raw
        /\ consumed + 1 + stream[consumed + 3] + HeaderAndChecksum = consumed' + 1
    <3>1. consumed + 1 + TotalLength(buffer) = consumed' + 1
      BY <1>1, <2>1, HeaderFacts
    <3>. QED
      BY <1>1, <2>1, <3>1, RawInStream
  <2>3. ~ValidAt(stream, consumed + 1)
    BY <2>1, <2>2 DEF ValidAt
  <2>4. ASSUME NEW i \in consumed + 1 .. consumed', ValidAt(stream, i)
        PROVE  \E j \in consumed + 1 .. i - 1 : Covers(stream, j, i)
    <3>1. consumed + 1 \in consumed + 1 .. i - 1
      BY <1>1, <2>2, <2>3, <2>4
    <3>2. i < consumed + 1 + stream[consumed + 1 + 2] + HeaderAndChecksum
      <4>1. consumed + 1 + 2 = consumed + 3
        BY <1>1
      <4>. QED
        BY <1>1, <2>2, <2>4, <4>1
    <3>3. Covers(stream, consumed + 1, i)
      BY <2>2, <3>2 DEF Covers
    <3>. QED
      BY <3>1, <3>3
  <2>. QED
    BY <2>1, <2>2, <2>4 DEF FS!Next, FS!Skip
<1>5. CASE Deliver
  <2>1. /\ AtHeader /\ Complete(buffer) /\ ChecksumHolds(Raw)
        /\ consumed' = consumed + TotalLength(buffer)
        /\ frames' = Append(frames, [at |-> consumed + 1, frame |-> FrameOf(Raw)])
        /\ stream' = stream
    BY <1>5 DEF Deliver, Erase
  <2>2. /\ stream[consumed + 1] = START
        /\ consumed' \in consumed + 1 .. Len(stream)
        /\ CompleteAt(stream, consumed + 1)
        /\ RawAt(stream, consumed + 1) = Raw
    BY <1>1, <2>1, RawInStream
  <2>3. ValidAt(stream, consumed + 1) /\ consumed < Len(stream)
    BY <1>1, <2>1, <2>2 DEF ValidAt
  <2>4. consumed' = consumed + Len(RawAt(stream, consumed + 1))
    BY <1>1, <2>1, <2>2, HeaderFacts
  <2>. QED
    BY <2>1, <2>2, <2>3, <2>4 DEF FS!Next, FS!Deliver
<1>. QED
  BY <1>2, <1>3, <1>4, <1>5 DEF Next, Extract

\* The reader implements FrameStream for every stream, chunk size and width of
\* a byte: the bytes of a session are passed over once, every frame delivered
\* is genuine and in its turn, and a genuine frame is passed over only when an
\* earlier start byte laid claim to its first byte.
THEOREM ReaderImplementsFrameStream == Spec => ImplementsFrameStream
<1>1. Init => FS!Init
  BY DEF Init, InitWith, FS!Init
<1>2. IInv /\ [Next]_vars => [FS!Next]_FS!vars
  BY StepImplements
<1>. QED
  BY <1>1, <1>2, Invariance, PTL DEF Spec, ImplementsFrameStream, FS!Spec

-----------------------------------------------------------------------------
\* Every set of natural numbers has a least element: what the inductions below rest on.
LEMMA LeastOf ==
    ASSUME NEW S \in SUBSET Nat, S # {}
    PROVE  \E m \in S : \A k \in S : m <= k
<1> DEFINE R == OpToRel(<, Nat)
<1>1. IsWellFoundedOn(R, Nat)
  BY NatLessThanWellFounded
<1>2. \A i, j \in Nat : i < j => <<i, j>> \in R
  BY DEF OpToRel
<1> HIDE DEF R
<1>3. PICK m \in S : \A k \in S : ~(<<k, m>> \in R)
  BY <1>1, WFMin
<1>4. \A i \in S : i \in Nat
  OBVIOUS
<1>5. \A k \in S : ~(k < m)
  BY <1>2, <1>3, <1>4
<1>. QED
  BY <1>4, <1>5

-----------------------------------------------------------------------------
Delivered == [at : Nat, frame : [command : Byte, payload : Seq(Byte)]]

\* A complete frame at byte i of s, wherever s comes from.
LEMMA RawAtTyped ==
    ASSUME NEW s \in Seq(Byte), NEW i \in 1 .. Len(s), CompleteAt(s, i)
    PROVE  /\ Len(RawAt(s, i)) \in Nat /\ Len(RawAt(s, i)) >= HeaderAndChecksum
           /\ i + Len(RawAt(s, i)) \in i + 1 .. Len(s) + 1
           /\ RawAt(s, i) \in Seq(Byte)
           /\ s[i + 2] \in 0 .. MaxByte /\ Len(RawAt(s, i)) = s[i + 2] + 4
<1>1. Len(s) \in Nat /\ \A k \in 1 .. Len(s) : s[k] \in Byte
  BY ElementOfSeq, LenProperties
<1>2. i + 2 \in 1 .. Len(s)
  BY <1>1 DEF CompleteAt, HeaderAndChecksum
<1> DEFINE h == s[i + 2]
<1>3. h \in 0 .. MaxByte
  BY <1>1, <1>2 DEF Byte
<1>4. h \in Nat /\ i + h + 3 <= Len(s)
  <2>1. h \in Nat
    BY <1>3, CodecAssumption
  <2>. QED
    BY <2>1 DEF CompleteAt, HeaderAndChecksum
<1>5. RawAt(s, i) = SubSeq(s, i, i + h + 4 - 1)
  BY DEF RawAt, HeaderAndChecksum
<1> HIDE DEF h
<1>6. i + h + 4 - 1 = i + h + 3
  BY <1>4
<1>7. SubSeq(s, i, i + h + 3) \in Seq(Byte) /\ Len(SubSeq(s, i, i + h + 3)) = h + 4
  <2>1. \A k \in i .. i + h + 3 : s[k] \in Byte
    BY <1>1, <1>4
  <2>2. i \in Int /\ i + h + 3 \in Int /\ i <= i + h + 3 /\ (i + h + 3) - i + 1 = h + 4
    BY <1>4
  <2>. QED
    BY <2>1, <2>2, SubSeqProperties
<1>8. /\ RawAt(s, i) \in Seq(Byte) /\ Len(RawAt(s, i)) = h + 4 /\ h + 4 \in Nat
      /\ h + 4 >= HeaderAndChecksum /\ i + (h + 4) \in i + 1 .. Len(s) + 1
  BY <1>1, <1>4, <1>5, <1>6, <1>7 DEF HeaderAndChecksum
<1>9. h = s[i + 2]
  BY DEF h
<1>. QED
  BY <1>3, <1>8, <1>9

\* What a pass finds from byte i on depends on what it finds later only.
LEMMA ScanAhead ==
    ASSUME NEW s \in Seq(Byte), NEW i \in 1 .. Len(s) + 1, NEW f, NEW g,
           \A j \in i + 1 .. Len(s) + 1 : f[j] = g[j]
    PROVE  ScanAt(s, i, f) = ScanAt(s, i, g)
<1>0. Len(s) \in Nat
  BY LenProperties
<1>1. CASE i > Len(s)
  BY <1>1 DEF ScanAt
<1>2. CASE i <= Len(s) /\ ~CompleteAt(s, i)
  <2>1. i + 1 \in i + 1 .. Len(s) + 1
    BY <1>0, <1>2
  <2>2. f[i + 1] = g[i + 1]
    BY <2>1
  <2>. QED
    BY <1>2, <2>2 DEF ScanAt
<1>3. CASE i <= Len(s) /\ CompleteAt(s, i)
  <2>1. i \in 1 .. Len(s)
    BY <1>0, <1>3
  <2>2. i + Len(RawAt(s, i)) \in i + 1 .. Len(s) + 1 /\ i + 1 \in i + 1 .. Len(s) + 1
    BY <1>0, <1>3, <2>1, RawAtTyped
  <2>3. f[i + 1] = g[i + 1] /\ f[i + Len(RawAt(s, i))] = g[i + Len(RawAt(s, i))]
    BY <2>2
  <2>. QED
    BY <1>3, <2>3 DEF ScanAt
<1>. QED
  BY <1>0, <1>1, <1>2, <1>3

\* The recursion of Scan is well founded: there is a function that satisfies it.
LEMMA ScanExists ==
    ASSUME NEW s \in Seq(Byte)
    PROVE  \E f : f = [i \in 1 .. Len(s) + 1 |-> ScanAt(s, i, f)]
<1> DEFINE n == Len(s) + 1
           IsScan(f, k) == f = [i \in k .. n |-> ScanAt(s, i, f)]
           From == {k \in 1 .. n : \E f : IsScan(f, k)}
<1>1. n \in Nat /\ n >= 1 /\ Len(s) \in Nat /\ n = Len(s) + 1
  BY LenProperties
<1>2. IsScan([i \in n .. n |-> <<>>], n)
  <2>1. \A i \in n .. n : ScanAt(s, i, [j \in n .. n |-> <<>>]) = <<>>
    BY <1>1 DEF ScanAt
  <2>. QED
    BY <2>1
<1>3. ASSUME NEW k \in 2 .. n, NEW f, IsScan(f, k)
      PROVE  \E g : IsScan(g, k - 1)
  <2> DEFINE g == [i \in k - 1 .. n |-> IF i = k - 1 THEN ScanAt(s, i, f) ELSE f[i]]
  <2>1. k \in Int /\ k - 1 \in 1 .. n /\ n \in Int
    BY <1>1
  <2>2. \A i \in k .. n : g[i] = f[i]
    BY <2>1
  <2>3. ASSUME NEW i \in k - 1 .. n
        PROVE  ScanAt(s, i, f) = ScanAt(s, i, g)
    <3>1. i \in 1 .. Len(s) + 1 /\ \A j \in i + 1 .. Len(s) + 1 : j \in k .. n
      BY <1>1, <2>1
    <3>2. \A j \in i + 1 .. Len(s) + 1 : f[j] = g[j]
      BY <2>2, <3>1
    <3> HIDE DEF g
    <3>. QED
      BY <3>1, <3>2, ScanAhead
  <2>4. ASSUME NEW i \in k - 1 .. n
        PROVE  g[i] = ScanAt(s, i, f)
    <3>1. i = k - 1 \/ i \in k .. n
      BY <2>1
    <3>2. CASE i = k - 1
      BY <3>2
    <3>3. CASE i \in k .. n
      <4>1. f[i] = ScanAt(s, i, f)
        BY <1>3, <3>3
      <4>. QED
        BY <2>2, <3>3, <4>1
    <3>. QED
      BY <3>1, <3>2, <3>3
  <2>5. g = [i \in k - 1 .. n |-> ScanAt(s, i, g)]
    <3>1. \A i \in k - 1 .. n : g[i] = ScanAt(s, i, g)
      BY <2>3, <2>4
    <3>2. g = [i \in k - 1 .. n |-> g[i]]
      OBVIOUS
    <3> HIDE DEF g
    <3>. QED
      BY <3>1, <3>2
  <2>. QED
    BY <2>5
<1> HIDE DEF IsScan
<1>4. From \in SUBSET Nat /\ n \in From
  BY <1>1, <1>2
<1> HIDE DEF From
<1>5. PICK m \in From : \A k \in From : m <= k
  BY <1>4, LeastOf
<1> USE DEF From
<1>6. m = 1
  <2>1. m \in 1 .. n
    OBVIOUS
  <2>2. SUFFICES ASSUME m # 1 PROVE FALSE
    OBVIOUS
  <2>3. m \in 2 .. n /\ m - 1 \in 1 .. n /\ m \in Int
    BY <1>1, <2>1, <2>2
  <2>4. \E g : IsScan(g, m - 1)
    BY <1>3, <2>3
  <2>5. m <= m - 1
    BY <1>5, <2>3, <2>4
  <2>. QED
    BY <2>3, <2>5
<1>. QED
  BY <1>6 DEF IsScan

LEMMA ScanUnfolds ==
    ASSUME NEW s \in Seq(Byte)
    PROVE  \A i \in 1 .. Len(s) + 1 : Scan(s)[i] = ScanAt(s, i, Scan(s))
<1>1. Scan(s) = CHOOSE f : f = [i \in 1 .. Len(s) + 1 |-> ScanAt(s, i, f)]
  BY DEF Scan
<1>2. Scan(s) = [i \in 1 .. Len(s) + 1 |-> ScanAt(s, i, Scan(s))]
  BY <1>1, ScanExists
<1>. QED
  BY <1>2

LEMMA ScanTyped ==
    ASSUME NEW s \in Seq(Byte)
    PROVE  \A i \in 1 .. Len(s) + 1 : Scan(s)[i] \in Seq(Delivered)
<1> DEFINE n == Len(s) + 1
           scan == Scan(s)
           Typed(k) == \A i \in k .. n : scan[i] \in Seq(Delivered)
           From == {k \in 1 .. n : Typed(k)}
<1>1. n \in Nat /\ n >= 1 /\ Len(s) \in Nat /\ n = Len(s) + 1
  BY LenProperties
<1>2. \A i \in 1 .. n : scan[i] = ScanAt(s, i, scan)
  BY ScanUnfolds
<1> HIDE DEF scan
<1>3. Typed(n)
  <2>1. scan[n] = <<>>
    <3>1. n > Len(s) /\ n \in 1 .. n
      BY <1>1
    <3> HIDE DEF n
    <3>. QED
      BY <1>2, <3>1 DEF ScanAt
  <2>2. \A i \in n .. n : i = n
    BY <1>1
  <2>. QED
    BY <2>1, <2>2, EmptySeq
<1>4. ASSUME NEW k \in 2 .. n, Typed(k)
      PROVE  Typed(k - 1)
  <2> DEFINE i == k - 1
  <2>1. i \in 1 .. Len(s) /\ i \in 1 .. n /\ i + 1 \in k .. n /\ ~(i > Len(s))
    BY <1>1
  <2>2. \A j \in i .. n : j = i \/ j \in k .. n
    BY <1>1
  <2> HIDE DEF i
  <2>3. scan[i] = ScanAt(s, i, scan) /\ scan[i + 1] \in Seq(Delivered)
    BY <1>2, <1>4, <2>1
  <2>4. scan[i] \in Seq(Delivered)
    <3>1. CASE s[i] # START
      BY <2>1, <2>3, <3>1 DEF ScanAt
    <3>2. CASE ~CompleteAt(s, i)
      BY <2>1, <2>3, <3>2, EmptySeq DEF ScanAt
    <3>3. CASE CompleteAt(s, i) /\ s[i] = START
      <4> DEFINE raw == RawAt(s, i)
      <4>1. /\ Len(raw) >= HeaderAndChecksum /\ i + Len(raw) \in i + 1 .. Len(s) + 1
            /\ raw \in Seq(Byte)
        BY <2>1, <3>3, RawAtTyped
      <4>2. i + Len(raw) \in k .. n
        BY <1>1, <4>1 DEF i
      <4>3. scan[i + Len(raw)] \in Seq(Delivered)
        BY <1>4, <4>2
      <4>4. [at |-> i, frame |-> FrameOf(raw)] \in Delivered
        BY <1>1, <2>1, <4>1, FrameTyped DEF Delivered
      <4>5. <<[at |-> i, frame |-> FrameOf(raw)]>> \o scan[i + Len(raw)] \in Seq(Delivered)
        <5> DEFINE one == [at |-> i, frame |-> FrameOf(raw)]  rest == scan[i + Len(raw)]
        <5> HIDE DEF one, rest
        <5>1. one \in Delivered /\ rest \in Seq(Delivered)
          BY <4>3, <4>4 DEF one, rest
        <5>2. <<one>> \in Seq(Delivered)
          BY <5>1
        <5>3. <<one>> \o rest \in Seq(Delivered)
          BY <5>1, <5>2, ConcatProperties
        <5>. QED
          BY <5>3 DEF one, rest
      <4>. QED
        BY <2>1, <2>3, <3>3, <4>3, <4>5 DEF ScanAt
    <3>. QED
      BY <3>1, <3>2, <3>3
  <2>. QED
    BY <1>4, <2>2, <2>4 DEF i
<1> HIDE DEF Typed
<1>5. From \in SUBSET Nat /\ n \in From
  BY <1>1, <1>3
<1> HIDE DEF From
<1>6. PICK m \in From : \A k \in From : m <= k
  BY <1>5, LeastOf
<1> USE DEF From
<1>7. m = 1
  <2>1. m \in 1 .. n
    OBVIOUS
  <2>2. SUFFICES ASSUME m # 1 PROVE FALSE
    OBVIOUS
  <2>3. m \in 2 .. n /\ m - 1 \in 1 .. n /\ m \in Int
    BY <1>1, <2>1, <2>2
  <2>4. Typed(m - 1)
    BY <1>4, <2>3
  <2>5. m <= m - 1
    BY <1>6, <2>3, <2>4
  <2>. QED
    BY <2>3, <2>5
<1>. QED
  BY <1>7 DEF Typed, scan

-----------------------------------------------------------------------------
(***************************************************************************)
(* One pass over a longer stream.                                          *)
(***************************************************************************)
\* The frame in front of the buffer, in any sequence that begins with the bytes
\* read so far.
LEMMA RawIn ==
    ASSUME TypeOK, Window, AtHeader, Complete(buffer),
           NEW s \in Seq(Byte), taken <= Len(s), \A i \in 1 .. taken : s[i] = stream[i]
    PROVE  /\ s[consumed + 1] = START
           /\ consumed + TotalLength(buffer) \in consumed + 1 .. taken
           /\ CompleteAt(s, consumed + 1)
           /\ RawAt(s, consumed + 1) = Raw
           /\ s[consumed + 3] = buffer[3]
<1>1. /\ Len(buffer) \in Nat /\ Len(s) \in Nat /\ Len(buffer) = taken - consumed
      /\ taken \in 0 .. Len(s) /\ consumed \in 0 .. taken
      /\ \A i \in 1 .. Len(buffer) : buffer[i] = stream[consumed + i]
      /\ \A i \in 1 .. Len(s) : s[i] \in Byte
  BY WindowLength, ElementOfSeq, LenProperties DEF TypeOK
<1>2. \A i \in 1 .. Len(buffer) : buffer[i] = s[consumed + i]
  <2>1. \A i \in 1 .. Len(buffer) : consumed + i \in 1 .. taken
    BY <1>1
  <2>. QED
    BY <1>1, <2>1
<1>3. /\ TotalLength(buffer) \in HeaderAndChecksum .. Len(buffer)
      /\ TotalLength(buffer) = buffer[3] + HeaderAndChecksum
      /\ Raw \in Seq(Byte) /\ Len(Raw) = TotalLength(buffer)
      /\ \A i \in 1 .. Len(Raw) : Raw[i] = buffer[i]
  BY HeaderFacts
<1> DEFINE n == TotalLength(buffer)
           h == s[consumed + 3]
           t == SubSeq(s, consumed + 1, consumed + n)
<1>4. 1 \in 1 .. Len(buffer) /\ 3 \in 1 .. Len(buffer)
  BY <1>1, <1>3 DEF HeaderAndChecksum
<1>5. s[consumed + 1] = START /\ h = buffer[3]
  BY <1>2, <1>4 DEF AtHeader
<1>6. h \in Nat /\ consumed + 3 \in 1 .. Len(s)
  <2>1. consumed + 3 \in 1 .. Len(s)
    BY <1>1, <1>4
  <2>2. h \in Byte
    BY <1>1, <2>1
  <2>. QED
    BY <2>1, <2>2, CodecAssumption DEF Byte
<1>7. /\ n = h + 4 /\ n \in Nat /\ consumed + n \in consumed + 1 .. taken
      /\ consumed \in Nat /\ taken \in Nat
  <2>1. n = h + 4 /\ n \in Nat /\ n >= 1 /\ n <= Len(buffer)
    BY <1>1, <1>3, <1>5, <1>6 DEF HeaderAndChecksum
  <2>2. consumed \in Nat /\ taken \in Nat /\ Len(buffer) = taken - consumed
    BY <1>1
  <2>. QED
    BY <1>1, <2>1, <2>2
<1>8. consumed + 1 + 2 = consumed + 3
  BY <1>7
<1>9. s[consumed + 1 + 2] = h
  BY <1>8
<1>10. \A i \in consumed + 1 .. consumed + n : s[i] \in Byte
  BY <1>1, <1>7
<1> HIDE DEF n, h
<1>11. t \in Seq(Byte) /\ Len(t) = n /\ \A i \in 1 .. n : t[i] = s[consumed + i]
  <2>1. /\ consumed + 1 <= consumed + n /\ (consumed + n) - (consumed + 1) + 1 = n
        /\ \A i \in 1 .. n : (consumed + 1) + i - 1 = consumed + i
        /\ consumed + 1 \in Int /\ consumed + n \in Int
    BY <1>6, <1>7
  <2>2. /\ SubSeq(s, consumed + 1, consumed + n) \in Seq(Byte)
        /\ Len(SubSeq(s, consumed + 1, consumed + n)) = (consumed + n) - (consumed + 1) + 1
        /\ \A i \in 1 .. (consumed + n) - (consumed + 1) + 1 :
              SubSeq(s, consumed + 1, consumed + n)[i] = s[(consumed + 1) + i - 1]
    BY <1>10, <2>1, SubSeqProperties
  <2>. QED
    BY <2>1, <2>2
<1>12. t = Raw
  <2>1. \A i \in 1 .. n : i \in 1 .. Len(buffer)
    BY <1>1, <1>7
  <2>2. Len(Raw) = n /\ \A i \in 1 .. n : Raw[i] = t[i]
    BY <1>2, <1>3, <1>11, <2>1 DEF n
  <2> HIDE DEF t
  <2>. QED
    BY <1>3, <1>11, <2>2, SeqEqual
<1>13. CompleteAt(s, consumed + 1)
  BY <1>1, <1>6, <1>7, <1>9 DEF CompleteAt, HeaderAndChecksum
<1>14. RawAt(s, consumed + 1) = t
  <2>1. consumed + 1 + h + HeaderAndChecksum - 1 = consumed + n
    BY <1>6, <1>7 DEF HeaderAndChecksum
  <2>. QED
    BY <1>9, <2>1 DEF RawAt
<1>. QED
  BY <1>5, <1>7, <1>12, <1>13, <1>14 DEF n, h

ReadTo(t) == SubSeq(stream, 1, t)

\* However much of the stream is read in the end: what one pass finds in it is
\* what has been delivered and what the pass finds behind the bytes erased.
ScanContinues ==
    \A t \in taken .. Len(stream) :
        Scan(ReadTo(t))[1] = frames \o Scan(ReadTo(t))[consumed + 1]

LEMMA ReadToIs ==
    ASSUME TypeOK, NEW t \in taken .. Len(stream)
    PROVE  /\ ReadTo(t) \in Seq(Byte) /\ Len(ReadTo(t)) = t /\ t \in Nat
           /\ \A i \in 1 .. t : ReadTo(t)[i] = stream[i]
<1>1. Len(stream) \in Nat /\ t \in Nat /\ \A i \in 1 .. t : stream[i] \in Byte
  BY ElementOfSeq, LenProperties DEF TypeOK
<1>2. /\ SubSeq(stream, 1, t) \in Seq(Byte)
      /\ Len(SubSeq(stream, 1, t)) = IF 1 <= t THEN t - 1 + 1 ELSE 0
      /\ \A i \in 1 .. t - 1 + 1 : SubSeq(stream, 1, t)[i] = stream[1 + i - 1]
  BY <1>1, SubSeqProperties
<1>3. t - 1 + 1 = t /\ \A i \in 1 .. t : 1 + i - 1 = i
  BY <1>1
<1>. QED
  BY <1>1, <1>2, <1>3 DEF ReadTo

\* Erasing n bytes that begin no frame (found is empty) or one that is delivered
\* keeps the pass going from where it was.
LEMMA EraseContinues ==
    ASSUME IInv, IInv', ScanContinues, NEW n \in Nat \ {0}, n <= Len(buffer), Erase(n),
           UNCHANGED <<stream, taken>>, NEW found \in Seq(Delivered),
           frames \in Seq(Delivered), frames' = frames \o found,
           \A t \in taken .. Len(stream) :
               Scan(ReadTo(t))[consumed + 1] = found \o Scan(ReadTo(t))[consumed + n + 1]
    PROVE  ScanContinues'
<1>1. /\ TypeOK /\ Len(buffer) \in Nat /\ Len(buffer) = taken - consumed
      /\ taken \in 0 .. Len(stream) /\ consumed \in 0 .. taken /\ Len(stream) \in Nat
      /\ consumed' = consumed + n
  BY WindowLength, LenProperties DEF IInv, TypeOK, Erase
<1>2. ASSUME NEW t \in taken .. Len(stream)
      PROVE  Scan(ReadTo(t))[1] = frames' \o Scan(ReadTo(t))[consumed' + 1]
  <2> DEFINE rest == Scan(ReadTo(t))[consumed + n + 1]
  <2>1. rest \in Seq(Delivered)
    <3>1. consumed + n + 1 \in 1 .. t + 1
      BY <1>1
    <3>. QED
      BY <1>1, <3>1, ReadToIs, ScanTyped
  <2>2. Scan(ReadTo(t))[1] = frames \o (found \o rest)
    BY DEF ScanContinues
  <2> HIDE DEF rest
  <2>3. frames \o (found \o rest) = (frames \o found) \o rest
    <3>1. frames \in Seq(Delivered) /\ found \in Seq(Delivered) /\ rest \in Seq(Delivered)
      BY <2>1
    <3>. QED
      BY ONLY <3>1, ConcatAssociative, SMTT(30)
  <2>. QED
    BY <1>1, <2>2, <2>3 DEF rest
<1>3. ReadTo(0)' = ReadTo(0) /\ \A t : ReadTo(t)' = ReadTo(t)
  BY DEF ReadTo
<1>. QED
  BY <1>2, <1>3 DEF ScanContinues

FramesTyped == frames \in Seq(Delivered)

LEMMA FramesAreDelivered == TypeOK => FramesTyped
<1> SUFFICES ASSUME TypeOK PROVE FramesTyped
  OBVIOUS
<1> DEFINE Entry == [at : 1 .. Len(stream), frame : Frames]
<1>1. frames \in Seq(Entry)
  BY DEF TypeOK
<1>2. Entry \subseteq Delivered
  <2>1. 1 .. Len(stream) \subseteq Nat
    BY LenProperties DEF TypeOK
  <2>. QED
    BY <2>1 DEF Delivered, Frames
<1> HIDE DEF Entry
<1>. QED
  BY <1>1, <1>2, SeqMonotonic DEF FramesTyped

\* What the pass finds at the byte in front of the buffer.
LEMMA AtFront ==
    ASSUME IInv, buffer # <<>>, NEW t \in taken .. Len(stream)
    PROVE  /\ consumed + 1 \in 1 .. Len(ReadTo(t))
           /\ ReadTo(t) \in Seq(Byte) /\ ReadTo(t)[consumed + 1] = buffer[1]
           /\ taken <= Len(ReadTo(t)) /\ \A i \in 1 .. taken : ReadTo(t)[i] = stream[i]
           /\ Scan(ReadTo(t))[consumed + 1]
                = ScanAt(ReadTo(t), consumed + 1, Scan(ReadTo(t)))
<1>1. /\ TypeOK /\ Window /\ Len(buffer) \in Nat /\ Len(buffer) = taken - consumed
      /\ taken \in 0 .. Len(stream) /\ consumed \in 0 .. taken /\ Len(stream) \in Nat
      /\ \A i \in 1 .. Len(buffer) : buffer[i] = stream[consumed + i]
  BY WindowLength, LenProperties DEF IInv, TypeOK
<1>2. Len(buffer) >= 1
  BY <1>1, EmptySeq DEF TypeOK
<1>3. /\ ReadTo(t) \in Seq(Byte) /\ Len(ReadTo(t)) = t /\ t \in Nat
      /\ \A i \in 1 .. t : ReadTo(t)[i] = stream[i]
  BY <1>1, ReadToIs
<1>4. consumed + 1 \in 1 .. t /\ consumed + 1 \in 1 .. t + 1
  BY <1>1, <1>2, <1>3
<1>5. buffer[1] = stream[consumed + 1]
  BY <1>1, <1>2
<1>6. Scan(ReadTo(t))[consumed + 1] = ScanAt(ReadTo(t), consumed + 1, Scan(ReadTo(t)))
  BY <1>3, <1>4, ScanUnfolds
<1>7. \A i \in 1 .. taken : i \in 1 .. t
  BY <1>1, <1>3
<1>. QED
  BY <1>3, <1>4, <1>5, <1>6, <1>7

LEMMA ExtractContinues ==
    ASSUME IInv, IInv', ScanContinues, DropByte \/ Discard \/ Deliver
    PROVE  ScanContinues'
<1>1. TypeOK /\ Window /\ frames \in Seq(Delivered) /\ Len(buffer) \in Nat
  BY FramesAreDelivered, LenProperties DEF IInv, FramesTyped, TypeOK
<1>2. consumed \in Nat /\ <<>> \in Seq(Delivered) /\ frames \o <<>> = frames
  BY <1>1, EmptySeq, ConcatEmptySeq DEF TypeOK
<1>3. CASE DropByte
  <2>1. buffer # <<>> /\ buffer[1] # START /\ Erase(1) /\ UNCHANGED <<stream, taken, frames>>
    BY <1>3 DEF DropByte
  <2>2. 1 \in Nat \ {0} /\ 1 <= Len(buffer)
    BY <1>1, <2>1, EmptySeq DEF TypeOK
  <2>3. ASSUME NEW t \in taken .. Len(stream)
        PROVE  Scan(ReadTo(t))[consumed + 1] = <<>> \o Scan(ReadTo(t))[consumed + 1 + 1]
    <3> DEFINE s == ReadTo(t)  i == consumed + 1
    <3>1. /\ i \in 1 .. Len(s) /\ s \in Seq(Byte) /\ s[i] # START
          /\ Scan(s)[i] = ScanAt(s, i, Scan(s))
      BY <2>1, AtFront
    <3> HIDE DEF s, i
    <3>2. Len(s) \in Nat /\ i + 1 \in 1 .. Len(s) + 1
      BY <3>1, LenProperties
    <3>3. Scan(s)[i + 1] \in Seq(Delivered)
      BY <3>1, <3>2, ScanTyped
    <3>4. Scan(s)[i] = Scan(s)[i + 1]
      BY <3>1, <3>2 DEF ScanAt
    <3>5. <<>> \o Scan(s)[i + 1] = Scan(s)[i + 1]
      BY <3>3, ConcatEmptySeq
    <3>. QED
      BY <3>4, <3>5 DEF s, i
  <2>. QED
    BY <1>1, <1>2, <2>1, <2>2, <2>3, EraseContinues
<1>4. CASE Discard \/ Deliver
  <2> DEFINE n == TotalLength(buffer)
             entry == [at |-> consumed + 1, frame |-> FrameOf(Raw)]
             found == IF ChecksumHolds(Raw) THEN <<entry>> ELSE <<>>
  <2>1. /\ AtHeader /\ Complete(buffer) /\ Erase(n) /\ UNCHANGED <<stream, taken>>
        /\ frames' = IF ChecksumHolds(Raw) THEN Append(frames, entry) ELSE frames
    BY <1>4 DEF Discard, Deliver
  <2>2. /\ n \in HeaderAndChecksum .. Len(buffer) /\ Raw \in Seq(Byte) /\ Len(Raw) = n
    BY <1>1, <2>1, HeaderFacts
  <2>3. n \in Nat \ {0} /\ n <= Len(buffer) /\ Len(Raw) >= HeaderAndChecksum
    BY <1>1, <2>2 DEF HeaderAndChecksum
  <2>4. entry \in Delivered
    <3>1. FrameOf(Raw) \in [command : Byte, payload : Seq(Byte)]
      BY <2>2, <2>3, FrameTyped
    <3>. QED
      BY <1>2, <3>1 DEF Delivered
  <2>5. found \in Seq(Delivered) /\ frames' = frames \o found
    <3> HIDE DEF entry
    <3>1. <<entry>> \in Seq(Delivered) /\ Append(frames, entry) = frames \o <<entry>>
      BY <1>1, <2>4, AppendIsConcat
    <3>. QED
      BY <1>2, <2>1, <3>1
  <2>6. ASSUME NEW t \in taken .. Len(stream)
        PROVE  Scan(ReadTo(t))[consumed + 1] = found \o Scan(ReadTo(t))[consumed + n + 1]
    <3> DEFINE s == ReadTo(t)  i == consumed + 1
    <3>1. /\ i \in 1 .. Len(s) /\ s \in Seq(Byte) /\ taken <= Len(s)
          /\ \A k \in 1 .. taken : s[k] = stream[k]
          /\ Scan(s)[i] = ScanAt(s, i, Scan(s))
      BY <2>1, AtFront DEF AtHeader
    <3>2. /\ s[i] = START /\ CompleteAt(s, i) /\ RawAt(s, i) = Raw
      BY <1>1, <2>1, <3>1, RawIn
    <3>3. i + Len(Raw) = consumed + n + 1 /\ i + Len(Raw) \in 1 .. Len(s) + 1
      <4>1. i + Len(Raw) = consumed + n + 1
        BY <1>2, <2>2, <2>3
      <4>2. i + Len(Raw) \in i + 1 .. Len(s) + 1
        BY <3>1, <3>2, RawAtTyped
      <4>. QED
        BY <1>2, <4>1, <4>2
    <3> DEFINE rest == Scan(s)[i + Len(Raw)]
    <3>4. rest \in Seq(Delivered)
      BY <3>1, <3>3, ScanTyped
    <3>5. ~(i > Len(s))
      BY <3>1, LenProperties
    <3>6. ValidAt(s, i) <=> ChecksumHolds(Raw)
      BY <3>2 DEF ValidAt
    <3>7. Scan(s)[i] = IF ChecksumHolds(Raw) THEN <<[at |-> i, frame |-> FrameOf(Raw)]>> \o rest
                       ELSE rest
      <4> HIDE DEF s, i
      <4>. QED
        BY <3>1, <3>2, <3>5, <3>6 DEF ScanAt
    <3>8. Scan(s)[i] = found \o rest
      <4> HIDE DEF s, rest
      <4>1. <<>> \o rest = rest
        BY <3>4, ConcatEmptySeq
      <4>. QED
        BY <3>7, <4>1
    <3>. QED
      BY <3>3, <3>8
  <2> HIDE DEF n, found
  <2>. QED
    BY <1>1, <2>1, <2>3, <2>5, <2>6, EraseContinues
<1>. QED
  BY <1>3, <1>4

ScanInv == IInv /\ ScanContinues

LEMMA InitScan == Init => ScanContinues
<1> SUFFICES ASSUME Init PROVE ScanContinues
  OBVIOUS
<1>1. IInv /\ TypeOK
  BY InitIInv DEF IInv
<1>2. frames = <<>> /\ consumed = 0
  BY DEF Init, InitWith
<1>3. ASSUME NEW t \in taken .. Len(stream)
      PROVE  Scan(ReadTo(t))[1] = frames \o Scan(ReadTo(t))[consumed + 1]
  <2>1. ReadTo(t) \in Seq(Byte) /\ 1 \in 1 .. Len(ReadTo(t)) + 1
    BY <1>1, ReadToIs
  <2>2. Scan(ReadTo(t))[1] \in Seq(Delivered)
    BY <2>1, ScanTyped
  <2>3. <<>> \o Scan(ReadTo(t))[1] = Scan(ReadTo(t))[1]
    BY <2>2, ConcatEmptySeq
  <2>. QED
    BY <1>2, <2>3
<1>. QED
  BY <1>3 DEF ScanContinues

LEMMA NextScan == ScanInv /\ [Next]_vars => ScanInv'
<1> SUFFICES ASSUME IInv, ScanContinues, [Next]_vars
             PROVE  IInv' /\ ScanContinues'
  BY DEF ScanInv
<1>1. IInv'
  BY NextIInv
<1>2. CASE Read
  <2>1. PICK n \in 1 .. ReadMax : taken + n <= Len(stream) /\ taken' = taken + n
    BY <1>2 DEF Read
  <2>2. UNCHANGED <<stream, frames, consumed>>
    BY <1>2 DEF Read
  <2>3. taken \in Nat /\ n \in Nat /\ Len(stream) \in Nat
    BY ReaderAssumption, LenProperties DEF IInv, TypeOK
  <2>4. \A t \in taken' .. Len(stream) : t \in taken .. Len(stream)
    BY <2>1, <2>3
  <2>5. \A t : ReadTo(t)' = ReadTo(t)
    BY <2>2 DEF ReadTo
  <2>. QED
    BY <1>1, <2>2, <2>4, <2>5 DEF ScanContinues
<1>3. CASE ReadNothing \/ AwaitMore \/ UNCHANGED vars
  <2>1. UNCHANGED <<stream, taken, frames, consumed>>
    BY <1>3 DEF ReadNothing, AwaitMore, vars
  <2>2. \A t : ReadTo(t)' = ReadTo(t)
    BY <2>1 DEF ReadTo
  <2>. QED
    BY <1>1, <2>1, <2>2 DEF ScanContinues
<1>4. CASE DropByte \/ Discard \/ Deliver
  BY <1>1, <1>4, ExtractContinues
<1>. QED
  BY <1>1, <1>2, <1>3, <1>4 DEF Next, Extract

\* Back at read(), what is left in the buffer holds no whole frame.
LEMMA NothingLeft == ScanInv => ChunkingIrrelevant
<1> SUFFICES ASSUME IInv, ScanContinues, phase = "reading"
             PROVE  frames = FramesIn(SubSeq(stream, 1, taken))
  BY DEF ScanInv, ChunkingIrrelevant
<1> DEFINE s == ReadTo(taken)  i == consumed + 1
<1>1. /\ TypeOK /\ Window /\ Waiting /\ Len(stream) \in Nat /\ taken \in 0 .. Len(stream)
      /\ consumed \in 0 .. taken /\ Len(buffer) = taken - consumed /\ Len(buffer) \in Nat
      /\ \A k \in 1 .. Len(buffer) : buffer[k] = stream[consumed + k]
  BY WindowLength, LenProperties DEF IInv, TypeOK
<1>2. taken \in taken .. Len(stream)
  BY <1>1
<1>3. s \in Seq(Byte) /\ Len(s) = taken /\ \A k \in 1 .. taken : s[k] = stream[k]
  BY <1>1, <1>2, ReadToIs
<1>4. i \in 1 .. taken + 1
  BY <1>1
<1>5. Scan(s)[i] = ScanAt(s, i, Scan(s))
  BY <1>3, <1>4, ScanUnfolds
<1> HIDE DEF s
<1>6. Scan(s)[i] = <<>>
  <2>1. CASE buffer = <<>>
    <3>1. i > Len(s)
      BY <1>1, <1>3, <2>1, EmptySeq
    <3>. QED
      BY <1>5, <3>1 DEF ScanAt
  <2>2. CASE buffer # <<>> /\ buffer[1] = START /\ ~Complete(buffer)
    <3>1. Len(buffer) >= 1
      BY <1>1, <2>2, EmptySeq DEF TypeOK
    <3>2. s[i] = START /\ ~(i > Len(s))
      BY <1>1, <1>3, <2>2, <3>1
    <3>3. ~CompleteAt(s, i)
      <4> SUFFICES ASSUME CompleteAt(s, i) PROVE FALSE
        OBVIOUS
      <4>1. i + 3 <= taken /\ i + s[i + 2] + 3 <= taken + 0
        <5>1. i + 3 <= Len(s) /\ i + s[i + 2] + 4 - 1 <= Len(s)
          BY <1>1 DEF CompleteAt, HeaderAndChecksum
        <5>2. s[i + 2] \in Nat
          <6>1. i + 2 \in 1 .. Len(s)
            BY <1>1, <1>3, <5>1
          <6>2. s[i + 2] \in Byte
            BY <1>3, <6>1, ElementOfSeq
          <6>. QED
            BY <6>2, CodecAssumption DEF Byte
        <5>. QED
          BY <1>1, <1>3, <5>1, <5>2
      <4>2. Len(buffer) >= 4
        BY <1>1, <4>1
      <4>3. buffer[3] = s[i + 2]
        <5>1. 3 \in 1 .. Len(buffer) /\ consumed + 3 \in 1 .. taken /\ i + 2 = consumed + 3
          BY <1>1, <4>2
        <5>. QED
          BY <1>1, <1>3, <5>1
      <4>4. buffer[3] \in Nat
        <5>1. buffer[3] \in Byte
          BY <1>1, <4>2, ElementOfSeq DEF TypeOK
        <5>. QED
          BY <5>1, CodecAssumption DEF Byte
      <4>5. Len(buffer) >= buffer[3] + 4
        BY <1>1, <4>1, <4>3, <4>4
      <4>. QED
        BY <2>2, <4>2, <4>5 DEF Complete, TotalLength, HeaderAndChecksum
    <3>. QED
      BY <1>5, <3>2, <3>3 DEF ScanAt
  <2>. QED
    BY <1>1, <2>1, <2>2 DEF Waiting
<1>7. Scan(s)[1] = frames \o Scan(s)[i]
  BY <1>2 DEF ScanContinues, s
<1>8. frames \in Seq(Delivered)
  BY <1>1, FramesAreDelivered DEF FramesTyped
<1>9. frames \o <<>> = frames
  BY <1>8, ConcatEmptySeq
<1>. QED
  BY <1>6, <1>7, <1>9 DEF FramesIn, s, ReadTo

\* How the driver cuts the bytes into chunks makes no difference, for every
\* stream, every chunk size and every width of a byte: what listen_loop has
\* been given by metis_try_extract_frame when it is back at read() is what one
\* pass over all the bytes would find.
THEOREM ReaderChunkingIrrelevant == Spec => []ChunkingIrrelevant
<1>1. Init => ScanInv
  BY InitIInv, InitScan DEF ScanInv
<1>2. ScanInv /\ [Next]_vars => ScanInv'
  BY NextScan
<1>3. ScanInv => ChunkingIrrelevant
  BY NothingLeft
<1>. QED
  BY <1>1, <1>2, <1>3, PTL DEF Spec

-----------------------------------------------------------------------------
(***************************************************************************)
(* A line of frames: FlattenSeq, one sequence at a time.                   *)
(***************************************************************************)
\* flatten of FlattenSeq, on the first n sequences of q.
Flattens(q, n, f) == f = [i \in 1 .. n |-> IF i = 1 THEN q[i] ELSE f[i - 1] \o q[i]]

LEMMA FlattenExists ==
    ASSUME NEW q, NEW n \in Nat
    PROVE  \E f : Flattens(q, n, f)
<1> DEFINE Fails == {k \in Nat : ~\E f : Flattens(q, k, f)}
<1>1. Flattens(q, 0, [i \in 1 .. 0 |-> <<>>])
  BY DEF Flattens
<1>2. ASSUME NEW k \in Nat, NEW f, Flattens(q, k, f)
      PROVE  \E g : Flattens(q, k + 1, g)
  <2> DEFINE last == IF k = 0 THEN q[1] ELSE f[k] \o q[k + 1]
             g == [i \in 1 .. k + 1 |-> IF i = k + 1 THEN last ELSE f[i]]
  <2>1. \A i \in 1 .. k : f[i] = IF i = 1 THEN q[i] ELSE f[i - 1] \o q[i]
    BY <1>2 DEF Flattens
  <2>2. \A i \in 1 .. k : g[i] = f[i]
    OBVIOUS
  <2>3. g[k + 1] = last
    OBVIOUS
  <2>4. g = [i \in 1 .. k + 1 |-> g[i]]
    OBVIOUS
  <2> HIDE DEF g
  <2>5. ASSUME NEW i \in 1 .. k + 1
        PROVE  g[i] = IF i = 1 THEN q[i] ELSE g[i - 1] \o q[i]
    <3>1. CASE i = k + 1 /\ k = 0
      BY <2>3, <3>1
    <3>2. CASE i = k + 1 /\ k # 0
      <4>1. i # 1 /\ i - 1 = k /\ k \in 1 .. k
        BY <3>2
      <4>. QED
        BY <2>2, <2>3, <3>2, <4>1
    <3>3. CASE i \in 1 .. k
      <4>1. i = 1 \/ i - 1 \in 1 .. k
        BY <3>3
      <4>. QED
        BY <2>1, <2>2, <3>3, <4>1
    <3>. QED
      BY <3>1, <3>2, <3>3
  <2>6. g = [i \in 1 .. k + 1 |-> IF i = 1 THEN q[i] ELSE g[i - 1] \o q[i]]
    BY <2>4, <2>5, Zenon
  <2>. QED
    BY <2>6 DEF Flattens
<1>3. Fails = {}
  <2>1. SUFFICES ASSUME Fails # {} PROVE FALSE
    OBVIOUS
  <2>2. Fails \in SUBSET Nat
    OBVIOUS
  <2> HIDE DEF Fails
  <2>3. PICK m \in Fails : \A k \in Fails : m <= k
    BY <2>1, <2>2, LeastOf
  <2> USE DEF Fails
  <2>4. m # 0 /\ m \in Nat
    BY <1>1
  <2>5. m - 1 \in Nat /\ (m - 1) + 1 = m /\ ~(m <= m - 1)
    BY <2>4
  <2>6. \E f : Flattens(q, m - 1, f)
    BY <2>3, <2>5
  <2>. QED
    BY <1>2, <2>5, <2>6
<1>. QED
  BY <1>3

LEMMA FlattenAgrees ==
    ASSUME NEW p, NEW q, NEW m \in Nat, NEW n \in Nat, m <= n,
           NEW f, NEW g, Flattens(p, m, f), Flattens(q, n, g), \A i \in 1 .. m : p[i] = q[i]
    PROVE  \A i \in 1 .. m : f[i] = g[i]
<1> DEFINE Differ == {i \in 1 .. m : f[i] # g[i]}
<1>1. \A i \in 1 .. m : f[i] = IF i = 1 THEN p[i] ELSE f[i - 1] \o p[i]
  BY DEF Flattens
<1>2. \A i \in 1 .. m : g[i] = IF i = 1 THEN q[i] ELSE g[i - 1] \o q[i]
  <2>1. \A i \in 1 .. n : g[i] = IF i = 1 THEN q[i] ELSE g[i - 1] \o q[i]
    BY DEF Flattens
  <2>2. \A i \in 1 .. m : i \in 1 .. n
    OBVIOUS
  <2>. QED
    BY <2>1, <2>2
<1>3. SUFFICES ASSUME Differ # {} PROVE FALSE
  OBVIOUS
<1>4. Differ \in SUBSET Nat
  OBVIOUS
<1> HIDE DEF Differ
<1>5. PICK k \in Differ : \A i \in Differ : k <= i
  BY <1>3, <1>4, LeastOf
<1> USE DEF Differ
<1>6. k \in 1 .. m /\ f[k] # g[k]
  OBVIOUS
<1>7. CASE k = 1
  BY <1>1, <1>2, <1>6, <1>7
<1>8. CASE k # 1
  <2>1. k - 1 \in 1 .. m /\ ~(k <= k - 1)
    BY <1>6, <1>8
  <2>2. f[k - 1] = g[k - 1]
    BY <1>5, <2>1
  <2>. QED
    BY <1>1, <1>2, <1>6, <1>8, <2>2
<1>. QED
  BY <1>7, <1>8

LEMMA FlattenSeqIs ==
    ASSUME NEW q, Len(q) \in Nat \ {0}, NEW f, Flattens(q, Len(q), f)
    PROVE  FlattenSeq(q) = f[Len(q)]
<1> DEFINE g == CHOOSE g : Flattens(q, Len(q), g)
<1>1. Flattens(q, Len(q), g)
  BY FlattenExists
<1>2. FlattenSeq(q) = g[Len(q)]
  BY DEF FlattenSeq, Flattens
<1> HIDE DEF g
<1>3. \A i \in 1 .. Len(q) : f[i] = g[i]
  BY <1>1, FlattenAgrees
<1>. QED
  BY <1>2, <1>3

\* The last sequence comes behind all the others.
LEMMA FlattenLast ==
    ASSUME NEW p, NEW q, NEW n \in Nat \ {0}, Len(q) = n, Len(p) = n - 1,
           \A i \in 1 .. n - 1 : p[i] = q[i], n = 1 => p = <<>>, <<>> \o q[n] = q[n]
    PROVE  FlattenSeq(q) = FlattenSeq(p) \o q[n]
<1>1. PICK f : Flattens(q, n, f)
  BY FlattenExists
<1>2. FlattenSeq(q) = f[n] /\ f[n] = IF n = 1 THEN q[n] ELSE f[n - 1] \o q[n]
  <2>1. Len(q) \in Nat \ {0} /\ Flattens(q, Len(q), f)
    BY <1>1
  <2>2. \A i \in 1 .. n : f[i] = IF i = 1 THEN q[i] ELSE f[i - 1] \o q[i]
    BY <1>1 DEF Flattens
  <2>3. n \in 1 .. n
    OBVIOUS
  <2>4. FlattenSeq(q) = f[Len(q)]
    BY <2>1, FlattenSeqIs
  <2>. QED
    BY <2>2, <2>3, <2>4
<1>3. CASE n = 1
  <2>1. FlattenSeq(p) = <<>>
    BY <1>3 DEF FlattenSeq
  <2>. QED
    BY <1>2, <1>3, <2>1
<1>4. CASE n # 1
  <2>1. n - 1 \in Nat \ {0} /\ n - 1 <= n /\ n - 1 \in 1 .. n - 1 /\ n - 1 \in Nat
    BY <1>4
  <2>2. PICK g : Flattens(p, n - 1, g)
    BY <2>1, FlattenExists
  <2>3. FlattenSeq(p) = g[n - 1]
    BY <2>1, <2>2, FlattenSeqIs
  <2>4. g[n - 1] = f[n - 1]
    BY <1>1, <2>1, <2>2, FlattenAgrees
  <2>. QED
    BY <1>2, <1>4, <2>3, <2>4
<1>. QED
  BY <1>3, <1>4

-----------------------------------------------------------------------------
(***************************************************************************)
(* A frame as it is built.                                                 *)
(***************************************************************************)
\* Bytes, and whatever the checksum of bytes is.
Octet == Byte \cup {Checksum(bytes) : bytes \in Seq(Byte)}

LEMMA FrameIs ==
    ASSUME NEW f \in Frames
    PROVE  /\ Frame(f) \in Seq(Octet) /\ Len(Frame(f)) = Len(f.payload) + HeaderAndChecksum
           /\ Len(f.payload) \in 0 .. MaxByte
           /\ Frame(f)[1] = START /\ Frame(f)[3] = Len(f.payload)
           /\ ChecksumHolds(Frame(f))
           /\ FrameOf(Frame(f)) = [command |-> f.command, payload |-> f.payload]
<1> DEFINE p == f.payload  c == f.command
<1>1. p \in Seq(Byte) /\ Len(p) \in 0 .. MaxByte /\ c \in Byte
  BY LenProperties DEF Frames
<1>2. START \in Byte /\ Len(p) \in Byte
  BY <1>1, CodecAssumption DEF START, Byte
<1>3. Len(p) % (MaxByte + 1) = Len(p)
  <2>1. \A a, b \in Nat : a < b => a % b = a
    OBVIOUS
  <2>2. Len(p) \in Nat /\ MaxByte + 1 \in Nat /\ Len(p) < MaxByte + 1
    BY <1>1, CodecAssumption
  <2>. QED
    BY <2>1, <2>2
<1> DEFINE head == <<START, c, Len(p)>>  body == head \o p  sum == Checksum(body)
<1>4. Frame(f) = Append(body, sum)
  BY <1>3 DEF Frame, BuildFrame
<1>5. head \in Seq(Byte) /\ Len(head) = 3 /\ head[1] = START /\ head[2] = c /\ head[3] = Len(p)
  BY <1>1, <1>2
<1> HIDE DEF p, c, head
<1>6. /\ body \in Seq(Byte) /\ Len(body) = Len(p) + 3
      /\ body[1] = START /\ body[2] = c /\ body[3] = Len(p)
      /\ \A i \in 1 .. Len(p) : body[3 + i] = p[i]
  <2>1. /\ body \in Seq(Byte) /\ Len(body) = 3 + Len(p)
        /\ \A i \in 1 .. 3 + Len(p) : body[i] = IF i <= 3 THEN head[i] ELSE p[i - 3]
    <3>1. /\ head \o p \in Seq(Byte) /\ Len(head \o p) = Len(head) + Len(p)
          /\ \A i \in 1 .. Len(head) + Len(p) :
                (head \o p)[i] = IF i <= Len(head) THEN head[i] ELSE p[i - Len(head)]
      BY <1>1, <1>5, ConcatProperties
    <3>. QED
      BY <1>5, <3>1
  <2>2. \A i \in 1 .. Len(p) : 3 + i \in 1 .. 3 + Len(p) /\ ~(3 + i <= 3) /\ 3 + i - 3 = i
    BY <1>1
  <2>3. 1 \in 1 .. 3 + Len(p) /\ 2 \in 1 .. 3 + Len(p) /\ 3 \in 1 .. 3 + Len(p)
    BY <1>1
  <2> HIDE DEF body
  <2>. QED
    BY <1>1, <1>5, <2>1, <2>2, <2>3
<1>7. body \in Seq(Octet) /\ sum \in Octet
  <2>1. Byte \subseteq Octet /\ sum \in Octet
    BY <1>6 DEF Octet
  <2>. QED
    BY <1>6, <2>1, SeqMonotonic
<1> HIDE DEF body, sum
<1> DEFINE raw == Append(body, sum)
<1>8. /\ raw \in Seq(Octet) /\ Len(raw) = Len(body) + 1
      /\ \A i \in 1 .. Len(body) : raw[i] = body[i]
      /\ raw[Len(body) + 1] = sum
  BY <1>7, AppendProperties
<1> HIDE DEF raw
<1>9. Len(raw) = Len(p) + 4 /\ Len(raw) - 1 = Len(body) /\ Len(body) \in Nat /\ Len(raw) \in Nat
  BY <1>1, <1>6, <1>8
<1>10. SubSeq(raw, 1, Len(raw) - 1) = body
  <2>1. \A i \in 1 .. Len(body) : raw[i] \in Octet
    BY <1>7, <1>8, ElementOfSeq
  <2>2. Len(body) >= 1
    BY <1>1, <1>6
  <2>3. /\ SubSeq(raw, 1, Len(body)) \in Seq(Octet) /\ Len(SubSeq(raw, 1, Len(body))) = Len(body)
        /\ \A i \in 1 .. Len(body) : SubSeq(raw, 1, Len(body))[i] = raw[i]
    BY <1>9, <2>1, <2>2, SubSeqProperties
  <2>4. SubSeq(raw, 1, Len(body)) = body
    BY <1>7, <1>8, <2>3, SeqEqual
  <2>. QED
    BY <1>9, <2>4
<1>11. ChecksumHolds(raw)
  <2>1. raw[Len(raw)] = sum
    BY <1>8
  <2>. QED
    BY <1>10, <2>1 DEF ChecksumHolds, sum
<1>12. SubSeq(raw, 4, Len(raw) - 1) = p
  <2>1. \A i \in 1 .. Len(p) : 3 + i \in 1 .. Len(body)
    BY <1>1, <1>6
  <2>2. \A i \in 1 .. Len(p) : raw[3 + i] = p[i]
    BY <1>6, <1>8, <2>1
  <2>3. CASE Len(p) = 0
    <3>1. p = <<>> /\ Len(raw) - 1 < 4
      BY <1>1, <1>9, <2>3, EmptySeq
    <3>. QED
      BY <1>9, <3>1, SubSeqEmpty
  <2>4. CASE Len(p) # 0
    <3> DEFINE t == SubSeq(raw, 4, Len(raw) - 1)
    <3>1. \A i \in 4 .. Len(raw) - 1 : raw[i] \in Octet
      BY <1>8, <1>9, ElementOfSeq
    <3>2. 4 <= Len(raw) - 1 /\ Len(raw) - 1 - 4 + 1 = Len(p) /\ Len(raw) - 1 \in Int
      BY <1>1, <1>9, <2>4
    <3>3. /\ t \in Seq(Octet) /\ Len(t) = Len(p)
          /\ \A i \in 1 .. Len(p) : t[i] = raw[4 + i - 1]
      BY <3>1, <3>2, SubSeqProperties
    <3>4. \A i \in 1 .. Len(p) : 4 + i - 1 = 3 + i
      BY <1>1
    <3>5. \A i \in 1 .. Len(p) : t[i] = p[i]
      BY <2>2, <3>3, <3>4
    <3>6. p \in Seq(Octet)
      BY <1>1, SeqMonotonic DEF Octet, p
    <3> HIDE DEF t
    <3>. QED
      BY <3>3, <3>5, <3>6, SeqEqual DEF t
  <2>. QED
    BY <2>3, <2>4
<1>13. raw[1] = START /\ raw[2] = c /\ raw[3] = Len(p)
  <2>1. 1 \in 1 .. Len(body) /\ 2 \in 1 .. Len(body) /\ 3 \in 1 .. Len(body)
    BY <1>1, <1>6
  <2>. QED
    BY <1>6, <1>8, <2>1
<1>14. FrameOf(raw) = [command |-> c, payload |-> p]
  BY <1>12, <1>13 DEF FrameOf
<1>15. raw = Frame(f)
  BY <1>4 DEF raw
<1>. QED
  BY <1>1, <1>8, <1>9, <1>11, <1>13, <1>14, <1>15 DEF p, c, HeaderAndChecksum

-----------------------------------------------------------------------------
(***************************************************************************)
(* Where the frames of a line are.                                         *)
(***************************************************************************)
LEMMA Prefix ==
    ASSUME NEW S, NEW fs \in Seq(S), NEW k \in 0 .. Len(fs)
    PROVE  /\ SubSeq(fs, 1, k) \in Seq(S) /\ Len(SubSeq(fs, 1, k)) = k
           /\ \A i \in 1 .. k : SubSeq(fs, 1, k)[i] = fs[i]
<1>1. Len(fs) \in Nat /\ \A i \in 1 .. Len(fs) : fs[i] \in S
  BY ElementOfSeq, LenProperties
<1>2. CASE k = 0
  <2>1. SubSeq(fs, 1, 0) = <<>>
    BY SubSeqEmpty
  <2>. QED
    BY <1>2, <2>1, EmptySeq
<1>3. CASE k # 0
  <2>1. k \in Nat /\ 1 <= k /\ k - 1 + 1 = k /\ \A i \in 1 .. k : fs[i] \in S /\ 1 + i - 1 = i
    BY <1>1, <1>3
  <2>2. /\ SubSeq(fs, 1, k) \in Seq(S) /\ Len(SubSeq(fs, 1, k)) = k - 1 + 1
        /\ \A i \in 1 .. k - 1 + 1 : SubSeq(fs, 1, k)[i] = fs[1 + i - 1]
    BY <2>1, SubSeqProperties
  <2>. QED
    BY <2>1, <2>2
<1>. QED
  BY <1>2, <1>3

Pieces(fs) == [k \in DOMAIN fs |-> Frame(fs[k])]

LEMMA PiecesAre ==
    ASSUME NEW fs \in Seq(Frames)
    PROVE  /\ BytesOf(fs) = FlattenSeq(Pieces(fs)) /\ Len(Pieces(fs)) = Len(fs)
           /\ \A k \in 1 .. Len(fs) : Pieces(fs)[k] = Frame(fs[k]) /\ Frame(fs[k]) \in Seq(Octet)
           /\ Len(fs) = 0 => Pieces(fs) = <<>>
<1>1. Len(fs) \in Nat /\ DOMAIN fs = 1 .. Len(fs) /\ \A k \in 1 .. Len(fs) : fs[k] \in Frames
  BY ElementOfSeq, LenProperties
<1>2. \A k \in 1 .. Len(fs) : Frame(fs[k]) \in Seq(Octet)
  BY <1>1, FrameIs
<1> DEFINE n == Len(fs)
           q == [k \in 1 .. n |-> Frame(fs[k])]
<1>3. q = Pieces(fs)
  BY <1>1 DEF Pieces
<1>4. q \in Seq(Seq(Octet)) /\ Len(q) = n
  <2>1. n \in Nat /\ \A k \in 1 .. n : Frame(fs[k]) \in Seq(Octet)
    BY <1>1, <1>2
  <2> HIDE DEF n
  <2>. QED
    BY <2>1, LenProperties
<1>5. n = 0 => q = <<>>
  <2> HIDE DEF q
  <2>. QED
    BY <1>4, EmptySeq
<1>. QED
  BY <1>2, <1>3, <1>4, <1>5 DEF BytesOf, Pieces

LEMMA BytesOfNone == BytesOf(<<>>) = <<>>
<1>1. <<>> \in Seq(Frames) /\ Len(<<>>) = 0
  BY EmptySeq
<1>2. BytesOf(<<>>) = FlattenSeq(Pieces(<<>>)) /\ Pieces(<<>>) = <<>>
  BY <1>1, PiecesAre
<1>. QED
  BY <1>1, <1>2 DEF FlattenSeq

\* The bytes of the first k frames.
BytesTo(fs, k) == BytesOf(SubSeq(fs, 1, k))

LEMMA BytesGrow ==
    ASSUME NEW fs \in Seq(Frames), NEW k \in 1 .. Len(fs)
    PROVE  BytesTo(fs, k) = BytesTo(fs, k - 1) \o Frame(fs[k])
<1> DEFINE u == SubSeq(fs, 1, k)  v == SubSeq(fs, 1, k - 1)
<1>1. k - 1 \in 0 .. Len(fs) /\ k \in 0 .. Len(fs) /\ k \in Nat \ {0}
  BY LenProperties
<1>2. u \in Seq(Frames) /\ Len(u) = k /\ \A i \in 1 .. k : u[i] = fs[i]
  BY <1>1, Prefix
<1>3. v \in Seq(Frames) /\ Len(v) = k - 1 /\ \A i \in 1 .. k - 1 : v[i] = fs[i]
  BY <1>1, Prefix
<1> HIDE DEF u, v
<1> DEFINE p == Pieces(v)  q == Pieces(u)
<1>4. /\ BytesOf(u) = FlattenSeq(q) /\ Len(q) = k
      /\ \A i \in 1 .. k : q[i] = Frame(u[i]) /\ Frame(u[i]) \in Seq(Octet)
  BY <1>2, PiecesAre
<1>5. /\ BytesOf(v) = FlattenSeq(p) /\ Len(p) = k - 1 /\ (k - 1 = 0 => p = <<>>)
      /\ \A i \in 1 .. k - 1 : p[i] = Frame(v[i])
  BY <1>3, PiecesAre
<1> HIDE DEF p, q
<1>6. \A i \in 1 .. k - 1 : p[i] = q[i]
  <2>1. \A i \in 1 .. k - 1 : i \in 1 .. k
    BY <1>1
  <2>. QED
    BY <1>2, <1>3, <1>4, <1>5, <2>1
<1>7. q[k] = Frame(fs[k]) /\ q[k] \in Seq(Octet)
  BY <1>1, <1>2, <1>4
<1>8. k = 1 => p = <<>>
  BY <1>5
<1>9. FlattenSeq(q) = FlattenSeq(p) \o q[k]
  <2>1. /\ k \in Nat \ {0} /\ Len(q) = k /\ Len(p) = k - 1 /\ (k = 1 => p = <<>>)
        /\ <<>> \o q[k] = q[k] /\ \A i \in 1 .. k - 1 : p[i] = q[i]
    BY <1>1, <1>4, <1>5, <1>6, <1>7, <1>8, ConcatEmptySeq
  <2>. QED
    BY ONLY <2>1, FlattenLast
<1>. QED
  BY <1>4, <1>5, <1>7, <1>9 DEF BytesTo, u, v

LEMMA BytesToTyped ==
    ASSUME NEW fs \in Seq(Frames)
    PROVE  /\ BytesTo(fs, 0) = <<>> /\ BytesTo(fs, Len(fs)) = BytesOf(fs)
           /\ \A k \in 0 .. Len(fs) : BytesTo(fs, k) \in Seq(Octet)
<1> DEFINE Fails == {k \in 0 .. Len(fs) : BytesTo(fs, k) \notin Seq(Octet)}
<1>1. Len(fs) \in Nat /\ \A i \in 1 .. Len(fs) : fs[i] \in Frames
  BY ElementOfSeq, LenProperties
<1>2. BytesTo(fs, 0) = <<>>
  <2>1. SubSeq(fs, 1, 0) = <<>>
    BY SubSeqEmpty
  <2>. QED
    BY <2>1, BytesOfNone DEF BytesTo
<1>3. BytesTo(fs, Len(fs)) = BytesOf(fs)
  <2> DEFINE u == SubSeq(fs, 1, Len(fs))
  <2>1. u \in Seq(Frames) /\ Len(u) = Len(fs) /\ \A i \in 1 .. Len(fs) : u[i] = fs[i]
    BY <1>1, Prefix
  <2> HIDE DEF u
  <2>2. u = fs
    BY <2>1, SeqEqual
  <2>. QED
    BY <2>2 DEF BytesTo, u
<1>4. Fails = {}
  <2>1. SUFFICES ASSUME Fails # {} PROVE FALSE
    OBVIOUS
  <2>2. Fails \in SUBSET Nat
    BY <1>1
  <2> HIDE DEF Fails
  <2>3. PICK m \in Fails : \A k \in Fails : m <= k
    BY <2>1, <2>2, LeastOf
  <2> USE DEF Fails
  <2>4. m \in 0 .. Len(fs) /\ m # 0
    BY <1>2, EmptySeq
  <2>5. m \in 1 .. Len(fs) /\ m - 1 \in 0 .. Len(fs) /\ ~(m <= m - 1)
    BY <1>1, <2>4
  <2>6. BytesTo(fs, m - 1) \in Seq(Octet)
    BY <2>3, <2>5
  <2>7. Frame(fs[m]) \in Seq(Octet)
    BY <1>1, <2>5, FrameIs
  <2>8. BytesTo(fs, m - 1) \o Frame(fs[m]) \in Seq(Octet)
    <3> DEFINE a == BytesTo(fs, m - 1)  b == Frame(fs[m])
    <3> HIDE DEF a, b
    <3>1. a \in Seq(Octet) /\ b \in Seq(Octet)
      BY <2>6, <2>7 DEF a, b
    <3>2. a \o b \in Seq(Octet)
      BY <3>1, ConcatProperties
    <3>. QED
      BY <3>2 DEF a, b
  <2>9. BytesTo(fs, m) \in Seq(Octet)
    BY <2>5, <2>8, BytesGrow
  <2>. QED
    BY <2>9
<1>. QED
  BY <1>2, <1>3, <1>4

\* The ends of the frames, one after the other.
LEMMA EndsGrow ==
    ASSUME NEW fs \in Seq(Frames), NEW ahead \in Nat
    PROVE  /\ EndOf(fs, 0, ahead) = ahead
           /\ EndOf(fs, Len(fs), ahead) = ahead + Len(BytesOf(fs))
           /\ \A k \in 0 .. Len(fs) : EndOf(fs, k, ahead) \in Nat
           /\ \A k \in 1 .. Len(fs) :
                 /\ EndOf(fs, k, ahead) = EndOf(fs, k - 1, ahead) + Len(Frame(fs[k]))
                 /\ EndOf(fs, k - 1, ahead) < EndOf(fs, k, ahead)
<1>1. Len(fs) \in Nat /\ \A i \in 1 .. Len(fs) : fs[i] \in Frames
  BY ElementOfSeq, LenProperties
<1>2. \A k \in 0 .. Len(fs) : Len(BytesTo(fs, k)) \in Nat /\ BytesTo(fs, k) \in Seq(Octet)
  BY BytesToTyped, LenProperties
<1>3. ASSUME NEW k \in 1 .. Len(fs)
      PROVE  /\ Len(BytesTo(fs, k)) = Len(BytesTo(fs, k - 1)) + Len(Frame(fs[k]))
             /\ Len(Frame(fs[k])) \in Nat \ {0}
  <2>1. k - 1 \in 0 .. Len(fs)
    BY <1>1
  <2> DEFINE a == BytesTo(fs, k - 1)  b == Frame(fs[k])
  <2>2. a \in Seq(Octet) /\ b \in Seq(Octet) /\ Len(b) = Len(fs[k].payload) + HeaderAndChecksum
        /\ Len(fs[k].payload) \in 0 .. MaxByte
    BY <1>1, <1>2, <2>1, FrameIs
  <2>3. BytesTo(fs, k) = a \o b
    BY BytesGrow
  <2> HIDE DEF a, b
  <2>4. Len(a \o b) = Len(a) + Len(b)
    BY <2>2, ConcatProperties
  <2>5. Len(b) \in Nat \ {0}
    BY <2>2 DEF HeaderAndChecksum
  <2>. QED
    BY <2>3, <2>4, <2>5 DEF a, b
<1>4. \A k : EndOf(fs, k, ahead) = ahead + Len(BytesTo(fs, k))
  BY DEF EndOf, BytesTo
<1>5. EndOf(fs, 0, ahead) = ahead
  BY <1>4, BytesToTyped, EmptySeq
<1>6. EndOf(fs, Len(fs), ahead) = ahead + Len(BytesOf(fs))
  BY <1>4, BytesToTyped
<1>7. \A k \in 0 .. Len(fs) : EndOf(fs, k, ahead) \in Nat
  BY <1>2, <1>4
<1>8. ASSUME NEW k \in 1 .. Len(fs)
      PROVE  /\ EndOf(fs, k, ahead) = EndOf(fs, k - 1, ahead) + Len(Frame(fs[k]))
             /\ EndOf(fs, k - 1, ahead) < EndOf(fs, k, ahead)
  <2>1. k - 1 \in 0 .. Len(fs) /\ k \in 0 .. Len(fs)
    BY <1>1
  <2> DEFINE x == Len(BytesTo(fs, k - 1))  y == Len(BytesTo(fs, k))  z == Len(Frame(fs[k]))
  <2>2. x \in Nat /\ y \in Nat /\ z \in Nat \ {0} /\ y = x + z
    BY <1>2, <1>3, <2>1
  <2>3. EndOf(fs, k, ahead) = ahead + y /\ EndOf(fs, k - 1, ahead) = ahead + x
    BY <1>4
  <2> HIDE DEF x, y, z
  <2>4. ahead + y = ahead + x + z /\ ahead + x < ahead + y
    BY <2>2
  <2>. QED
    BY <2>3, <2>4 DEF z
<1>. QED
  BY <1>5, <1>6, <1>7, <1>8

LEMMA EndsOrdered ==
    ASSUME NEW fs \in Seq(Frames), NEW ahead \in Nat,
           NEW i \in 0 .. Len(fs), NEW j \in 0 .. Len(fs), i <= j
    PROVE  /\ EndOf(fs, i, ahead) <= EndOf(fs, j, ahead)
           /\ i < j => EndOf(fs, i, ahead) < EndOf(fs, j, ahead)
<1> DEFINE E(k) == EndOf(fs, k, ahead)
           Fails == {k \in i .. Len(fs) : ~(E(i) <= E(k) /\ (i < k => E(i) < E(k)))}
<1>1. /\ Len(fs) \in Nat /\ i \in Nat /\ \A k \in 0 .. Len(fs) : E(k) \in Nat
      /\ \A k \in 1 .. Len(fs) : E(k - 1) < E(k)
  <2>1. /\ \A k \in 0 .. Len(fs) : EndOf(fs, k, ahead) \in Nat
        /\ \A k \in 1 .. Len(fs) : EndOf(fs, k - 1, ahead) < EndOf(fs, k, ahead)
    BY EndsGrow
  <2>. QED
    BY <2>1, LenProperties
<1> HIDE DEF E
<1>2. SUFFICES ASSUME Fails # {} PROVE FALSE
  BY <1>1 DEF E
<1>3. Fails \in SUBSET Nat
  BY <1>1
<1> HIDE DEF Fails
<1>4. PICK m \in Fails : \A k \in Fails : m <= k
  BY <1>2, <1>3, LeastOf
<1> USE DEF Fails
<1>5. m \in i .. Len(fs) /\ m # i
  BY <1>1
<1>6. /\ m - 1 \in i .. Len(fs) /\ ~(m <= m - 1) /\ m \in 1 .. Len(fs) /\ i < m
      /\ m - 1 \in 0 .. Len(fs) /\ m \in 0 .. Len(fs)
  BY <1>1, <1>5
<1>7. E(i) <= E(m - 1)
  BY <1>4, <1>6
<1>8. E(m - 1) < E(m) /\ E(m) \in Nat /\ E(m - 1) \in Nat /\ E(i) \in Nat
  BY <1>1, <1>6
<1>9. E(i) <= E(m) /\ E(i) < E(m)
  BY <1>7, <1>8
<1>. QED
  BY <1>9

\* Every byte of the line lies in one of the frames.
LEMMA LiesInFrame ==
    ASSUME NEW fs \in Seq(Frames), NEW ahead \in Nat,
           NEW p \in ahead + 1 .. EndOf(fs, Len(fs), ahead)
    PROVE  \E k \in 1 .. Len(fs) : EndOf(fs, k - 1, ahead) < p /\ p <= EndOf(fs, k, ahead)
<1> DEFINE E(k) == EndOf(fs, k, ahead)
           Reach == {k \in 0 .. Len(fs) : p <= E(k)}
<1>1. Len(fs) \in Nat /\ E(0) = ahead /\ \A k \in 0 .. Len(fs) : E(k) \in Nat
  <2>1. EndOf(fs, 0, ahead) = ahead /\ \A k \in 0 .. Len(fs) : EndOf(fs, k, ahead) \in Nat
    BY EndsGrow
  <2>. QED
    BY <2>1, LenProperties
<1>2. Len(fs) \in Reach /\ Reach \in SUBSET Nat
  BY <1>1
<1> HIDE DEF E, Reach
<1>3. PICK m \in Reach : \A k \in Reach : m <= k
  BY <1>2, LeastOf
<1> USE DEF Reach
<1>4. m \in 1 .. Len(fs) /\ p <= E(m) /\ m - 1 \in 0 .. Len(fs) /\ ~(m <= m - 1)
  <2>1. ~(p <= E(0))
    BY <1>1, EndsGrow DEF E
  <2>. QED
    BY <1>1, <2>1
<1>5. ~(p <= E(m - 1))
  BY <1>3, <1>4
<1>6. E(m - 1) < p
  <2>1. E(m - 1) \in Nat /\ E(Len(fs)) \in Nat
    BY <1>1, <1>4
  <2>2. p \in Int
    BY <2>1 DEF E
  <2>. QED
    BY <1>5, <2>1, <2>2
<1>. QED
  BY <1>4, <1>6 DEF E

\* s carries frame k of fs behind `ahead' bytes.
Carries(s, fs, k, ahead) ==
    /\ EndOf(fs, k, ahead) <= Len(s)
    /\ \A i \in 1 .. Len(Frame(fs[k])) : s[EndOf(fs, k - 1, ahead) + i] = Frame(fs[k])[i]

LEMMA BytesCarry ==
    ASSUME NEW fs \in Seq(Frames), NEW k \in 1 .. Len(fs)
    PROVE  Carries(BytesOf(fs), fs, k, 0)
<1> DEFINE E(j) == EndOf(fs, j, 0)
           w == Len(Frame(fs[k]))
           Fails == {n \in k .. Len(fs) :
                        \E i \in 1 .. w : BytesTo(fs, n)[E(k - 1) + i] # Frame(fs[k])[i]}
<1>1. /\ Len(fs) \in Nat /\ \A j \in 0 .. Len(fs) : E(j) \in Nat /\ E(j) = Len(BytesTo(fs, j))
      /\ \A j \in 1 .. Len(fs) : fs[j] \in Frames
  <2>1. /\ Len(fs) \in Nat /\ \A j \in 0 .. Len(fs) : E(j) \in Nat
        /\ \A j \in 1 .. Len(fs) : fs[j] \in Frames
    BY EndsGrow, LenProperties, ElementOfSeq
  <2>2. \A j \in 0 .. Len(fs) : Len(BytesTo(fs, j)) \in Nat
    BY BytesToTyped, LenProperties
  <2>. QED
    BY <2>1, <2>2 DEF EndOf, BytesTo
<1>2. \A n \in k .. Len(fs) : E(k) <= E(n)
  BY <1>1, EndsOrdered
<1>3. \A n \in k .. Len(fs) : E(n) = E(n - 1) + Len(Frame(fs[n])) /\ E(n - 1) \in Nat
  <2>1. \A n \in k .. Len(fs) : n \in 1 .. Len(fs) /\ n - 1 \in 0 .. Len(fs)
    BY <1>1
  <2>2. \A n \in 1 .. Len(fs) : E(n) = E(n - 1) + Len(Frame(fs[n]))
    BY EndsGrow
  <2> HIDE DEF E
  <2>. QED
    BY <1>1, <2>1, <2>2
<1> HIDE DEF E
<1>4. ASSUME NEW n \in k .. Len(fs)
      PROVE  /\ \A i \in 1 .. E(n - 1) : BytesTo(fs, n)[i] = BytesTo(fs, n - 1)[i]
             /\ \A i \in 1 .. Len(Frame(fs[n])) :
                   BytesTo(fs, n)[E(n - 1) + i] = Frame(fs[n])[i]
  <2> DEFINE a == BytesTo(fs, n - 1)  b == Frame(fs[n])
  <2>1. n \in 1 .. Len(fs) /\ n - 1 \in 0 .. Len(fs)
    BY <1>1
  <2>2. a \in Seq(Octet) /\ b \in Seq(Octet) /\ Len(a) = E(n - 1) /\ BytesTo(fs, n) = a \o b
    BY <1>1, <2>1, BytesToTyped, BytesGrow, FrameIs
  <2> HIDE DEF a, b
  <2>3. \A i \in 1 .. Len(a) + Len(b) : (a \o b)[i] = IF i <= Len(a) THEN a[i] ELSE b[i - Len(a)]
    BY <2>2, ConcatProperties
  <2>4. Len(a) \in Nat /\ Len(b) \in Nat
    BY <2>2, LenProperties
  <2>5. \A i \in 1 .. Len(a) : (a \o b)[i] = a[i]
    BY <2>3, <2>4
  <2>6. \A i \in 1 .. Len(b) : (a \o b)[Len(a) + i] = b[i]
    <3>1. \A i \in 1 .. Len(b) : /\ Len(a) + i \in 1 .. Len(a) + Len(b)
                                 /\ ~(Len(a) + i <= Len(a)) /\ Len(a) + i - Len(a) = i
      BY <2>4
    <3>. QED
      BY <2>3, <3>1
  <2>. QED
    BY <2>2, <2>5, <2>6 DEF a, b
<1>5. Fails = {}
  <2>1. SUFFICES ASSUME Fails # {} PROVE FALSE
    OBVIOUS
  <2>2. Fails \in SUBSET Nat
    BY <1>1
  <2> HIDE DEF Fails
  <2>3. PICK m \in Fails : \A n \in Fails : m <= n
    BY <2>1, <2>2, LeastOf
  <2> USE DEF Fails
  <2>4. m \in k .. Len(fs) /\ m # k
    BY <1>4
  <2>5. m - 1 \in k .. Len(fs) /\ ~(m <= m - 1)
    BY <1>1, <2>4
  <2>6. \A i \in 1 .. w : BytesTo(fs, m - 1)[E(k - 1) + i] = Frame(fs[k])[i]
    BY <2>3, <2>5
  <2>7. \A i \in 1 .. w : E(k - 1) + i \in 1 .. E(m - 1)
    <3>1. E(k) = E(k - 1) + w /\ E(k - 1) \in Nat /\ E(k) <= E(m - 1) /\ w \in Nat
      <4>1. k \in k .. Len(fs)
        BY <1>1
      <4>2. Frame(fs[k]) \in Seq(Octet)
        BY <1>1, FrameIs
      <4>. QED
        BY <1>2, <1>3, <2>5, <4>1, <4>2, LenProperties
    <3>2. E(m - 1) \in Nat
      BY <1>3, <2>4
    <3> HIDE DEF w
    <3>. QED
      BY <3>1, <3>2
  <2>8. \A i \in 1 .. w : BytesTo(fs, m)[E(k - 1) + i] = Frame(fs[k])[i]
    BY <1>4, <2>4, <2>6, <2>7
  <2>. QED
    BY <2>8
<1>6. Len(fs) \in k .. Len(fs) /\ BytesTo(fs, Len(fs)) = BytesOf(fs)
  BY <1>1, BytesToTyped
<1>7. \A i \in 1 .. w : BytesOf(fs)[E(k - 1) + i] = Frame(fs[k])[i]
  BY <1>5, <1>6
<1>8. E(k) <= Len(BytesOf(fs))
  <2>1. Len(fs) \in 0 .. Len(fs)
    BY <1>1
  <2>. QED
    BY <1>1, <1>2, <1>6, <2>1
<1>. QED
  BY <1>7, <1>8 DEF Carries, E

Behind(l) == Len(BytesOf(l.before) \o l.noise)

\* A line of Lines carries its frames and its noise where they were put.
LEMMA LineCarries ==
    ASSUME NEW l \in Lines
    PROVE  /\ StreamOf(l) \in Seq(Byte)
           /\ l.before \in Seq(Frames) /\ l.after \in Seq(Frames) /\ l.noise \in Seq(Byte)
           /\ Behind(l) \in Nat /\ Behind(l) <= Len(StreamOf(l))
           /\ Behind(l) = EndOf(l.before, Len(l.before), 0) + Len(l.noise)
           /\ EndOf(l.after, Len(l.after), Behind(l)) = Len(StreamOf(l))
           /\ \A k \in 1 .. Len(l.before) : Carries(StreamOf(l), l.before, k, 0)
           /\ \A k \in 1 .. Len(l.after) : Carries(StreamOf(l), l.after, k, Behind(l))
           /\ \A i \in 1 .. Len(l.noise) :
                 StreamOf(l)[EndOf(l.before, Len(l.before), 0) + i] = l.noise[i]
<1> DEFINE before == l.before  after == l.after  noise == l.noise
           B == BytesOf(before)  A == BytesOf(after)  s == StreamOf(l)
<1>1. s \in Seq(Byte) /\ before \in Seq(Frames) /\ after \in Seq(Frames) /\ noise \in Seq(Byte)
  BY LineAssumption
<1>2. B \in Seq(Octet) /\ A \in Seq(Octet) /\ noise \in Seq(Octet)
  <2>1. Byte \subseteq Octet
    BY DEF Octet
  <2>2. Len(before) \in 0 .. Len(before) /\ Len(after) \in 0 .. Len(after)
    BY <1>1, LenProperties
  <2>3. B \in Seq(Octet) /\ A \in Seq(Octet)
    BY <1>1, <2>2, BytesToTyped
  <2>. QED
    BY <1>1, <2>1, <2>3, SeqMonotonic
<1>3. s = (B \o noise) \o A /\ Behind(l) = Len(B \o noise)
  BY DEF StreamOf, Behind
<1>4. /\ EndOf(before, Len(before), 0) = Len(B)
      /\ EndOf(after, Len(after), Behind(l)) = Behind(l) + Len(A)
      /\ Len(B) \in Nat /\ Len(A) \in Nat /\ Len(noise) \in Nat
  <2>1. Len(B) \in Nat /\ Len(A) \in Nat /\ Len(noise) \in Nat
    BY <1>2, LenProperties
  <2>2. EndOf(before, Len(before), 0) = 0 + Len(B)
    BY <1>1, EndsGrow
  <2>3. Behind(l) \in Nat
    <3> HIDE DEF B, noise
    <3>1. B \o noise \in Seq(Octet)
      BY <1>2, ConcatProperties
    <3>. QED
      BY <1>3, <3>1, LenProperties
  <2>4. EndOf(after, Len(after), Behind(l)) = Behind(l) + Len(A)
    BY <1>1, <2>3, EndsGrow
  <2>. QED
    BY <2>1, <2>2, <2>4
<1>5. /\ \A k \in 1 .. Len(before) : Carries(B, before, k, 0)
      /\ \A k \in 1 .. Len(after) : Carries(A, after, k, 0)
  BY <1>1, BytesCarry
<1> HIDE DEF before, after, noise, B, A, s
<1>6. /\ Behind(l) = Len(B) + Len(noise) /\ Len(s) = Len(B) + Len(noise) + Len(A)
      /\ \A i \in 1 .. Len(B) : s[i] = B[i]
      /\ \A i \in 1 .. Len(noise) : s[Len(B) + i] = noise[i]
      /\ \A i \in 1 .. Len(A) : s[Len(B) + Len(noise) + i] = A[i]
  <2> DEFINE u == B \o noise
  <2>1. /\ u \in Seq(Octet) /\ Len(u) = Len(B) + Len(noise)
        /\ \A i \in 1 .. Len(B) + Len(noise) :
              u[i] = IF i <= Len(B) THEN B[i] ELSE noise[i - Len(B)]
    BY <1>2, ConcatProperties
  <2> HIDE DEF u
  <2>2. /\ s = u \o A /\ Len(u \o A) = Len(u) + Len(A)
        /\ \A i \in 1 .. Len(u) + Len(A) :
              (u \o A)[i] = IF i <= Len(u) THEN u[i] ELSE A[i - Len(u)]
    BY <1>2, <1>3, <2>1, ConcatProperties DEF u
  <2>3. \A i \in 1 .. Len(B) : /\ i \in 1 .. Len(u) + Len(A) /\ i <= Len(u)
                               /\ i \in 1 .. Len(B) + Len(noise) /\ i <= Len(B)
    BY <1>4, <2>1
  <2>4. \A i \in 1 .. Len(noise) :
            /\ Len(B) + i \in 1 .. Len(u) + Len(A) /\ Len(B) + i <= Len(u)
            /\ Len(B) + i \in 1 .. Len(B) + Len(noise) /\ ~(Len(B) + i <= Len(B))
            /\ Len(B) + i - Len(B) = i
    BY <1>4, <2>1
  <2>5. \A i \in 1 .. Len(A) :
            /\ Len(u) + i \in 1 .. Len(u) + Len(A) /\ ~(Len(u) + i <= Len(u))
            /\ Len(u) + i - Len(u) = i
    BY <1>4, <2>1
  <2>6. \A i \in 1 .. Len(B) : s[i] = B[i]
    BY <2>1, <2>2, <2>3
  <2>7. \A i \in 1 .. Len(noise) : s[Len(B) + i] = noise[i]
    BY <2>1, <2>2, <2>4
  <2>8. \A i \in 1 .. Len(A) : s[Len(u) + i] = A[i]
    BY <2>2, <2>5
  <2>. QED
    BY <1>3, <2>1, <2>2, <2>6, <2>7, <2>8 DEF u
<1>7. ASSUME NEW k \in 1 .. Len(before)
      PROVE  Carries(s, before, k, 0)
  <2> DEFINE e == EndOf(before, k - 1, 0)  w == Len(Frame(before[k]))
  <2>1. EndOf(before, k, 0) <= Len(B) /\ \A i \in 1 .. w : B[e + i] = Frame(before[k])[i]
    BY <1>5 DEF Carries
  <2>2. e \in Nat /\ EndOf(before, k, 0) = e + w /\ EndOf(before, k, 0) \in Nat
    <3>1. k \in 0 .. Len(before) /\ k - 1 \in 0 .. Len(before)
      BY <1>1, LenProperties
    <3>. QED
      BY <1>1, <3>1, EndsGrow
  <2>3. w \in Nat
    BY <1>1, FrameIs, ElementOfSeq, LenProperties
  <2> HIDE DEF e, w
  <2>4. \A i \in 1 .. w : e + i \in 1 .. Len(B)
    BY <1>4, <2>1, <2>2, <2>3
  <2>5. EndOf(before, k, 0) <= Len(s)
    BY <1>4, <1>6, <2>1, <2>2
  <2>. QED
    BY <1>6, <2>1, <2>4, <2>5 DEF Carries, e, w
<1>8. ASSUME NEW k \in 1 .. Len(after)
      PROVE  Carries(s, after, k, Behind(l))
  <2> DEFINE e == EndOf(after, k - 1, 0)  w == Len(Frame(after[k]))
  <2>1. EndOf(after, k, 0) <= Len(A) /\ \A i \in 1 .. w : A[e + i] = Frame(after[k])[i]
    BY <1>5 DEF Carries
  <2>2. e \in Nat /\ EndOf(after, k, 0) = e + w /\ EndOf(after, k, 0) \in Nat
    <3>1. k \in 0 .. Len(after) /\ k - 1 \in 0 .. Len(after)
      BY <1>1, LenProperties
    <3>. QED
      BY <1>1, <3>1, EndsGrow
  <2>3. w \in Nat
    BY <1>1, FrameIs, ElementOfSeq, LenProperties
  <2>4. /\ EndOf(after, k, Behind(l)) = Behind(l) + EndOf(after, k, 0)
        /\ EndOf(after, k - 1, Behind(l)) = Behind(l) + e
    <3>1. \A j, a : EndOf(after, j, a) = a + Len(BytesOf(SubSeq(after, 1, j)))
      BY DEF EndOf
    <3>2. Len(BytesTo(after, k)) \in Nat /\ Len(BytesTo(after, k - 1)) \in Nat
      <4>1. k \in 0 .. Len(after) /\ k - 1 \in 0 .. Len(after)
        BY <1>1, LenProperties
      <4>. QED
        BY <1>1, <4>1, BytesToTyped, LenProperties
    <3>. QED
      BY <3>1, <3>2 DEF BytesTo
  <2> HIDE DEF e, w
  <2>5. \A i \in 1 .. w : e + i \in 1 .. Len(A) /\ Behind(l) + e + i = Len(B) + Len(noise) + (e + i)
    BY <1>4, <1>6, <2>1, <2>2, <2>3
  <2>6. \A i \in 1 .. w : s[Behind(l) + e + i] = Frame(after[k])[i]
    BY <1>6, <2>1, <2>5
  <2>7. EndOf(after, k, Behind(l)) <= Len(s)
    BY <1>4, <1>6, <2>1, <2>2, <2>4
  <2>. QED
    BY <2>4, <2>6, <2>7 DEF Carries, w
<1>9. Behind(l) \in Nat /\ Behind(l) <= Len(s)
  BY <1>4, <1>6
<1>. QED
  BY <1>1, <1>4, <1>6, <1>7, <1>8, <1>9 DEF before, after, noise, s

\* What the reader sees where a frame of the line begins: the frame, as it was built.
Shows(s, c, e, placed) ==
    /\ s[c + 1] = START /\ s[c + 3] \in 0 .. MaxByte /\ e = c + s[c + 3] + 4
    /\ c + Len(RawAt(s, c + 1)) = e /\ ChecksumHolds(RawAt(s, c + 1))
    /\ [at |-> c + 1, frame |-> FrameOf(RawAt(s, c + 1))] = placed

LEMMA FrameThere ==
    ASSUME NEW s \in Seq(Byte), NEW fs \in Seq(Frames), NEW ahead \in Nat,
           NEW k \in 1 .. Len(fs), Carries(s, fs, k, ahead),
           NEW c \in Nat, c = EndOf(fs, k - 1, ahead)
    PROVE  /\ Shows(s, c, EndOf(fs, k, ahead), Placed(fs, k, ahead))
           /\ \A i \in 2 .. Len(Frame(fs[k])) : s[c + i] = Tail(Frame(fs[k]))[i - 1]
<1> DEFINE f == fs[k]  raw == Frame(fs[k])  h == Len(fs[k].payload)  e == EndOf(fs, k, ahead)
<1>1. /\ raw \in Seq(Octet) /\ Len(raw) = h + 4 /\ h \in 0 .. MaxByte
      /\ raw[1] = START /\ raw[3] = h /\ ChecksumHolds(raw)
      /\ FrameOf(raw) = [command |-> f.command, payload |-> f.payload]
  <2>1. f \in Frames
    BY ElementOfSeq
  <2>. QED
    BY <2>1, FrameIs DEF HeaderAndChecksum
<1>2. c \in Nat /\ e = c + Len(raw) /\ Len(s) \in Nat /\ MaxByte \in Nat
  <2>1. k - 1 \in 0 .. Len(fs)
    BY LenProperties
  <2>. QED
    BY <2>1, EndsGrow, LenProperties, CodecAssumption
<1>3. e <= Len(s) /\ \A i \in 1 .. Len(raw) : s[c + i] = raw[i]
  BY DEF Carries
<1>4. Placed(fs, k, ahead)
        = [at |-> c + 1, frame |-> [command |-> f.command, payload |-> f.payload]]
  BY DEF Placed, EndOf
<1> HIDE DEF f, raw, h, e
<1>5. /\ 1 \in 1 .. Len(raw) /\ 3 \in 1 .. Len(raw) /\ Len(raw) \in Nat /\ h \in Nat
      /\ e = c + h + 4 /\ c + 1 \in 1 .. Len(s)
  <2>1. Len(raw) \in Nat /\ h \in Nat
    BY <1>1, <1>2
  <2>2. e = c + h + 4 /\ e <= Len(s)
    BY <1>1, <1>2, <1>3, <2>1
  <2>3. c + 1 \in 1 .. Len(s)
    <3>1. c \in Nat /\ Len(s) \in Nat
      BY <1>2
    <3>. QED
      BY ONLY <2>1, <2>2, <3>1
  <2>4. 1 \in 1 .. Len(raw) /\ 3 \in 1 .. Len(raw)
    BY <1>1, <2>1
  <2>. QED
    BY <2>1, <2>2, <2>3, <2>4
<1>6. s[c + 1] = START /\ s[c + 3] = h
  BY <1>1, <1>3, <1>5
<1>7. c + 1 + 2 = c + 3
  BY <1>2
<1>8. s[c + 1 + 2] = h
  BY <1>6, <1>7
<1>10. RawAt(s, c + 1) = raw
  <2> DEFINE t == SubSeq(s, c + 1, c + Len(raw))
  <2>1. c + 1 + h + 4 - 1 = c + Len(raw)
    <3>1. Len(raw) = h + 4 /\ h \in Nat /\ c \in Nat
      BY <1>1, <1>5
    <3>. QED
      BY ONLY <3>1
  <2>2. RawAt(s, c + 1) = t
    BY <1>8, <2>1 DEF RawAt, HeaderAndChecksum
  <2>3. /\ c + 1 \in Int /\ c + Len(raw) \in Int /\ c + 1 <= c + Len(raw)
        /\ (c + Len(raw)) - (c + 1) + 1 = Len(raw)
        /\ \A i \in 1 .. Len(raw) : (c + 1) + i - 1 = c + i
        /\ \A i \in c + 1 .. c + Len(raw) : i \in 1 .. Len(s)
    <3>1. c + Len(raw) <= Len(s) /\ Len(raw) >= 1
      BY <1>2, <1>3, <1>5
    <3>2. c \in Nat /\ Len(s) \in Nat /\ Len(raw) \in Nat
      BY <1>2, <1>5
    <3>. QED
      BY ONLY <3>1, <3>2
  <2>4. \A i \in c + 1 .. c + Len(raw) : s[i] \in Byte
    BY <2>3, ElementOfSeq
  <2>5. /\ t \in Seq(Byte) /\ Len(t) = (c + Len(raw)) - (c + 1) + 1
        /\ \A i \in 1 .. (c + Len(raw)) - (c + 1) + 1 : t[i] = s[(c + 1) + i - 1]
    <3> DEFINE lo == c + 1  hi == c + Len(raw)
    <3>1. lo \in Int /\ hi \in Int /\ lo <= hi /\ \A i \in lo .. hi : s[i] \in Byte
      BY <2>3, <2>4
    <3> HIDE DEF lo, hi
    <3>2. /\ SubSeq(s, lo, hi) \in Seq(Byte) /\ Len(SubSeq(s, lo, hi)) = hi - lo + 1
          /\ \A i \in 1 .. hi - lo + 1 : SubSeq(s, lo, hi)[i] = s[lo + i - 1]
      BY <3>1, SubSeqProperties
    <3>. QED
      BY <3>2 DEF lo, hi
  <2>6. Len(t) = Len(raw) /\ \A i \in 1 .. Len(raw) : t[i] = raw[i]
    BY <1>3, <2>3, <2>5
  <2>7. t \in Seq(Octet)
    BY <2>5, SeqMonotonic DEF Octet
  <2> HIDE DEF t
  <2>8. t = raw
    BY <1>1, <2>6, <2>7, SeqEqual
  <2>. QED
    BY <2>2, <2>8
<1>11. \A i \in 2 .. Len(raw) : s[c + i] = Tail(raw)[i - 1]
  <2>1. raw # <<>>
    BY <1>1, <1>5, EmptySeq
  <2>2. Len(Tail(raw)) = Len(raw) - 1 /\ \A i \in 1 .. Len(raw) - 1 : Tail(raw)[i] = raw[i + 1]
    BY <1>1, <2>1, HeadTailProperties
  <2>3. \A i \in 2 .. Len(raw) :
           i - 1 \in 1 .. Len(raw) - 1 /\ (i - 1) + 1 = i /\ i \in 1 .. Len(raw)
    BY <1>5
  <2>. QED
    BY <1>3, <2>2, <2>3
<1>12. s[c + 3] \in 0 .. MaxByte /\ e = c + s[c + 3] + 4
  BY <1>1, <1>5, <1>6
<1>13. [at |-> c + 1, frame |-> FrameOf(RawAt(s, c + 1))] = Placed(fs, k, ahead)
  BY <1>1, <1>4, <1>10
<1>14. c + Len(RawAt(s, c + 1)) = e /\ ChecksumHolds(RawAt(s, c + 1))
  BY <1>1, <1>2, <1>10
<1>15. Shows(s, c, e, Placed(fs, k, ahead))
  BY <1>6, <1>12, <1>13, <1>14 DEF Shows
<1>. QED
  BY <1>11, <1>15 DEF e, raw

-----------------------------------------------------------------------------
(***************************************************************************)
(* The reader's walk along the stream s: from c bytes done with and the    *)
(* frames gs delivered to d bytes and the frames hs.                       *)
(***************************************************************************)
Walks(s, c, gs, d, hs) ==
    \/ d = c /\ hs = gs
    \/ /\ c + 1 \in 1 .. Len(s) /\ s[c + 1] # START
       /\ d = c + 1 /\ hs = gs
    \/ /\ c + 1 \in 1 .. Len(s) /\ s[c + 1] = START /\ CompleteAt(s, c + 1)
       /\ d = c + Len(RawAt(s, c + 1))
       /\ hs = IF ChecksumHolds(RawAt(s, c + 1))
               THEN Append(gs, [at |-> c + 1, frame |-> FrameOf(RawAt(s, c + 1))])
               ELSE gs

LEMMA WalksFrame ==
    ASSUME NEW s, NEW c, NEW e, NEW x, Shows(s, c, e, x), NEW gs, NEW d, NEW hs,
           Walks(s, c, gs, d, hs)
    PROVE  d = c \/ (d = e /\ hs = Append(gs, x))
  BY DEF Shows, Walks

LEMMA StepWalks ==
    ASSUME IInv, [Next]_vars
    PROVE  Walks(stream, consumed, frames, consumed', frames') /\ stream' = stream
<1>1. /\ TypeOK /\ Window
      /\ Len(buffer) \in Nat /\ Len(stream) \in Nat /\ Len(buffer) = taken - consumed
      /\ taken \in 0 .. Len(stream) /\ consumed \in 0 .. taken
      /\ \A i \in 1 .. Len(buffer) : buffer[i] = stream[consumed + i]
  BY WindowLength, LenProperties DEF IInv, TypeOK
<1>2. CASE Read \/ ReadNothing \/ AwaitMore \/ UNCHANGED vars
  BY <1>2 DEF Read, ReadNothing, AwaitMore, vars, Walks
<1>3. CASE DropByte
  <2>1. /\ consumed' = consumed + 1
        /\ UNCHANGED <<stream, frames>> /\ buffer # <<>> /\ buffer[1] # START
    BY <1>3 DEF DropByte, Erase
  <2>2. Len(buffer) >= 1
    BY <1>1, <2>1, EmptySeq DEF TypeOK
  <2>3. consumed + 1 \in 1 .. Len(stream) /\ stream[consumed + 1] # START
    BY <1>1, <2>1, <2>2
  <2>. QED
    BY <2>1, <2>3 DEF Walks
<1>4. CASE Discard \/ Deliver
  <2>1. /\ AtHeader /\ Complete(buffer) /\ stream' = stream
        /\ consumed' = consumed + TotalLength(buffer)
        /\ frames' = IF ChecksumHolds(Raw)
                     THEN Append(frames, [at |-> consumed + 1, frame |-> FrameOf(Raw)])
                     ELSE frames
    BY <1>4 DEF Discard, Deliver, Erase
  <2>2. /\ stream[consumed + 1] = START /\ CompleteAt(stream, consumed + 1)
        /\ RawAt(stream, consumed + 1) = Raw /\ Len(Raw) = TotalLength(buffer)
        /\ consumed + 1 \in 1 .. Len(stream)
    <3>1. /\ consumed + TotalLength(buffer) \in consumed + 1 .. Len(stream)
          /\ Len(Raw) = TotalLength(buffer)
      BY <1>1, <2>1, HeaderFacts, RawInStream
    <3>2. consumed + 1 \in 1 .. Len(stream)
      BY <1>1, <3>1
    <3>. QED
      BY <1>1, <2>1, <3>1, <3>2, RawInStream
  <2>. QED
    BY <2>1, <2>2 DEF Walks
<1>. QED
  BY <1>2, <1>3, <1>4 DEF Next, Extract

Has(gs, fs, k, ahead) == \E i \in DOMAIN gs : gs[i] = Placed(fs, k, ahead)

\* The reader is in step with the frames fs: it is in front of them, between two
\* of them or behind them, and has delivered every one that it has begun.
InStep(c, gs, fs, ahead) ==
    /\ \/ c <= ahead
       \/ c >= EndOf(fs, Len(fs), ahead)
       \/ \E k \in 0 .. Len(fs) : c = EndOf(fs, k, ahead)
    /\ \A k \in 1 .. Len(fs) : EndOf(fs, k - 1, ahead) < c => Has(gs, fs, k, ahead)

LEMMA WalksOn ==
    ASSUME NEW s \in Seq(Byte), NEW c \in Nat, NEW d, NEW gs \in Seq(Delivered), NEW hs,
           Walks(s, c, gs, d, hs)
    PROVE  /\ d \in Nat /\ d >= c
           /\ \A fs, k, ahead : Has(gs, fs, k, ahead) => Has(hs, fs, k, ahead)
<1>1. d \in Nat /\ d >= c
  <2>1. CASE CompleteAt(s, c + 1) /\ c + 1 \in 1 .. Len(s) /\ d = c + Len(RawAt(s, c + 1))
    <3>1. Len(RawAt(s, c + 1)) \in Nat
      BY <2>1, RawAtTyped
    <3>. QED
      BY <2>1, <3>1
  <2>. QED
    BY <2>1 DEF Walks
<1>2. ASSUME NEW x, NEW y, \E i \in DOMAIN gs : gs[i] = y
      PROVE  \E i \in DOMAIN Append(gs, x) : Append(gs, x)[i] = y
  <2>1. DOMAIN gs = 1 .. Len(gs) /\ Len(gs) \in Nat
    BY LenProperties
  <2>2. PICK i \in 1 .. Len(gs) : gs[i] = y
    BY <1>2, <2>1
  <2>3. DOMAIN Append(gs, x) = 1 .. Len(gs) + 1 /\ Append(gs, x)[i] = gs[i]
    BY <2>1, <2>2
  <2>4. i \in 1 .. Len(gs) + 1
    BY <2>1, <2>2
  <2>. QED
    BY <2>2, <2>3, <2>4
<1>3. hs = gs \/ \E x : hs = Append(gs, x)
  BY DEF Walks
<1>. QED
  BY <1>1, <1>2, <1>3 DEF Has

LEMMA StaysInStep ==
    ASSUME NEW s \in Seq(Byte), NEW fs \in Seq(Frames), NEW ahead \in Nat,
           \A k \in 1 .. Len(fs) : Carries(s, fs, k, ahead),
           NEW c \in Nat, NEW d, NEW gs \in Seq(Delivered), NEW hs,
           Walks(s, c, gs, d, hs), InStep(c, gs, fs, ahead), c < ahead => d <= ahead
    PROVE  InStep(d, hs, fs, ahead)
<1> DEFINE E(k) == EndOf(fs, k, ahead)  n == Len(fs)
           Got(k) == Has(gs, fs, k, ahead)  Gets(k) == Has(hs, fs, k, ahead)
<1>1. /\ d \in Nat /\ d >= c /\ n \in Nat
      /\ E(0) = ahead /\ \A k \in 0 .. n : E(k) \in Nat
      /\ \A k \in 1 .. n : E(k - 1) < E(k)
      /\ \A k : Got(k) => Gets(k)
  <2>1. /\ EndOf(fs, 0, ahead) = ahead /\ \A k \in 0 .. Len(fs) : EndOf(fs, k, ahead) \in Nat
        /\ \A k \in 1 .. Len(fs) : EndOf(fs, k - 1, ahead) < EndOf(fs, k, ahead)
    BY EndsGrow
  <2>2. d \in Nat /\ d >= c /\ \A k : Has(gs, fs, k, ahead) => Has(hs, fs, k, ahead)
    BY WalksOn
  <2>. QED
    BY <2>1, <2>2, LenProperties
<1>2. \A i, j \in 0 .. n : i <= j => E(i) <= E(j)
  BY EndsOrdered
<1>3. /\ c <= ahead \/ c >= E(n) \/ \E k \in 0 .. n : c = E(k)
      /\ \A k \in 1 .. n : E(k - 1) < c => Got(k)
  BY DEF InStep
<1>4. ASSUME NEW k \in 0 .. n, k < n, c = E(k)
      PROVE  d = c \/ (d = E(k + 1) /\ Gets(k + 1))
  <2> DEFINE m == k + 1
  <2>1. m \in 1 .. Len(fs) /\ m - 1 = k
    BY <1>1, <1>4
  <2> HIDE DEF m
  <2>2. Carries(s, fs, m, ahead) /\ c = EndOf(fs, m - 1, ahead)
    BY <1>4, <2>1
  <2>3. Shows(s, c, EndOf(fs, m, ahead), Placed(fs, m, ahead))
    BY <2>1, <2>2, FrameThere
  <2> USE DEF m
  <2>4. d = c \/ (d = EndOf(fs, k + 1, ahead) /\ hs = Append(gs, Placed(fs, k + 1, ahead)))
    BY <2>3, WalksFrame
  <2>5. CASE hs = Append(gs, Placed(fs, k + 1, ahead))
    <3>1. /\ Len(gs) \in Nat /\ DOMAIN hs = 1 .. Len(gs) + 1
          /\ hs[Len(gs) + 1] = Placed(fs, k + 1, ahead)
      BY <2>5, LenProperties
    <3>2. Len(gs) + 1 \in 1 .. Len(gs) + 1
      BY <3>1
    <3>. QED
      BY <2>4, <3>1, <3>2 DEF Has
  <2>. QED
    BY <2>4, <2>5
<1> HIDE DEF E, Got, Gets, n
<1>5. CASE d = c
  <2>1. /\ d <= ahead \/ d >= E(n) \/ \E k \in 0 .. n : d = E(k)
        /\ \A k \in 1 .. n : E(k - 1) < d => Gets(k)
    BY <1>1, <1>3, <1>5
  <2>. QED
    BY <2>1 DEF InStep, E, n, Gets
<1>6. CASE d <= ahead
  <2>1. \A k \in 1 .. n : k - 1 \in 0 .. n /\ 0 <= k - 1 /\ 0 \in 0 .. n
    BY <1>1
  <2>2. \A k \in 1 .. n : ahead <= E(k - 1) /\ E(k - 1) \in Nat
    BY <1>1, <1>2, <2>1
  <2>3. \A k \in 1 .. n : ~(E(k - 1) < d)
    BY <1>1, <1>6, <2>2
  <2>. QED
    BY <1>6, <2>3 DEF InStep, E, n
<1>7. CASE c >= E(n)
  <2>1. \A k \in 1 .. n : k - 1 \in 0 .. n /\ k \in 0 .. n /\ n \in 0 .. n
    BY <1>1
  <2>2. \A k \in 1 .. n : E(k - 1) < E(k) /\ E(k) <= E(n) /\ E(k - 1) \in Nat /\ E(k) \in Nat
    BY <1>1, <1>2, <2>1
  <2>3. E(n) \in Nat
    BY <1>1
  <2>4. \A k \in 1 .. n : E(k - 1) < c
    BY <1>7, <2>2, <2>3
  <2>5. \A k \in 1 .. n : Gets(k)
    BY <1>1, <1>3, <2>4
  <2>6. d >= E(n)
    BY <1>1, <1>7, <2>3
  <2>. QED
    BY <2>5, <2>6 DEF InStep, E, n, Gets
<1>8. ASSUME NEW k \in 0 .. n, c = E(k), k < n, d = E(k + 1), Gets(k + 1)
      PROVE  InStep(d, hs, fs, ahead)
  <2>1. k + 1 \in 0 .. n
    BY <1>1, <1>8
  <2>2. ASSUME NEW i \in 1 .. n, E(i - 1) < d
        PROVE  Gets(i)
    <3>1. CASE i = k + 1
      BY <1>8, <3>1
    <3>2. CASE i <= k
      <4>1. i \in 0 .. n /\ i - 1 \in 0 .. n
        BY <1>1
      <4>2. E(i - 1) < E(i) /\ E(i) <= E(k) /\ E(i - 1) \in Nat /\ E(i) \in Nat /\ E(k) \in Nat
        BY <1>1, <1>2, <3>2, <4>1
      <4>3. E(i - 1) < c
        BY <1>8, <4>2
      <4>. QED
        BY <1>1, <1>3, <4>3
    <3>3. CASE i >= k + 2
      <4>1. i - 1 \in 0 .. n /\ k + 1 <= i - 1
        BY <1>1, <3>3
      <4>2. E(k + 1) <= E(i - 1) /\ E(k + 1) \in Nat /\ E(i - 1) \in Nat
        BY <1>1, <1>2, <2>1, <4>1
      <4>. QED
        BY <1>8, <2>2, <4>2
    <3>. QED
      BY <1>1, <3>1, <3>2, <3>3
  <2>. QED
    BY <1>8, <2>1, <2>2 DEF InStep, E, n, Gets
<1>9. CASE c < ahead
  BY <1>6, <1>9
<1>10. CASE \E k \in 0 .. n : c = E(k)
  <2>1. PICK k \in 0 .. n : c = E(k)
    BY <1>10
  <2>2. CASE k = n
    <3>1. c >= E(n)
      BY <2>1, <2>2
    <3>. QED
      BY <1>7, <3>1
  <2>3. CASE k < n
    BY <1>4, <1>5, <1>8, <2>1, <2>3
  <2>. QED
    BY <1>1, <2>2, <2>3
<1>11. CASE c = ahead
  <2>1. 0 \in 0 .. n /\ c = E(0)
    BY <1>1, <1>11
  <2>. QED
    BY <1>10, <2>1
<1>. QED
  BY <1>3, <1>7, <1>9, <1>10, <1>11

-----------------------------------------------------------------------------
\* Back at read() with t bytes taken: no whole frame lies behind the c bytes.
Halts(s, c, t) ==
    \/ c = t
    \/ /\ c + 1 \in 1 .. Len(s) /\ s[c + 1] = START
       /\ ~(c + 4 <= t /\ c + s[c + 3] + 4 <= t)

LEMMA ReadingHalts ==
    ASSUME IInv, phase = "reading"
    PROVE  Halts(stream, consumed, taken)
<1>1. /\ TypeOK /\ Window /\ Waiting /\ Len(buffer) \in Nat /\ Len(stream) \in Nat
      /\ Len(buffer) = taken - consumed /\ taken \in 0 .. Len(stream) /\ consumed \in 0 .. taken
      /\ \A i \in 1 .. Len(buffer) : buffer[i] = stream[consumed + i]
  BY WindowLength, LenProperties DEF IInv, TypeOK
<1>2. CASE buffer = <<>>
  <2>1. consumed = taken
    BY <1>1, <1>2, EmptySeq
  <2>. QED
    BY <2>1 DEF Halts
<1>3. CASE buffer # <<>> /\ buffer[1] = START /\ ~Complete(buffer)
  <2>1. Len(buffer) >= 1
    BY <1>1, <1>3, EmptySeq DEF TypeOK
  <2>2. consumed + 1 \in 1 .. Len(stream) /\ stream[consumed + 1] = START
    BY <1>1, <1>3, <2>1
  <2>3. ASSUME consumed + 4 <= taken, consumed + stream[consumed + 3] + 4 <= taken
        PROVE  FALSE
    <3>1. 3 \in 1 .. Len(buffer) /\ Len(buffer) >= 4
      BY <1>1, <2>3
    <3>2. buffer[3] = stream[consumed + 3] /\ buffer[3] \in Byte
      BY <1>1, <3>1, ElementOfSeq DEF TypeOK
    <3>3. buffer[3] \in Nat
      BY <3>2, CodecAssumption DEF Byte
    <3>4. Len(buffer) >= buffer[3] + 4
      BY <1>1, <2>3, <3>2, <3>3
    <3>. QED
      BY <1>3, <3>1, <3>4 DEF Complete, TotalLength, HeaderAndChecksum
  <2>. QED
    BY <2>2, <2>3 DEF Halts
<1>. QED
  BY <1>1, <1>2, <1>3 DEF Waiting

\* The reader halts at a frame only when it does not have all of its bytes.
LEMMA HaltsAtFrame ==
    ASSUME NEW s, NEW c \in Nat, NEW e, NEW x, Shows(s, c, e, x),
           NEW t \in Nat, Halts(s, c, t), c # t
    PROVE  ~(e <= t)
<1> DEFINE h == s[c + 3]
<1>1. h \in 0 .. MaxByte /\ MaxByte \in Nat /\ e = c + h + 4
  BY CodecAssumption DEF Shows
<1>2. ~(c + 4 <= t /\ c + h + 4 <= t)
  BY DEF Halts
<1> HIDE DEF h
<1>. QED
  BY <1>1, <1>2

\* In step and with nothing left to extract, the reader has delivered every frame
\* whose bytes have all been taken.
LEMMA InStepDelivers ==
    ASSUME NEW s \in Seq(Byte), NEW fs \in Seq(Frames), NEW ahead \in Nat,
           \A j \in 1 .. Len(fs) : Carries(s, fs, j, ahead),
           NEW c \in Nat, NEW t \in Nat, NEW gs, InStep(c, gs, fs, ahead), Halts(s, c, t),
           c >= ahead, NEW k \in 1 .. Len(fs), EndOf(fs, k, ahead) <= t
    PROVE  Has(gs, fs, k, ahead)
<1> DEFINE E(j) == EndOf(fs, j, ahead)  n == Len(fs)
<1> SUFFICES ASSUME ~Has(gs, fs, k, ahead) PROVE FALSE
  OBVIOUS
<1>1. /\ n \in Nat /\ E(0) = ahead /\ (\A j \in 0 .. n : E(j) \in Nat)
      /\ E(k - 1) < E(k) /\ k \in 0 .. n /\ k - 1 \in 0 .. n
  <2>1. /\ EndOf(fs, 0, ahead) = ahead /\ \A j \in 0 .. Len(fs) : EndOf(fs, j, ahead) \in Nat
        /\ EndOf(fs, k - 1, ahead) < EndOf(fs, k, ahead)
    BY EndsGrow
  <2>. QED
    BY <2>1, LenProperties
<1>2. \A i, j \in 0 .. n : i <= j => E(i) <= E(j)
  BY EndsOrdered
<1>3. ~(E(k - 1) < c) /\ (c <= ahead \/ c >= E(n) \/ \E j \in 0 .. n : c = E(j))
  BY DEF InStep
<1>4. E(k) <= t
  OBVIOUS
<1> HIDE DEF E, n
<1>5. /\ E(k - 1) \in Nat /\ E(k) \in Nat /\ E(n) \in Nat /\ E(k) <= E(n)
      /\ n \in 0 .. n /\ 0 \in 0 .. n
  <2>1. n \in 0 .. n /\ 0 \in 0 .. n /\ k <= n
    BY <1>1
  <2>. QED
    BY <1>1, <1>2, <2>1
<1>6. c <= E(k - 1) /\ c < t /\ c < E(n)
  BY <1>1, <1>3, <1>4, <1>5
<1>7. PICK j \in 0 .. n : c = E(j)
  <2>1. CASE c <= ahead
    BY <1>1, <1>5, <2>1
  <2>. QED
    BY <1>3, <1>5, <1>6, <2>1
<1>8. j < k
  <2>1. SUFFICES ASSUME k <= j PROVE FALSE
    BY <1>1
  <2>2. E(k) <= E(j)
    BY <1>1, <1>2, <2>1
  <2>. QED
    BY <1>1, <1>5, <1>6, <1>7, <2>2
<1> DEFINE m == j + 1
<1>9. m \in 1 .. n /\ m - 1 = j /\ m \in 0 .. n /\ m <= k
  BY <1>1, <1>8
<1> HIDE DEF m
<1>10. E(m) <= t
  <2>1. E(m) <= E(k) /\ E(m) \in Nat
    BY <1>1, <1>2, <1>9
  <2>. QED
    BY <1>4, <1>5, <2>1
<1>11. m \in 1 .. Len(fs) /\ c = EndOf(fs, m - 1, ahead)
  BY <1>7, <1>9 DEF E, n
<1>12. Shows(s, c, E(m), Placed(fs, m, ahead))
  BY <1>11, FrameThere DEF E
<1>. QED
  BY <1>6, <1>10, <1>12, HaltsAtFrame

-----------------------------------------------------------------------------
(***************************************************************************)
(* Frames without a second start byte.                                     *)
(***************************************************************************)
Plain(fs) == \A k \in 1 .. Len(fs) : ~Contains(Tail(Frame(fs[k])), START)

LEMMA StartsFrame ==
    ASSUME NEW s \in Seq(Byte), NEW fs \in Seq(Frames), NEW ahead \in Nat,
           \A j \in 1 .. Len(fs) : Carries(s, fs, j, ahead), Plain(fs),
           NEW c \in Nat, c >= ahead, c < EndOf(fs, Len(fs), ahead), s[c + 1] = START
    PROVE  \E m \in 1 .. Len(fs) : c = EndOf(fs, m - 1, ahead)
<1> DEFINE p == c + 1
<1>1. EndOf(fs, Len(fs), ahead) \in Nat /\ Len(fs) \in Nat
  <2>1. Len(fs) \in Nat /\ Len(fs) \in 0 .. Len(fs)
    BY LenProperties
  <2>. QED
    BY <2>1, EndsGrow
<1>2. p \in ahead + 1 .. EndOf(fs, Len(fs), ahead)
  BY <1>1
<1> HIDE DEF p
<1>3. PICK m \in 1 .. Len(fs) : EndOf(fs, m - 1, ahead) < p /\ p <= EndOf(fs, m, ahead)
  BY <1>2, LiesInFrame
<1> DEFINE e == EndOf(fs, m - 1, ahead)  raw == Frame(fs[m])
<1>4. /\ e \in Nat /\ EndOf(fs, m, ahead) = e + Len(raw) /\ raw \in Seq(Octet)
      /\ Len(raw) \in Nat
  <2>1. m - 1 \in 0 .. Len(fs) /\ fs[m] \in Frames
    BY <1>1, ElementOfSeq
  <2>. QED
    BY <2>1, EndsGrow, FrameIs, LenProperties
<1>5. \A i \in 2 .. Len(raw) : s[e + i] = Tail(raw)[i - 1]
  <2>1. Carries(s, fs, m, ahead) /\ s \in Seq(Byte) /\ fs \in Seq(Frames)
        /\ ahead \in Nat /\ m \in 1 .. Len(fs)
    OBVIOUS
  <2>2. e \in Nat /\ e = EndOf(fs, m - 1, ahead)
    BY <1>4
  <2> HIDE DEF e
  <2>. QED
    BY ONLY <2>1, <2>2, FrameThere DEF raw
<1>6. ~Contains(Tail(raw), START)
  BY DEF Plain
<1>7. e < p /\ p <= e + Len(raw) /\ p = c + 1
  BY <1>3, <1>4 DEF p
<1> HIDE DEF e, raw
<1>8. c = e
  <2> SUFFICES ASSUME c # e PROVE FALSE
    OBVIOUS
  <2> DEFINE i == c + 1 - e
  <2>1. i \in 2 .. Len(raw) /\ e + i = c + 1 /\ i - 1 \in 1 .. Len(raw) - 1
    BY <1>4, <1>7
  <2>2. Len(Tail(raw)) = Len(raw) - 1
    <3>1. raw # <<>>
      BY <1>4, <2>1, EmptySeq
    <3>. QED
      BY <1>4, <3>1, HeadTailProperties
  <2>3. Tail(raw)[i - 1] = START
    BY <1>5, <2>1
  <2> HIDE DEF i
  <2>. QED
    BY <1>6, <2>1, <2>2, <2>3 DEF Contains
<1>. QED
  BY <1>8 DEF e

\* Every frame of fs that begins after the longest frame could end, and that the
\* reader has begun, is delivered.
InStepLater(c, gs, fs, ahead) ==
    \A k \in 1 .. Len(fs) :
        (EndOf(fs, k - 1, ahead) + 1 >= ahead + MaxFrameLength /\ EndOf(fs, k - 1, ahead) < c)
            => Has(gs, fs, k, ahead)

LEMMA StaysInStepLater ==
    ASSUME NEW s \in Seq(Byte), NEW fs \in Seq(Frames), NEW ahead \in Nat,
           \A k \in 1 .. Len(fs) : Carries(s, fs, k, ahead), Plain(fs),
           NEW c \in Nat, NEW d, NEW gs \in Seq(Delivered), NEW hs,
           Walks(s, c, gs, d, hs), InStepLater(c, gs, fs, ahead)
    PROVE  InStepLater(d, hs, fs, ahead)
<1> SUFFICES ASSUME NEW k \in 1 .. Len(fs), ~Has(hs, fs, k, ahead),
                    EndOf(fs, k - 1, ahead) + 1 >= ahead + MaxFrameLength,
                    EndOf(fs, k - 1, ahead) < d
             PROVE  FALSE
  BY DEF InStepLater
<1> DEFINE E(j) == EndOf(fs, j, ahead)
<1>1. /\ Len(fs) \in Nat /\ d \in Nat /\ ~Has(gs, fs, k, ahead) /\ MaxByte \in Nat
      /\ \A j \in 0 .. Len(fs) : E(j) \in Nat
      /\ k \in 0 .. Len(fs) /\ k - 1 \in 0 .. Len(fs) /\ E(k - 1) < E(k)
  <2>1. (\A j \in 0 .. Len(fs) : EndOf(fs, j, ahead) \in Nat)
        /\ EndOf(fs, k - 1, ahead) < EndOf(fs, k, ahead)
    BY EndsGrow
  <2>2. d \in Nat /\ ~Has(gs, fs, k, ahead)
    BY WalksOn
  <2>. QED
    BY <2>1, <2>2, LenProperties, CodecAssumption
<1>2. \A i, j \in 0 .. Len(fs) : i <= j => E(i) <= E(j)
  BY EndsOrdered
<1>3. ~(E(k - 1) < c) /\ E(k - 1) + 1 >= ahead + MaxByte + 4
  <2>1. ~(E(k - 1) < c)
    BY <1>1 DEF InStepLater
  <2>2. E(k - 1) + 1 >= ahead + (MaxByte + 4)
    BY DEF MaxFrameLength, HeaderAndChecksum
  <2>. QED
    BY <1>1, <2>1, <2>2
<1>4. ASSUME NEW m \in 1 .. Len(fs), c = EndOf(fs, m - 1, ahead)
      PROVE  d = c \/ (d = E(m) /\ hs = Append(gs, Placed(fs, m, ahead)))
  <2>1. Carries(s, fs, m, ahead) /\ s \in Seq(Byte) /\ fs \in Seq(Frames)
        /\ ahead \in Nat /\ c \in Nat /\ m \in 1 .. Len(fs) /\ c = EndOf(fs, m - 1, ahead)
    BY <1>4
  <2>2. Shows(s, c, EndOf(fs, m, ahead), Placed(fs, m, ahead))
    BY <2>1, FrameThere
  <2>. QED
    BY <2>2, WalksFrame
<1>5. EndOf(fs, k - 1, ahead) = E(k - 1)
  OBVIOUS
<1> HIDE DEF E
<1>6. c <= E(k - 1) /\ E(k - 1) < d /\ E(k - 1) \in Nat
  BY <1>1, <1>3, <1>5
<1>7. c # E(k - 1)
  <2> SUFFICES ASSUME c = E(k - 1) PROVE FALSE
    OBVIOUS
  <2>1. hs = Append(gs, Placed(fs, k, ahead))
    BY <1>4, <1>5, <1>6
  <2>2. /\ Len(gs) \in Nat /\ DOMAIN hs = 1 .. Len(gs) + 1
        /\ hs[Len(gs) + 1] = Placed(fs, k, ahead)
    BY <2>1, LenProperties
  <2>3. Len(gs) + 1 \in 1 .. Len(gs) + 1
    BY <2>2
  <2>. QED
    BY <1>1, <2>2, <2>3 DEF Has
<1>8. /\ c + 1 \in 1 .. Len(s) /\ s[c + 1] = START /\ CompleteAt(s, c + 1)
      /\ d = c + Len(RawAt(s, c + 1))
  <2>1. d # c /\ d # c + 1
    BY <1>1, <1>6, <1>7
  <2>. QED
    BY <2>1 DEF Walks
<1>9. c >= ahead
  <2> DEFINE w == Len(RawAt(s, c + 1))  h == s[c + 1 + 2]
  <2>1. h \in 0 .. MaxByte /\ w = h + 4
    BY <1>8, RawAtTyped
  <2>2. d = c + w
    BY <1>8
  <2> HIDE DEF w, h
  <2>. QED
    BY <1>1, <1>3, <1>6, <2>1, <2>2
<1>10. PICK m \in 1 .. Len(fs) : c = EndOf(fs, m - 1, ahead)
  <2>1. c < E(Len(fs))
    <3>1. Len(fs) \in 0 .. Len(fs) /\ k - 1 <= Len(fs)
      BY <1>1
    <3>2. E(k - 1) <= E(Len(fs)) /\ E(Len(fs)) \in Nat
      BY <1>1, <1>2, <3>1
    <3>. QED
      BY <1>6, <1>7, <3>2
  <2>. QED
    BY <1>8, <1>9, <2>1, StartsFrame DEF E
<1>11. d = E(m)
  BY <1>1, <1>4, <1>6, <1>7, <1>10
<1>12. m <= k - 1
  <2> SUFFICES ASSUME k - 1 <= m - 1 PROVE FALSE
    BY <1>1
  <2>1. m - 1 \in 0 .. Len(fs)
    BY <1>1
  <2>2. E(k - 1) <= E(m - 1) /\ E(m - 1) = c
    BY <1>1, <1>2, <1>10, <2>1 DEF E
  <2>. QED
    BY <1>6, <1>7, <2>2
<1>13. E(m) <= E(k - 1) /\ E(m) \in Nat
  <2>1. m \in 0 .. Len(fs)
    BY <1>1
  <2>. QED
    BY <1>1, <1>2, <1>12, <2>1
<1>. QED
  BY <1>6, <1>11, <1>13

LEMMA InStepLaterDelivers ==
    ASSUME NEW s \in Seq(Byte), NEW fs \in Seq(Frames), NEW ahead \in Nat,
           \A j \in 1 .. Len(fs) : Carries(s, fs, j, ahead), Plain(fs),
           NEW c \in Nat, NEW t \in Nat, t <= Len(s), NEW gs,
           InStepLater(c, gs, fs, ahead), Halts(s, c, t),
           NEW k \in 1 .. Len(fs), EndOf(fs, k, ahead) <= t,
           EndOf(fs, k - 1, ahead) + 1 >= ahead + MaxFrameLength
    PROVE  Has(gs, fs, k, ahead)
<1> SUFFICES ASSUME ~Has(gs, fs, k, ahead) PROVE FALSE
  OBVIOUS
<1> DEFINE E(j) == EndOf(fs, j, ahead)
<1>1. /\ Len(fs) \in Nat /\ MaxByte \in Nat /\ Len(s) \in Nat
      /\ \A j \in 0 .. Len(fs) : E(j) \in Nat
      /\ k \in 0 .. Len(fs) /\ k - 1 \in 0 .. Len(fs) /\ E(k - 1) < E(k)
  <2>1. (\A j \in 0 .. Len(fs) : EndOf(fs, j, ahead) \in Nat)
        /\ EndOf(fs, k - 1, ahead) < EndOf(fs, k, ahead)
    BY EndsGrow
  <2>. QED
    BY <2>1, LenProperties, CodecAssumption
<1>2. \A i, j \in 0 .. Len(fs) : i <= j => E(i) <= E(j)
  BY EndsOrdered
<1>3. ~(E(k - 1) < c) /\ E(k - 1) + 1 >= ahead + MaxByte + 4
  <2>1. ~(E(k - 1) < c)
    BY DEF InStepLater
  <2>2. E(k - 1) + 1 >= ahead + (MaxByte + 4)
    BY DEF MaxFrameLength, HeaderAndChecksum
  <2>. QED
    BY <1>1, <2>1, <2>2
<1>4. E(k) <= t /\ E(k) \in Nat /\ E(k - 1) \in Nat
  BY <1>1
<1> HIDE DEF E
<1>5. c <= E(k - 1) /\ c < t
  BY <1>1, <1>3, <1>4
<1>6. c + 1 \in 1 .. Len(s) /\ s[c + 1] = START /\ ~(c + 4 <= t /\ c + s[c + 3] + 4 <= t)
  BY <1>5 DEF Halts
<1>7. CASE c >= ahead
  <2>1. Len(fs) \in 0 .. Len(fs) /\ k <= Len(fs)
    BY <1>1
  <2>2. E(k) <= E(Len(fs)) /\ E(Len(fs)) \in Nat
    BY <1>1, <1>2, <2>1
  <2>3. c < E(Len(fs))
    BY <1>1, <1>4, <1>5, <2>2
  <2>4. PICK m \in 1 .. Len(fs) : c = EndOf(fs, m - 1, ahead)
    BY <1>6, <1>7, <2>3, StartsFrame DEF E
  <2>5. m - 1 < k
    <3> SUFFICES ASSUME k <= m - 1 PROVE FALSE
      BY <1>1
    <3>1. m - 1 \in 0 .. Len(fs)
      BY <1>1
    <3>2. E(k) <= E(m - 1) /\ E(m - 1) = c
      BY <1>1, <1>2, <2>4, <3>1 DEF E
    <3>. QED
      BY <1>1, <1>4, <1>5, <3>2
  <2>6. E(m) <= E(k) /\ E(m) \in Nat
    <3>1. m \in 0 .. Len(fs) /\ m <= k
      BY <1>1, <2>5
    <3>. QED
      BY <1>1, <1>2, <3>1
  <2>7. Shows(s, c, E(m), Placed(fs, m, ahead))
    BY <2>4, FrameThere DEF E
  <2>8. ~(E(m) <= t)
    BY <1>5, <2>7, HaltsAtFrame
  <2>. QED
    BY <1>4, <2>6, <2>8
<1>8. CASE c < ahead
  <2>1. c + MaxByte + 4 <= t
    BY <1>1, <1>3, <1>4, <1>8
  <2>2. c + 3 \in 1 .. Len(s) /\ c + 4 <= t
    BY <1>1, <2>1
  <2>3. s[c + 3] \in 0 .. MaxByte
    <3>1. s[c + 3] \in Byte
      BY <2>2, ElementOfSeq
    <3>. QED
      BY <3>1 DEF Byte
  <2> DEFINE h == s[c + 3]
  <2>4. h \in 0 .. MaxByte /\ ~(c + h + 4 <= t)
    BY <1>6, <2>2, <2>3
  <2> HIDE DEF h
  <2>. QED
    BY <1>1, <2>1, <2>4
<1>. QED
  BY <1>7, <1>8

-----------------------------------------------------------------------------
(***************************************************************************)
(* Noise without a start byte.                                             *)
(***************************************************************************)
\* In front of byte Behind(l) the reader sees a frame of l.before or plain noise.
LEMMA BehindNoise ==
    ASSUME NEW l \in Lines, NEW c \in Nat, c < Behind(l), NEW gs, InStep(c, gs, l.before, 0),
           ~Contains(l.noise, START)
    PROVE  \/ StreamOf(l)[c + 1] # START
           \/ \E m \in 1 .. Len(l.before) :
                 c = EndOf(l.before, m - 1, 0) /\ EndOf(l.before, m, 0) <= Behind(l)
<1> DEFINE fs == l.before  n == Len(fs)  E(j) == EndOf(fs, j, 0)
<1>1. /\ fs \in Seq(Frames) /\ l.noise \in Seq(Byte) /\ Behind(l) = E(n) + Len(l.noise)
      /\ \A i \in 1 .. Len(l.noise) : StreamOf(l)[E(n) + i] = l.noise[i]
  BY LineCarries
<1>2. n \in Nat /\ E(0) = 0 /\ (\A j \in 0 .. n : E(j) \in Nat) /\ Len(l.noise) \in Nat
  <2>1. 0 \in Nat
    OBVIOUS
  <2>2. EndOf(fs, 0, 0) = 0 /\ \A j \in 0 .. Len(fs) : EndOf(fs, j, 0) \in Nat
    BY <1>1, <2>1, EndsGrow
  <2>. QED
    BY <1>1, <2>2, LenProperties
<1>3. \A i, j \in 0 .. n : i <= j => E(i) <= E(j)
  <2>1. 0 \in Nat
    OBVIOUS
  <2>. QED
    BY <1>1, <2>1, EndsOrdered
<1>4. c <= 0 \/ c >= E(n) \/ \E j \in 0 .. n : c = E(j)
  BY DEF InStep
<1> HIDE DEF fs, n, E
<1>5. CASE c >= E(n)
  <2> DEFINE i == c + 1 - E(n)
  <2>1. E(n) \in Nat
    BY <1>2
  <2>2. i \in 1 .. Len(l.noise) /\ E(n) + i = c + 1
    BY <1>1, <1>2, <1>5, <2>1
  <2> HIDE DEF i
  <2>3. StreamOf(l)[c + 1] = l.noise[i]
    BY <1>1, <2>2
  <2>. QED
    BY <2>2, <2>3 DEF Contains
<1>6. CASE ~(c >= E(n))
  <2>1. E(n) \in Nat /\ 0 \in 0 .. n /\ n \in 0 .. n
    BY <1>2
  <2>2. PICK j \in 0 .. n : c = E(j)
    BY <1>2, <1>4, <1>6, <2>1
  <2>3. j # n
    BY <1>6, <2>1, <2>2
  <2> DEFINE m == j + 1
  <2>4. m \in 1 .. n /\ m - 1 = j /\ m \in 0 .. n /\ m <= n
    BY <1>2, <2>3
  <2> HIDE DEF m
  <2>5. E(m) <= E(n) /\ E(m) \in Nat
    BY <1>2, <1>3, <2>1, <2>4
  <2>6. E(m) <= Behind(l)
    BY <1>1, <1>2, <2>1, <2>5
  <2>7. c = E(m - 1)
    BY <2>2, <2>4
  <2>. QED
    BY <2>4, <2>6, <2>7 DEF E, fs, n
<1>. QED
  BY <1>5, <1>6

LEMMA StopsBehindNoise ==
    ASSUME NEW l \in Lines, NEW c \in Nat, c < Behind(l), NEW gs \in Seq(Delivered),
           InStep(c, gs, l.before, 0), ~Contains(l.noise, START),
           NEW d, NEW hs, Walks(StreamOf(l), c, gs, d, hs)
    PROVE  d <= Behind(l)
<1>1. /\ StreamOf(l) \in Seq(Byte) /\ l.before \in Seq(Frames) /\ Behind(l) \in Nat
      /\ \A k \in 1 .. Len(l.before) : Carries(StreamOf(l), l.before, k, 0)
  BY LineCarries
<1>2. CASE StreamOf(l)[c + 1] # START
  <2>1. d = c \/ d = c + 1
    BY <1>2 DEF Walks
  <2>. QED
    BY <1>1, <2>1
<1>3. ASSUME NEW m \in 1 .. Len(l.before), c = EndOf(l.before, m - 1, 0),
             EndOf(l.before, m, 0) <= Behind(l)
      PROVE  d <= Behind(l)
  <2> DEFINE s == StreamOf(l)  fs == l.before
  <2>1. Carries(s, fs, m, 0) /\ s \in Seq(Byte) /\ fs \in Seq(Frames)
        /\ 0 \in Nat /\ c \in Nat /\ m \in 1 .. Len(fs) /\ c = EndOf(fs, m - 1, 0)
    BY <1>1, <1>3
  <2> HIDE DEF s, fs
  <2>2. Shows(s, c, EndOf(fs, m, 0), Placed(fs, m, 0))
    BY <2>1, FrameThere
  <2>3. d = c \/ d = EndOf(fs, m, 0)
    BY <2>2, WalksFrame DEF s
  <2>. QED
    BY <1>1, <1>3, <2>3 DEF fs
<1>. QED
  BY <1>2, <1>3, BehindNoise

LEMMA HaltsBehindNoise ==
    ASSUME NEW l \in Lines, NEW c \in Nat, NEW gs, InStep(c, gs, l.before, 0),
           ~Contains(l.noise, START), NEW t \in Nat, Halts(StreamOf(l), c, t), Behind(l) <= t
    PROVE  c >= Behind(l)
<1> SUFFICES ASSUME c < Behind(l) PROVE FALSE
  BY LineCarries
<1>1. /\ StreamOf(l) \in Seq(Byte) /\ l.before \in Seq(Frames) /\ Behind(l) \in Nat
      /\ \A k \in 1 .. Len(l.before) : Carries(StreamOf(l), l.before, k, 0)
  BY LineCarries
<1> DEFINE s == StreamOf(l)  fs == l.before
<1>2. c # t /\ s[c + 1] = START /\ ~(c + 4 <= t /\ c + s[c + 3] + 4 <= t)
  <2>1. c # t
    BY <1>1
  <2>. QED
    BY <2>1 DEF Halts
<1>3. PICK m \in 1 .. Len(fs) : c = EndOf(fs, m - 1, 0) /\ EndOf(fs, m, 0) <= Behind(l)
  BY <1>2, BehindNoise
<1>4. Carries(s, fs, m, 0) /\ s \in Seq(Byte) /\ fs \in Seq(Frames)
      /\ 0 \in Nat /\ c \in Nat /\ m \in 1 .. Len(fs) /\ c = EndOf(fs, m - 1, 0)
  BY <1>1, <1>3
<1> HIDE DEF s, fs
<1>5. Shows(s, c, EndOf(fs, m, 0), Placed(fs, m, 0))
  BY <1>4, FrameThere
<1>6. ~(EndOf(fs, m, 0) <= t)
  BY <1>2, <1>5, HaltsAtFrame DEF s
<1>7. EndOf(fs, m, 0) \in Nat
  <2>1. m \in 0 .. Len(fs)
    BY <1>4, LenProperties
  <2>. QED
    BY <1>4, <2>1, EndsGrow
<1>. QED
  BY <1>1, <1>3, <1>6, <1>7

-----------------------------------------------------------------------------
(***************************************************************************)
(* What is delivered was sent.                                             *)
(***************************************************************************)
Sent(l, x) ==
    \/ \E k \in 1 .. Len(l.before) : x = Placed(l.before, k, 0)
    \/ \E k \in 1 .. Len(l.after) : x = Placed(l.after, k, Behind(l))

\* Where nothing but frames and plain noise can have been met, the frames gs were sent.
OnlySent(gs, l) ==
    \A i \in 1 .. Len(gs) :
        (gs[i].at <= EndOf(l.before, Len(l.before), 0) \/ ~Contains(l.noise, START))
            => Sent(l, gs[i])

\* In step and among the frames, the reader is where one of them begins.
LEMMA InStepAtFrame ==
    ASSUME NEW fs \in Seq(Frames), NEW ahead \in Nat, NEW c \in Nat, NEW gs,
           InStep(c, gs, fs, ahead), c >= ahead, c < EndOf(fs, Len(fs), ahead)
    PROVE  \E m \in 1 .. Len(fs) : c = EndOf(fs, m - 1, ahead)
<1> DEFINE E(j) == EndOf(fs, j, ahead)  n == Len(fs)
<1>1. n \in Nat /\ E(0) = ahead /\ \A j \in 0 .. n : E(j) \in Nat
  <2>1. EndOf(fs, 0, ahead) = ahead /\ \A j \in 0 .. Len(fs) : EndOf(fs, j, ahead) \in Nat
    BY EndsGrow
  <2>. QED
    BY <2>1, LenProperties
<1>2. c <= ahead \/ c >= E(n) \/ \E j \in 0 .. n : c = E(j)
  BY DEF InStep
<1>3. c < E(n) /\ c >= ahead
  OBVIOUS
<1> HIDE DEF E, n
<1>4. 0 \in 0 .. n /\ n \in 0 .. n /\ E(n) \in Nat
  BY <1>1
<1>5. PICK j \in 0 .. n : c = E(j)
  BY <1>1, <1>2, <1>3, <1>4
<1>6. j # n
  BY <1>3, <1>4, <1>5
<1> DEFINE m == j + 1
<1>7. m \in 1 .. n /\ m - 1 = j
  BY <1>1, <1>6
<1> HIDE DEF m
<1>8. c = E(m - 1)
  BY <1>5, <1>7
<1>. QED
  BY <1>7, <1>8 DEF E, n

LEMMA DeliversSent ==
    ASSUME NEW l \in Lines, NEW c \in Nat, NEW gs,
           InStep(c, gs, l.before, 0),
           ~Contains(l.noise, START) => InStep(c, gs, l.after, Behind(l)),
           c + 1 \in 1 .. Len(StreamOf(l)), StreamOf(l)[c + 1] = START,
           c + 1 <= EndOf(l.before, Len(l.before), 0) \/ ~Contains(l.noise, START)
    PROVE  Sent(l, [at |-> c + 1, frame |-> FrameOf(RawAt(StreamOf(l), c + 1))])
<1> DEFINE s == StreamOf(l)  B == EndOf(l.before, Len(l.before), 0)
<1>1. /\ s \in Seq(Byte) /\ l.before \in Seq(Frames) /\ l.after \in Seq(Frames)
      /\ Behind(l) \in Nat /\ 0 \in Nat /\ Len(s) \in Nat /\ B \in Nat
      /\ EndOf(l.after, Len(l.after), Behind(l)) = Len(s)
      /\ \A k \in 1 .. Len(l.before) : Carries(s, l.before, k, 0)
      /\ \A k \in 1 .. Len(l.after) : Carries(s, l.after, k, Behind(l))
  <2>1. l.before \in Seq(Frames) /\ s \in Seq(Byte)
    BY LineCarries
  <2>2. Len(l.before) \in 0 .. Len(l.before) /\ Len(s) \in Nat /\ 0 \in Nat
    BY <2>1, LenProperties
  <2>3. B \in Nat
    BY <2>1, <2>2, EndsGrow
  <2>. QED
    BY <2>2, <2>3, LineCarries
<1>2. c < Len(s)
  BY <1>1
<1>3. ASSUME NEW fs \in Seq(Frames), NEW ahead \in Nat, NEW m \in 1 .. Len(fs),
             Carries(s, fs, m, ahead), c = EndOf(fs, m - 1, ahead)
      PROVE  [at |-> c + 1, frame |-> FrameOf(RawAt(s, c + 1))] = Placed(fs, m, ahead)
  <2>1. Shows(s, c, EndOf(fs, m, ahead), Placed(fs, m, ahead))
    <3>1. s \in Seq(Byte)
      BY <1>1
    <3> HIDE DEF s
    <3>. QED
      BY <1>3, <3>1, FrameThere
  <2>. QED
    BY <2>1 DEF Shows
<1>4. CASE c < B
  <2>1. c >= 0
    OBVIOUS
  <2>2. PICK m \in 1 .. Len(l.before) : c = EndOf(l.before, m - 1, 0)
    BY <1>1, <1>4, <2>1, InStepAtFrame
  <2>. QED
    BY <1>1, <1>3, <2>2 DEF Sent
<1>5. CASE ~(c < B) /\ c < Behind(l)
  <2>1. ~Contains(l.noise, START)
    BY <1>1, <1>5
  <2>2. PICK m \in 1 .. Len(l.before) : c = EndOf(l.before, m - 1, 0)
    BY <1>5, <2>1, BehindNoise
  <2>. QED
    BY <1>1, <1>3, <2>2 DEF Sent
<1>6. CASE ~(c < B) /\ ~(c < Behind(l))
  <2>1. ~Contains(l.noise, START)
    BY <1>1, <1>6
  <2>2. c >= Behind(l) /\ c < EndOf(l.after, Len(l.after), Behind(l))
    BY <1>1, <1>2, <1>6
  <2>3. PICK m \in 1 .. Len(l.after) : c = EndOf(l.after, m - 1, Behind(l))
    BY <1>1, <2>1, <2>2, InStepAtFrame
  <2>. QED
    BY <1>1, <1>3, <2>3 DEF Sent
<1>. QED
  BY <1>4, <1>5, <1>6

LEMMA StaysOnlySent ==
    ASSUME NEW l \in Lines, NEW c \in Nat, NEW gs \in Seq(Delivered), OnlySent(gs, l),
           InStep(c, gs, l.before, 0),
           ~Contains(l.noise, START) => InStep(c, gs, l.after, Behind(l)),
           NEW d, NEW hs, Walks(StreamOf(l), c, gs, d, hs)
    PROVE  OnlySent(hs, l)
<1> DEFINE s == StreamOf(l)  x == [at |-> c + 1, frame |-> FrameOf(RawAt(s, c + 1))]
           Safe(y) == y.at <= EndOf(l.before, Len(l.before), 0) \/ ~Contains(l.noise, START)
<1>1. CASE hs = gs
  BY <1>1
<1>2. CASE c + 1 \in 1 .. Len(s) /\ s[c + 1] = START /\ hs = Append(gs, x)
  <2>1. Safe(x) => Sent(l, x)
    BY <1>2, DeliversSent
  <2>2. \A i \in 1 .. Len(gs) : Safe(gs[i]) => Sent(l, gs[i])
    BY DEF OnlySent
  <2>3. Len(gs) \in Nat
    BY LenProperties
  <2> HIDE DEF x, Safe
  <2>4. /\ Len(hs) = Len(gs) + 1 /\ hs[Len(gs) + 1] = x
        /\ \A i \in 1 .. Len(gs) : hs[i] = gs[i]
    BY <1>2, <2>3
  <2>5. \A i \in 1 .. Len(hs) : i \in 1 .. Len(gs) \/ i = Len(gs) + 1
    BY <2>3, <2>4
  <2>6. \A i \in 1 .. Len(hs) : Safe(hs[i]) => Sent(l, hs[i])
    BY <2>1, <2>2, <2>4, <2>5
  <2>. QED
    BY <2>6 DEF OnlySent, Safe
<1>. QED
  BY <1>1, <1>2 DEF Walks

-----------------------------------------------------------------------------
LineInv ==
    /\ IInv
    /\ line \in Lines /\ stream = StreamOf(line)
    /\ InStep(consumed, frames, line.before, 0)
    /\ ~Contains(line.noise, START) => InStep(consumed, frames, line.after, Behind(line))
    /\ Plain(line.after) => InStepLater(consumed, frames, line.after, Behind(line))
    /\ OnlySent(frames, line)

LEMMA NotBegun ==
    ASSUME NEW fs \in Seq(Frames), NEW ahead \in Nat, NEW gs
    PROVE  InStep(0, gs, fs, ahead) /\ InStepLater(0, gs, fs, ahead)
<1>1. \A k \in 1 .. Len(fs) : k - 1 \in 0 .. Len(fs)
  BY LenProperties
<1>2. \A k \in 1 .. Len(fs) : EndOf(fs, k - 1, ahead) \in Nat
  BY <1>1, EndsGrow
<1>3. \A k \in 1 .. Len(fs) : ~(EndOf(fs, k - 1, ahead) < 0)
  BY <1>2
<1>. QED
  BY <1>3 DEF InStep, InStepLater

LEMMA InitLineInv == LineInit => LineInv
<1> SUFFICES ASSUME NEW l \in Lines, line = l, InitWith(StreamOf(l))
             PROVE  LineInv
  BY DEF LineInit
<1>1. /\ StreamOf(l) \in Seq(Byte) /\ l.before \in Seq(Frames) /\ l.after \in Seq(Frames)
      /\ Behind(l) \in Nat
  BY LineCarries
<1>2. IInv
  BY <1>1, InitWithIInv
<1>3. stream = StreamOf(l) /\ consumed = 0
  BY DEF InitWith
<1>4. 0 \in Nat
  OBVIOUS
<1>5. InStep(0, frames, l.before, 0)
  BY <1>1, <1>4, NotBegun
<1>6. InStep(0, frames, l.after, Behind(l)) /\ InStepLater(0, frames, l.after, Behind(l))
  BY <1>1, NotBegun
<1>7. OnlySent(frames, l)
  BY DEF InitWith, OnlySent
<1>. QED
  BY <1>2, <1>3, <1>5, <1>6, <1>7 DEF LineInv

LEMMA NextLineInv == LineInv /\ [LineNext]_lineVars => LineInv'
<1> SUFFICES ASSUME LineInv, [LineNext]_lineVars
             PROVE  LineInv'
  OBVIOUS
<1>1. [Next]_vars /\ line' = line
  BY DEF LineNext, lineVars
<1>2. IInv /\ IInv'
  BY <1>1, NextIInv DEF LineInv
<1>3. Walks(stream, consumed, frames, consumed', frames') /\ stream' = stream
  BY <1>1, <1>2, StepWalks
<1> DEFINE l == line  c == consumed  d == consumed'  gs == frames  hs == frames'
           s == StreamOf(line)
<1>4. /\ l \in Lines /\ c \in Nat /\ gs \in Seq(Delivered) /\ Walks(s, c, gs, d, hs)
      /\ InStep(c, gs, l.before, 0)
      /\ ~Contains(l.noise, START) => InStep(c, gs, l.after, Behind(l))
      /\ Plain(l.after) => InStepLater(c, gs, l.after, Behind(l))
      /\ OnlySent(gs, l)
  <2>1. TypeOK
    BY <1>2 DEF IInv
  <2>2. c \in Nat
    BY <2>1 DEF TypeOK
  <2>3. gs \in Seq(Delivered)
    BY <2>1, FramesAreDelivered DEF FramesTyped
  <2>. QED
    BY <1>3, <2>2, <2>3 DEF LineInv
<1>5. /\ s \in Seq(Byte) /\ l.before \in Seq(Frames) /\ l.after \in Seq(Frames)
      /\ Behind(l) \in Nat /\ 0 \in Nat
      /\ \A k \in 1 .. Len(l.before) : Carries(s, l.before, k, 0)
      /\ \A k \in 1 .. Len(l.after) : Carries(s, l.after, k, Behind(l))
  BY <1>4, LineCarries
<1> HIDE DEF c, d, gs, hs, l, s
<1>6. InStep(d, hs, l.before, 0)
  <2>1. c < 0 => d <= 0
    BY <1>4
  <2>. QED
    BY <1>4, <1>5, <2>1, StaysInStep
<1>7. ASSUME ~Contains(l.noise, START)
      PROVE  InStep(d, hs, l.after, Behind(l))
  <2>1. c < Behind(l) => d <= Behind(l)
    <3> SUFFICES ASSUME c < Behind(l) PROVE d <= Behind(l)
      OBVIOUS
    <3>1. Walks(StreamOf(l), c, gs, d, hs)
      BY <1>4 DEF s, l
    <3>. QED
      BY <1>4, <1>7, <3>1, StopsBehindNoise
  <2>. QED
    BY <1>4, <1>5, <1>7, <2>1, StaysInStep
<1>8. ASSUME Plain(l.after)
      PROVE  InStepLater(d, hs, l.after, Behind(l))
  BY <1>4, <1>5, <1>8, StaysInStepLater
<1>9. OnlySent(hs, l)
  <2>1. Walks(StreamOf(l), c, gs, d, hs)
    BY <1>4 DEF s, l
  <2>. QED
    BY <1>4, <2>1, StaysOnlySent
<1>10. line' = l /\ consumed' = d /\ frames' = hs /\ l \in Lines /\ stream' = StreamOf(l)
  BY <1>1, <1>3, <1>4 DEF d, hs, l, LineInv
<1>. QED
  BY <1>2, <1>6, <1>7, <1>8, <1>9, <1>10 DEF LineInv

LEMMA LineInvariance == LineSpec => []LineInv
<1>1. LineInit => LineInv
  BY InitLineInv
<1>2. LineInv /\ [LineNext]_lineVars => LineInv'
  BY NextLineInv
<1>. QED
  BY <1>1, <1>2, PTL DEF LineSpec

LEMMA LineDelivers == LineInv => IntactFramesDelivered /\ Resynchronises
<1> SUFFICES ASSUME LineInv, phase = "reading"
             PROVE  IntactFramesDelivered /\ Resynchronises
  BY DEF IntactFramesDelivered, Resynchronises
<1> DEFINE l == line  c == consumed  gs == frames  s == StreamOf(line)  t == taken
           before == line.before  after == line.after
<1>1. /\ l \in Lines /\ c \in Nat /\ t \in Nat /\ t <= Len(s) /\ Halts(s, c, t)
      /\ InStep(c, gs, before, 0)
      /\ ~Contains(l.noise, START) => InStep(c, gs, after, Behind(l))
      /\ Plain(after) => InStepLater(c, gs, after, Behind(l))
  <2>1. IInv /\ TypeOK /\ stream = s
    BY DEF LineInv, IInv
  <2>2. Len(stream) \in Nat
    BY <2>1, LenProperties DEF TypeOK
  <2>3. c \in Nat /\ t \in Nat /\ t <= Len(s)
    BY <2>1, <2>2 DEF TypeOK
  <2>4. Halts(s, c, t)
    BY <2>1, ReadingHalts
  <2>. QED
    BY <2>3, <2>4 DEF LineInv
<1>2. /\ s \in Seq(Byte) /\ before \in Seq(Frames) /\ after \in Seq(Frames)
      /\ Behind(l) \in Nat /\ 0 \in Nat
      /\ \A k \in 1 .. Len(before) : Carries(s, before, k, 0)
      /\ \A k \in 1 .. Len(after) : Carries(s, after, k, Behind(l))
  BY <1>1, LineCarries
<1>3. /\ DOMAIN before = 1 .. Len(before) /\ DOMAIN after = 1 .. Len(after)
      /\ Behind(l) = Len(BytesOf(before) \o l.noise)
  BY <1>2, LenProperties DEF Behind
<1>4. \A k \in 1 .. Len(after) :
          Placed(after, k, Behind(l)).at = EndOf(after, k - 1, Behind(l)) + 1
  BY DEF Placed, EndOf
<1> HIDE DEF c, gs, s, t
<1>5. ASSUME NEW k \in 1 .. Len(before), EndOf(before, k, 0) <= t
      PROVE  Has(gs, before, k, 0)
  <2>1. c >= 0
    BY <1>1
  <2> HIDE DEF before
  <2>. QED
    BY <1>1, <1>2, <1>5, <2>1, InStepDelivers
<1>6. ASSUME ~Contains(l.noise, START), NEW k \in 1 .. Len(after),
             EndOf(after, k, Behind(l)) <= t
      PROVE  Has(gs, after, k, Behind(l))
  <2> DEFINE ahead == Behind(l)
  <2>1. ahead <= t
    <3>1. ahead \in Nat /\ after \in Seq(Frames) /\ Len(after) \in Nat
      BY <1>2, LenProperties
    <3>2. 0 \in 0 .. Len(after) /\ k \in 0 .. Len(after) /\ 0 <= k
      BY <3>1
    <3>3. EndOf(after, 0, ahead) <= EndOf(after, k, ahead)
      BY <3>1, <3>2, EndsOrdered
    <3>4. EndOf(after, 0, ahead) = ahead /\ EndOf(after, k, ahead) \in Nat
      BY <3>1, <3>2, EndsGrow
    <3>. QED
      BY <1>1, <1>6, <3>1, <3>3, <3>4
  <2>2. c >= ahead
    BY <1>1, <1>6, <2>1, HaltsBehindNoise DEF s
  <2>3. InStep(c, gs, after, ahead) /\ EndOf(after, k, ahead) <= t /\ ahead \in Nat
        /\ \A j \in 1 .. Len(after) : Carries(s, after, j, ahead)
    BY <1>1, <1>2, <1>6
  <2> HIDE DEF after, ahead
  <2>. QED
    BY <1>1, <1>2, <2>2, <2>3, InStepDelivers DEF ahead
<1>7. ASSUME Plain(after), NEW k \in 1 .. Len(after), EndOf(after, k, Behind(l)) <= t,
             EndOf(after, k - 1, Behind(l)) + 1 >= Behind(l) + MaxFrameLength
      PROVE  Has(gs, after, k, Behind(l))
  <2> HIDE DEF after
  <2>. QED
    BY <1>1, <1>2, <1>7, InStepLaterDelivers
<1>8. IntactFramesDelivered
  BY <1>3, <1>5, <1>6 DEF IntactFramesDelivered, Has, gs, t
<1>9. Resynchronises
  BY <1>3, <1>4, <1>7 DEF Resynchronises, Has, Plain, gs, t
<1>. QED
  BY <1>8, <1>9

LEMMA LineOnly == LineInv => OnlyFramesDelivered
<1> SUFFICES ASSUME LineInv PROVE OnlyFramesDelivered
  OBVIOUS
<1>1. /\ line \in Lines /\ OnlySent(frames, line) /\ frames \in Seq(Delivered)
  <2>1. TypeOK
    BY DEF LineInv, IInv
  <2>. QED
    BY <2>1, FramesAreDelivered DEF LineInv, FramesTyped
<1>2. line.before \in Seq(Frames) /\ line.after \in Seq(Frames) /\ 0 \in Nat
  BY <1>1, LineCarries
<1>3. /\ DOMAIN line.before = 1 .. Len(line.before) /\ DOMAIN line.after = 1 .. Len(line.after)
      /\ DOMAIN frames = 1 .. Len(frames)
  BY <1>1, <1>2, LenProperties
<1>4. EndOf(line.before, Len(line.before), 0) = Len(BytesOf(line.before))
  <2>1. Len(line.before) \in 0 .. Len(line.before)
    BY <1>2, LenProperties
  <2>2. Len(BytesOf(line.before)) \in Nat
    BY <1>2, <2>1, BytesToTyped, LenProperties
  <2>3. EndOf(line.before, Len(line.before), 0) = 0 + Len(BytesOf(line.before))
    BY <1>2, EndsGrow
  <2>. QED
    BY <2>2, <2>3
<1>. QED
  BY <1>1, <1>3, <1>4 DEF OnlyFramesDelivered, OnlySent, Sent, Behind

\* In front of the noise, and everywhere when the noise holds no start byte, every
\* frame sent is delivered as it was built by the time the bytes read so far have
\* been processed, and nothing else is delivered.
THEOREM LineDeliversWhatWasSent == LineSpec => []DeliversWhatWasSent
<1>1. LineInv => DeliversWhatWasSent
  BY LineDelivers, LineOnly DEF DeliversWhatWasSent
<1>. QED
  BY <1>1, LineInvariance, PTL

\* Whatever the noise is, the reader is in step again within the length of the
\* longest frame, when the frames that follow hold no second start byte.
THEOREM LineResynchronises == LineSpec => []Resynchronises
  BY LineInvariance, LineDelivers, PTL
=============================================================================
