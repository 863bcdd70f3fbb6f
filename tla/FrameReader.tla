----------------------------- MODULE FrameReader -----------------------------
(***************************************************************************)
(* The receiving half of a serial session: the inner loop of listen_loop   *)
(* (main.cpp) reads chunks of whatever size the driver has and appends     *)
(* them to metis_buffer, then calls metis_try_extract_frame until it       *)
(* returns false.  The loop inside that function is modelled one iteration *)
(* per step.  `stream' is everything the device puts on the line in this   *)
(* session, in any contents at all: intact frames, noise, halves of frames.*)
(***************************************************************************)
EXTENDS MetisCodec

CONSTANTS Streams,  \* the byte streams the device may produce
          ReadMax   \* sizeof(chunk_buf): the most that one read() returns

ASSUME ReaderAssumption ==
    /\ Streams \subseteq Seq(Byte)
    /\ ReadMax \in Nat \ {0}

VARIABLES stream,    \* the bytes of this session
          taken,     \* how many of them read() has returned
          buffer,    \* metis_buffer
          phase,     \* "reading", or "extracting": inside metis_try_extract_frame
          frames,    \* frames delivered, each with the position it began at
          consumed   \* how many bytes have been erased from the front of buffer

vars == <<stream, taken, buffer, phase, frames, consumed>>

InitWith(s) ==
    /\ stream = s
    /\ taken = 0 /\ consumed = 0
    /\ buffer = <<>> /\ frames = <<>>
    /\ phase = "reading"

Init == \E s \in Streams : InitWith(s)

-----------------------------------------------------------------------------
\* read() returns n > 0 bytes: append them and start extracting.
Read ==
    /\ phase = "reading"
    /\ \E n \in 1 .. ReadMax :
          /\ taken + n <= Len(stream)
          /\ buffer' = buffer \o SubSeq(stream, taken + 1, taken + n)
          /\ taken' = taken + n
    /\ phase' = "extracting"
    /\ UNCHANGED <<stream, frames, consumed>>

\* read() times out (VMIN 0, VTIME 1) with nothing: sleep 25 ms, try again.
ReadNothing == phase = "reading" /\ UNCHANGED vars

AtHeader == phase = "extracting" /\ buffer # <<>> /\ buffer[1] = START

Erase(n) ==
    /\ buffer' = SubSeq(buffer, n + 1, Len(buffer))
    /\ consumed' = consumed + n

\* The byte in front cannot begin a frame: erase it, continue.
DropByte ==
    /\ phase = "extracting" /\ buffer # <<>> /\ buffer[1] # START
    /\ Erase(1)
    /\ UNCHANGED <<stream, taken, phase, frames>>

\* Mutant: give up at the first byte that is not START instead of erasing it.
AwaitMoreAtJunk ==
    /\ phase = "extracting"
    /\ buffer # <<>> => buffer[1] # START \/ ~Complete(buffer)
    /\ phase' = "reading"
    /\ UNCHANGED <<stream, taken, buffer, frames, consumed>>

\* The buffer is empty, or ends before the frame does: return false.
AwaitMore ==
    /\ phase = "extracting"
    /\ buffer = <<>> \/ (AtHeader /\ ~Complete(buffer))
    /\ phase' = "reading"
    /\ UNCHANGED <<stream, taken, buffer, frames, consumed>>

Raw == SubSeq(buffer, 1, TotalLength(buffer))

\* Mutant: a checksum mismatch clears the whole buffer.
DiscardAll ==
    /\ AtHeader /\ Complete(buffer) /\ ~ChecksumHolds(Raw)
    /\ Erase(Len(buffer))
    /\ UNCHANGED <<stream, taken, phase, frames>>

\* Mutant: a checksum mismatch continues before anything is erased.
DiscardNothing ==
    /\ AtHeader /\ Complete(buffer) /\ ~ChecksumHolds(Raw)
    /\ UNCHANGED vars

\* Checksum mismatch: everything the header claimed is erased, continue.
Discard ==
    /\ AtHeader /\ Complete(buffer) /\ ~ChecksumHolds(Raw)
    /\ Erase(TotalLength(buffer))
    /\ UNCHANGED <<stream, taken, phase, frames>>

\* Mutant: the checksum is not compared.
DeliverUnchecked ==
    /\ AtHeader /\ Complete(buffer)
    /\ frames' = Append(frames, [at |-> consumed + 1, frame |-> FrameOf(Raw)])
    /\ Erase(TotalLength(buffer))
    /\ UNCHANGED <<stream, taken, phase>>

\* Return true; the caller handles the frame and calls again.
Deliver ==
    /\ AtHeader /\ Complete(buffer) /\ ChecksumHolds(Raw)
    /\ frames' = Append(frames, [at |-> consumed + 1, frame |-> FrameOf(Raw)])
    /\ Erase(TotalLength(buffer))
    /\ UNCHANGED <<stream, taken, phase>>

Extract == DropByte \/ AwaitMore \/ Discard \/ Deliver

Next == Read \/ ReadNothing \/ Extract

\* The thread keeps running and the driver hands over the bytes it holds.
Fairness == WF_vars(Extract) /\ WF_vars(Read)

Spec == Init /\ [][Next]_vars /\ Fairness

-----------------------------------------------------------------------------
\* What a frame can be: its payload is no longer than its length byte says.
Frames == [command : Byte, payload : {p \in Seq(Byte) : Len(p) <= MaxByte}]

\* Types, and the sizes the code counts on: what is delivered is a frame a
\* device could have built, and the checksum is not among its payload.
TypeOK ==
    /\ stream \in Seq(Byte)
    /\ taken \in 0 .. Len(stream)
    /\ consumed \in 0 .. taken
    /\ buffer \in Seq(Byte)
    /\ phase \in {"reading", "extracting"}
    /\ frames \in Seq([at : 1 .. Len(stream), frame : Frames])

\* The receive buffer never accumulates: whenever read() is called again,
\* less than one frame is left in it, and at no time more than that plus one
\* chunk.  (258 + 4096 bytes in the code, inside the 8192 it reserves.)
BufferBounded ==
    Len(buffer) < MaxFrameLength + (IF phase = "reading" THEN 0 ELSE ReadMax)

\* Reference definition: the frames in a whole stream, found in one pass;
\* scan[i] are those from byte i on.
ScanAt(s, i, scan) ==
    IF i > Len(s) THEN <<>>
    ELSE IF s[i] # START THEN scan[i + 1]
    ELSE IF ~CompleteAt(s, i) THEN <<>>
    ELSE LET raw == RawAt(s, i)
             rest == scan[i + Len(raw)]
         IN  IF ValidAt(s, i)
             THEN <<[at |-> i, frame |-> FrameOf(raw)]>> \o rest
             ELSE rest

Scan(s) == LET scan[i \in 1 .. Len(s) + 1] == ScanAt(s, i, scan) IN scan

FramesIn(s) == Scan(s)[1]

\* How the driver cuts the stream into chunks makes no difference: whenever
\* the loop is back at read(), the frames delivered are those that one pass
\* over all the bytes read so far would find.
ChunkingIrrelevant ==
    phase = "reading" => frames = FramesIn(SubSeq(stream, 1, taken))

\* metis_try_extract_frame and the loop around it come to an end for every
\* chunk: no buffer contents keep the thread from its next read().
ExtractionTerminates == phase = "extracting" ~> phase = "reading"

FS == INSTANCE FrameStream WITH upTo <- consumed

\* The reader implements FrameStream: frames in order, each at most once, and
\* none lost but behind a false header.
ImplementsFrameStream == FS!Spec
=============================================================================
