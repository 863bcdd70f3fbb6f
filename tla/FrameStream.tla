----------------------------- MODULE FrameStream -----------------------------
(***************************************************************************)
(* What a receiver of Metis frames promises, whatever buffers it uses: it  *)
(* walks along the bytes of the line once, never backwards; it delivers    *)
(* only genuine frames, each one in its turn; and it passes over a genuine *)
(* frame only when an earlier start byte, read as a header, laid claim to  *)
(* the bytes where that frame begins.  The promise does not depend on what  *)
(* a frame looks like: that is a parameter (MetisCodec gives it).          *)
(***************************************************************************)
EXTENDS Integers, Sequences

CONSTANTS ValidAt(_, _),    \* ValidAt(s, i): a genuine frame begins at byte i of s
          RawAt(_, _),      \* RawAt(s, i): the bytes of the frame that begins there
          FrameOf(_),       \* what those bytes say
          Covers(_, _, _)   \* Covers(s, j, i): a header at j lays claim to byte i

VARIABLES stream,  \* the bytes the device puts on the line
          upTo,    \* how many of them the receiver is done with
          frames   \* the frames delivered, each with the position it began at

vars == <<stream, upTo, frames>>

Init == upTo = 0 /\ frames = <<>>

\* The frame that begins at the next byte is genuine and is delivered.
Deliver ==
    /\ upTo < Len(stream)
    /\ ValidAt(stream, upTo + 1)
    /\ LET raw == RawAt(stream, upTo + 1)
       IN  /\ frames' = Append(frames, [at |-> upTo + 1, frame |-> FrameOf(raw)])
           /\ upTo' = upTo + Len(raw)
    /\ UNCHANGED stream

\* Bytes that begin no genuine frame, or only frames behind a false header.
Skip ==
    /\ upTo' \in upTo + 1 .. Len(stream)
    /\ \A i \in upTo + 1 .. upTo' :
          ValidAt(stream, i) => \E j \in upTo + 1 .. i - 1 : Covers(stream, j, i)
    /\ UNCHANGED <<stream, frames>>

Next == Deliver \/ Skip

Spec == Init /\ [][Next]_vars
=============================================================================
