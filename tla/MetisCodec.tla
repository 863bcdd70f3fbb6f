----------------------------- MODULE MetisCodec -----------------------------
(***************************************************************************)
(* The byte-level format of the frames a Metis-II exchanges with the       *)
(* gateway: how a frame is built, where it ends, when it is genuine.       *)
(* The width of a byte is a parameter: the code has 8 bits and the start   *)
(* byte 0xFF; a model with 2 or 3 bits has the same structure and a state  *)
(* space that can be enumerated.  The start byte is always the largest     *)
(* byte, and a length byte is never wider than the payload it counts.      *)
(***************************************************************************)
EXTENDS Integers, Sequences, SequencesExt

CONSTANTS ByteBits,  \* bits in a byte                  (8 in the code)
          MaxByte    \* the largest byte, 2^ByteBits - 1 (0xFF in the code)

ASSUME CodecAssumption ==
    /\ ByteBits \in Nat \ {0}
    /\ MaxByte \in Nat
    /\ MaxByte + 1 = 2^ByteBits

Byte == 0 .. MaxByte
START == MaxByte          \* the byte every frame begins with
HeaderAndChecksum == 4    \* start, command, length; and the checksum behind the payload
MaxFrameLength == MaxByte + HeaderAndChecksum

-----------------------------------------------------------------------------
Bit(a, i) == (a \div 2^i) % 2

XorTable ==
    [a \in Byte, b \in Byte |->
        SumFunction([i \in 0 .. ByteBits - 1 |->
                        IF Bit(a, i) = Bit(b, i) THEN 0 ELSE 2^i])]

Xor(a, b) == XorTable[a, b]

Checksum(bytes) == FoldLeft(Xor, 0, bytes)

\* Mutant: the checksum leaves out the start byte.
BuildFrameUnmarked(command, payload) ==
    LET body == <<command, Len(payload) % (MaxByte + 1)>> \o payload
    IN  Append(<<START>> \o body, Checksum(body))

\* The size is stored in one byte: static_cast<uint8_t>(payload.size()).
BuildFrame(command, payload) ==
    LET body == <<START, command, Len(payload) % (MaxByte + 1)>> \o payload
    IN  Append(body, Checksum(body))

-----------------------------------------------------------------------------
(***************************************************************************)
(* What the head of a receive buffer b, known to begin with START, is.     *)
(***************************************************************************)
TotalLength(b) == b[3] + HeaderAndChecksum

Complete(b) == Len(b) >= HeaderAndChecksum /\ Len(b) >= TotalLength(b)

ChecksumHolds(raw) == Checksum(SubSeq(raw, 1, Len(raw) - 1)) = raw[Len(raw)]

\* Mutant: the checksum is taken for the payload's last byte.
FrameWithChecksum(raw) == [command |-> raw[2], payload |-> SubSeq(raw, 4, Len(raw))]

\* The payload is what lies between the length byte and the checksum.
FrameOf(raw) == [command |-> raw[2], payload |-> SubSeq(raw, 4, Len(raw) - 1)]

-----------------------------------------------------------------------------
(***************************************************************************)
(* The same notions at position i of a whole stream s of bytes.            *)
(***************************************************************************)
RawAt(s, i) == SubSeq(s, i, i + s[i + 2] + HeaderAndChecksum - 1)

CompleteAt(s, i) ==
    /\ i + HeaderAndChecksum - 1 <= Len(s)
    /\ i + s[i + 2] + HeaderAndChecksum - 1 <= Len(s)

ValidAt(s, i) ==
    s[i] = START /\ CompleteAt(s, i) /\ ChecksumHolds(RawAt(s, i))

\* A start byte at j that claims, by its length byte, the byte at i > j.
Covers(s, j, i) ==
    s[j] = START /\ CompleteAt(s, j) /\ i < j + s[j + 2] + HeaderAndChecksum

=============================================================================
