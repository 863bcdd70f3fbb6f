---------------------------- MODULE MetisExchange ----------------------------
(***************************************************************************)
(* One command-and-answer exchange with the device, as metis_protocol.cpp  *)
(* conducts it. The line carries whole frames and torn ones: FrameReader   *)
(* is the same line byte by byte. A torn frame is what is left of one that *)
(* was cut (by tcflush, by a full driver, with a buffer given up half way) *)
(* or damaged. Its bytes can look like a header, and what such a false     *)
(* header claims is held back until it is all there and then erased, whole *)
(* frames included. A claim that ends inside a frame destroys that frame   *)
(* too, and the rest of it may be a false header again: all of that counts *)
(* here as one claim. Not here: damage that leaves the checksum right, one *)
(* time in 256. An answer names the command it is for ("about"): the wire  *)
(* format does not, and only the properties look at it. The caller's       *)
(* control state is the caller's; this module has the two directions of    *)
(* the line and the receive buffer.                                        *)
(***************************************************************************)
EXTENDS Integers, Sequences, SequencesExt, FiniteSets

CONSTANT MaxClaim  \* bound: how many of the frames behind it a torn frame claims

ASSUME ExchangeAssumption == MaxClaim \in Nat

VARIABLES toDevice,    \* commands written that the device has not handled yet
          fromDevice,  \* frames sent by the device that read() has not returned
          rx,          \* the caller's `buffer': frames read and not looked at yet
          claim        \* how many more frames the false header at the front of
                       \* `buffer' claims; those behind it so far are lost already

line == <<toDevice, fromDevice, rx, claim>>

QuietLine == toDevice = <<>> /\ fromDevice = <<>> /\ rx = <<>> /\ claim = 0

Ack(code, about) == [code |-> code, status |-> "ok", about |-> about]
Refusal(code, about) == [code |-> code, status |-> "failed", about |-> about]

Torn(claims) == [code |-> "torn", claims |-> claims]
TornFrames == {Torn(claims) : claims \in 0 .. MaxClaim}

-----------------------------------------------------------------------------
(***************************************************************************)
(* The gateway's side.                                                     *)
(***************************************************************************)
\* write(): its result is not looked at.
Write(command) ==
    /\ toDevice' = Append(toDevice, command)
    /\ UNCHANGED <<fromDevice, rx, claim>>

\* What metis_try_extract_frame works through after a read().
Received(n) == rx \o SubSeq(fromDevice, 1, n)

\* The k-th frame, or what comes in that place, is in the reach of a false
\* header.  A torn frame is never extracted itself.
Swallowed(received, k) ==
    \/ k <= claim
    \/ \E j \in 1 .. Len(received) :
          received[j].code = "torn" /\ j <= k /\ k <= j + received[j].claims

\* What false headers claim of the frames to come, once all these are seen.
Outstanding(received) ==
    Cardinality({k \in Len(received) + 1 .. Len(received) + MaxClaim : Swallowed(received, k)})

\* metis_try_extract_frame: the next frame to come out of the buffer.
IsNext(k, received) ==
    ~Swallowed(received, k) /\ \A j \in 1 .. k - 1 : Swallowed(received, j)

IsFirst(k, received, code) ==
    /\ received[k].code = code /\ ~Swallowed(received, k)
    /\ \A j \in 1 .. k - 1 : received[j].code = code => Swallowed(received, j)

\* The answers of this kind among these frames.
Answers(code, received) == {k \in 1 .. Len(received) : received[k].code = code}

TakeOff(n) == fromDevice' = SubSeq(fromDevice, n + 1, Len(fromDevice))

\* Nothing is left to extract but what a false header holds back.
UseUp(received) == rx' = <<>> /\ claim' = Outstanding(received)

\* wait_for_frame: a read() that brings no frame with the expected code.
\* Without a read() nothing is extracted, so what an earlier wait left in the
\* buffer is looked at here and not before.
ReadOthers(code, n) ==
    /\ \A k \in Answers(code, Received(n)) : Swallowed(Received(n), k)
    /\ TakeOff(n) /\ UseUp(Received(n))
    /\ UNCHANGED toDevice

\* Mutant: the frame returned is not erased from the buffer.
ReadAnswerKept(code, n, k) ==
    /\ IsFirst(k, Received(n), code)
    /\ TakeOff(n)
    /\ rx' = SubSeq(Received(n), k, Len(Received(n))) /\ claim' = 0
    /\ UNCHANGED toDevice

\* wait_for_frame: a read() that brings such a frame, the k-th, which is
\* returned; what is behind it stays in the buffer.
ReadAnswer(code, n, k) ==
    /\ IsFirst(k, Received(n), code)
    /\ TakeOff(n)
    /\ rx' = SubSeq(Received(n), k + 1, Len(Received(n))) /\ claim' = 0
    /\ UNCHANGED toDevice

\* drain_during_pause: a read(), and every frame is extracted and forgotten.
Drain ==
    /\ \E n \in 1 .. Len(fromDevice) : TakeOff(n) /\ UseUp(Received(n))
    /\ UNCHANGED toDevice

\* close() and serial_open(): the driver's input is flushed and the caller
\* starts with a fresh buffer.  `rest' is empty, or the rest of a frame that was
\* coming in while the driver was flushed.  What was written at least a pause
\* ago has left the driver, so flushing its output takes nothing back.
Reopen(rest) == fromDevice' = rest /\ rx' = <<>> /\ claim' = 0 /\ UNCHANGED toDevice

\* The buffer is given up; with it can go the first part of the next frame.
GiveUpBuffer(ahead) ==
    /\ fromDevice' \in {ahead} \cup
          (IF ahead = <<>> THEN {} ELSE {<<torn>> \o Tail(ahead) : torn \in TornFrames})
    /\ rx' = <<>> /\ claim' = 0

-----------------------------------------------------------------------------
(***************************************************************************)
(* The device's side (not in this repository).                             *)
(***************************************************************************)
\* The device is done with the oldest command and sends these frames.
Handle(reply) ==
    /\ toDevice # <<>>
    /\ toDevice' = Tail(toDevice)
    /\ fromDevice' = fromDevice \o reply
    /\ UNCHANGED <<rx, claim>>

\* What arrives of an answer that is lost: nothing, or a damaged frame.
Remains == {<<>>} \cup {<<torn>> : torn \in TornFrames}

\* A frame comes in that nobody asked for: a telegram from the radio.
Report(telegram) ==
    /\ fromDevice' = Append(fromDevice, telegram)
    /\ UNCHANGED <<toDevice, rx, claim>>
=============================================================================
