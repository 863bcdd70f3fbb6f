----------------------------- MODULE FramedLine -----------------------------
(***************************************************************************)
(* FrameReader on a line that carries frames a device really built, one    *)
(* behind the other, with at most one burst of noise among them: what is   *)
(* left of a frame whose beginning went into an earlier buffer (the local  *)
(* buffer of try_read_rssi_enabled), bytes the driver dropped or mangled.  *)
(***************************************************************************)
EXTENDS FrameReader

CONSTANT Lines  \* [before, after: sequences of frames, noise: bytes]

VARIABLE line

lineVars == <<vars, line>>

Frame(f) == BuildFrame(f.command, f.payload)

BytesOf(fs) == FlattenSeq([k \in DOMAIN fs |-> Frame(fs[k])])

StreamOf(l) == BytesOf(l.before) \o l.noise \o BytesOf(l.after)

ASSUME LineAssumption ==
    \A l \in Lines :
        /\ l.before \in Seq(Frames) /\ l.noise \in Seq(Byte) /\ l.after \in Seq(Frames)
        /\ StreamOf(l) \in Seq(Byte)

LineInit == \E l \in Lines : line = l /\ InitWith(StreamOf(l))

LineNext == Next /\ UNCHANGED line

LineSpec == LineInit /\ [][LineNext]_lineVars /\ Fairness

-----------------------------------------------------------------------------
\* The k-th frame of fs, on the line behind `ahead' bytes, and where it ends.
Placed(fs, k, ahead) ==
    [at |-> ahead + Len(BytesOf(SubSeq(fs, 1, k - 1))) + 1,
     frame |-> [command |-> fs[k].command, payload |-> fs[k].payload]]

EndOf(fs, k, ahead) == ahead + Len(BytesOf(SubSeq(fs, 1, k)))

\* Every frame in front of the noise is delivered as it was built, as soon as
\* the read() that completes it has been processed; and so is every frame
\* behind the noise when the noise holds no start byte.
IntactFramesDelivered ==
    LET behind == Len(BytesOf(line.before) \o line.noise)
    IN  phase = "reading" =>
        /\ \A k \in DOMAIN line.before :
              EndOf(line.before, k, 0) <= taken =>
                 \E i \in DOMAIN frames : frames[i] = Placed(line.before, k, 0)
        /\ ~Contains(line.noise, START) =>
              \A k \in DOMAIN line.after :
                 EndOf(line.after, k, behind) <= taken =>
                    \E i \in DOMAIN frames : frames[i] = Placed(line.after, k, behind)

\* Nothing that the device did not send as a frame is delivered, neither in
\* front of the noise nor, when the noise holds no start byte, anywhere.
OnlyFramesDelivered ==
    LET behind == Len(BytesOf(line.before) \o line.noise)
    IN  \A i \in DOMAIN frames :
           (frames[i].at <= Len(BytesOf(line.before)) \/ ~Contains(line.noise, START))
            => \/ \E k \in DOMAIN line.before : frames[i] = Placed(line.before, k, 0)
               \/ \E k \in DOMAIN line.after : frames[i] = Placed(line.after, k, behind)

\* In front of the noise, and everywhere when the noise holds no start byte, the
\* frames delivered are exactly the frames sent.
DeliversWhatWasSent == IntactFramesDelivered /\ OnlyFramesDelivered

\* Whatever the noise is, the reader is in step again within the length of
\* the longest frame: frames that contain no second start byte and begin
\* later than that are all delivered.
Resynchronises ==
    LET behind == Len(BytesOf(line.before) \o line.noise)
    IN  (phase = "reading" /\ \A k \in DOMAIN line.after :
                                 ~Contains(Tail(Frame(line.after[k])), START))
        => \A k \in DOMAIN line.after :
              LET placed == Placed(line.after, k, behind)
              IN  (EndOf(line.after, k, behind) <= taken /\ placed.at >= behind + MaxFrameLength)
                  => \E i \in DOMAIN frames : frames[i] = placed
=============================================================================
