---------------------------- MODULE MCFramedLine ----------------------------
(***************************************************************************)
(* Two-bit bytes: START = 3, payloads of 0..3 bytes, frames of 4..7 bytes. *)
(* Nothing but noise: every stream of NoiseLength bytes over Alphabet.     *)
(* Noise among frames: one or no frame, a burst of up to three bytes, then *)
(* three frames, long enough for the last of them to begin more than the   *)
(* longest frame behind the noise.  All of it is cut into chunks in every  *)
(* way.                                                                    *)
(***************************************************************************)
EXTENDS FramedLine

CONSTANTS Alphabet, NoiseLength

MCFrames ==
    { [command |-> 1, payload |-> <<>>],      \* 3 1 0 2
      [command |-> 0, payload |-> <<1>>],     \* 3 0 1 1 3: its checksum is a start byte
      [command |-> 2, payload |-> <<0>>],     \* 3 2 1 0 0
      [command |-> 0, payload |-> <<2, 3>>] } \* 3 0 2 2 3 0: a start byte inside

NoiseOnly ==
    [before : {<<>>}, noise : [1 .. NoiseLength -> Alphabet], after : {<<>>}]

NoisyFrames ==
    [before : { <<>>, <<[command |-> 0, payload |-> <<2, 3>>]>> },
     noise : UNION { [1 .. n -> {0, 3}] : n \in 0 .. 3 },
     after : [1 .. 3 -> MCFrames]]

MCLines == NoiseOnly \cup NoisyFrames

MCStreams == { StreamOf(l) : l \in MCLines }
=============================================================================
