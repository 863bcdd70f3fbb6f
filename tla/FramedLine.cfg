CONSTANTS
    ByteBits = 2
    MaxByte = 3
    Alphabet = {0, 1, 3}
    NoiseLength = 9
    Lines <- MCLines
    Streams <- MCStreams
    ReadMax = 6
SPECIFICATION LineSpec
INVARIANTS TypeOK BufferBounded ChunkingIrrelevant DeliversWhatWasSent Resynchronises
PROPERTIES ImplementsFrameStream ExtractionTerminates
