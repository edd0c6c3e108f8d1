SPECIFICATION FairSpec
CONSTANTS
    Byte = {0, 1, 2}
    MAGIC = 2
    TAG_LEN = 1
    header_crc <- MCHeaderCrc
    Seal <- MCSeal
    N = 5
    MAX_PACKET = 1
    Chunks <- MCChunks
    ChunkLens = {0, 1, 2, 3, 6}
    MAX_STREAM = 9
    NoCall = NoCall
INVARIANTS
    TypeOK
    LeftoverShort
    ChunkingIrrelevant
    CleanStreamKept
PROPERTIES
    ImplementsFraming
    CallReturns
CHECK_DEADLOCK FALSE
