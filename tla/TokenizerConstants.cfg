SPECIFICATION TokenizerSpec
CONSTANTS
    Inputs <- LineInputs
    ReadAhead = 32
    ReadBuffer = 64
    ChunkBytes = 256
INVARIANTS
    ConstantsAreJson
CHECK_DEADLOCK FALSE
