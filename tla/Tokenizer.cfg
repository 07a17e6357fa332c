SPECIFICATION FairTokenizerSpec
CONSTANTS
    Inputs <- MCInputs
    ReadAhead = 3
    ReadBuffer = 2
    ChunkBytes = 3
INVARIANTS
    BufferIsSound
PROPERTIES
    TokensOfTheWholeInput
    InputIsConsumed
CHECK_DEADLOCK FALSE
