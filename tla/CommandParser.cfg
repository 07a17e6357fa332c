SPECIFICATION Spec
CONSTANTS
    Modes <- BothModes
    MaxTokens = 8
INVARIANTS
    StackIsSound
    RequestIsWhatWasWritten
    CompleteRequestIsNotHeld
CHECK_DEADLOCK FALSE
