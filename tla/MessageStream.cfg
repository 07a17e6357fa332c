SPECIFICATION FairSpec
CONSTANTS
    Senders = {s1, s2}
    Immediate <- NoneOrOne
    Inputs = {i1}
    WithSources = {}
    Cores = {c1, c2}
    CoreOf <- OwnCore
    MaxWaiting = 0
    IdleQueueLen = 1
    ResendAfterError = FALSE
    MaxMessages = 2
    MaxSends = 3
    MaxBlocks = 1
    MaxChanges = 0
    MaxWakers = 1
    s1 = s1
    s2 = s2
    i1 = i1
    c1 = c1
    c2 = c2
    Disconnected = Disconnected
    Discard = Discard
    None = None
INVARIANTS
    EveryMessageInOnePlace
    BackPressure
    WakeUpsAreKept
PROPERTIES
    SendEnds
    QueuedIsReceived
CHECK_DEADLOCK FALSE
