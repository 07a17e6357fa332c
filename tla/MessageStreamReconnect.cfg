SPECIFICATION Spec
CONSTANTS
    Senders = {s1}
    Immediate = {{}}
    Inputs = {i1, i2}
    WithSources = {i2}
    Cores = {c1}
    CoreOf <- OneCore
    MaxWaiting = 0
    IdleQueueLen = 1
    ResendAfterError = TRUE
    MaxMessages = 3
    MaxSends = 3
    MaxBlocks = 0
    MaxChanges = 2
    MaxWakers = 1
    s1 = s1
    i1 = i1
    i2 = i2
    c1 = c1
    c2 = c2
    Disconnected = Disconnected
    Discard = Discard
    None = None
INVARIANTS
    EveryMessageInOnePlace
    MessagesInOrder
CHECK_DEADLOCK FALSE
