SPECIFICATION FairDispatcherSpec
CONSTANTS
    Programs <- ThePrograms
    Dispatcher = d
    Launchers = {p, q}
    Tasks <- TheTasks
    First <- TheFirst
    CommandNames = {n, m}
    Offers <- TheOffers
    List = List
    Capacity = 1
    MaxHandles = 5
    MaxRequests = 3
    MaxStarts = 1
    MaxEnds = 1
    d = d
    p = p
    q = q
    n = n
    m = m
    Disconnected = Disconnected
    Dead = Dead
    None = None
INVARIANTS
    EveryRequestInOnePlace
    DispatcherIsSound
PROPERTIES
    RequestIsAnswered
CHECK_DEADLOCK FALSE
