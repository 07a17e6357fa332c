SPECIFICATION ConnectionsSpec
CONSTANTS
    Programs = {p, r}
    MaxHandles = 2
    Types = {"A", "B", "U"}
    InputType <- TheInputs
    Filters = {ab}
    FilterSource <- TheFilterSource
    FilterTarget <- TheFilterTarget
    DefaultTarget <- AnyByDefault
    Threads = {t1, t2}
    Requests <- TheRequests
    Sends <- TheSends
    NewSinksBeforeRelease = 1
    MaxConnects = 2
    MaxStarts <- TheStarts
    MaxStops = 1
    MaxSends = 2
    p = p
    r = r
    ab = ab
    t1 = t1
    t2 = t2
    Disconnected = Disconnected
    Discard = Discard
    TargetNotInScene = TargetNotInScene
    TargetNotAvailable = TargetNotAvailable
    WrongInputType = WrongInputType
    FilterMappingMissing = FilterMappingMissing
    FilterOutputDoesNotMatch = FilterOutputDoesNotMatch
    FilterInputDoesNotMatch = FilterInputDoesNotMatch
    None = None
SYMMETRY Symmetry
INVARIANTS
    TableIsSound
    HeldSinkIsRegistered
    
    GeneralConnectionIsMade
CHECK_DEADLOCK FALSE
