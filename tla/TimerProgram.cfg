SPECIFICATION FairTimerSpec
CONSTANTS
    Clients = {p, q}
    TimerRequests <- TheRequests
    Capacity = 1
    MaxRequests = 2
    MaxLate = 2
    MaxStarts = 1
    p = p
    q = q
    Disconnected = Disconnected
    Unset = Unset
INVARIANTS
    TimerIsReady
    TimersKeepTheirBeat
PROPERTIES
    ExpiredTimerFires
CHECK_DEADLOCK FALSE
