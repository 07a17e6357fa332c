SPECIFICATION FairControlSpec
CONSTANTS
    Programs = {a, s, w}
    Subscribers = {a, s}
    Control = Control
    First = s
    Stopper = w
    MaxHandles = 3
    Requests <- TheRequests
    Connectable <- TheConnections
    Capacity = 1
    MaxRequests = 1
    MaxSubscribes = 1
    MaxStarts = 1
    MaxChanges = 1
    a = a
    s = s
    w = w
    Discard = Discard
    Disconnected = Disconnected
    Nothing = Nothing
    None = None
INVARIANTS
    SubscriptionsAreSound
    ViewIsTrue
PROPERTIES
    ControlReturns
CHECK_DEADLOCK FALSE
