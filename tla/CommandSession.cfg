SPECIFICATION FairSpec
CONSTANTS
    Scripts <- TheScripts
    Variables = {x, r}
    Responses <- TheResponses
    OutsideValues = {o}
    MaxOutsideCalls = 1
    MaxStreamMessages = 2
    MaxEmitted = 1
    x = x
    r = r
    b = b
    j = j
    k = k
    u = u
    w = w
    o = o
    Undefined = Undefined
    None = None
INVARIANTS
    InputIsKept
    RequestsSeeAssignments
    OutputIsFramed

    
CHECK_DEADLOCK FALSE
