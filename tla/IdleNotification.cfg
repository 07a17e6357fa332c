SPECIFICATION FairSpec
CONSTANTS
    Programs = {g1, g2}
    IdleProgram = IdleProgram
    Runners = {r1, r2}
    Outside = {o1}
    Situations <- TheSituations
    g1 = g1
    g2 = g2
    r1 = r1
    r2 = r2
    o1 = o1
    None = None
INVARIANTS
    NotifiesOnlyWhenIdle
    RequestsAreKept
PROPERTIES
    RequestIsAnswered
    
CHECK_DEADLOCK FALSE
