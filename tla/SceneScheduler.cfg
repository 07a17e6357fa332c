SPECIFICATION FairSpec
CONSTANTS
    NumRunners = 2
    Main = 1
    Outside = {o1}
    MaxProcesses = 1
    Programs = {g1}
    Background = Background
    Finishing = Finishing
    Empty = Empty
    Waiting = Waiting
    None = None
    o1 = o1
    g1 = g1
INVARIANTS
    PollExclusion
    ProcessTableIsSound
    WokenIsScheduled
    SomeRunnerWillLook
PROPERTIES
    WokenIsPolled
    StopEndsRunners
CHECK_DEADLOCK FALSE
