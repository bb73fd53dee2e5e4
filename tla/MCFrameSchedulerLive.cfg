SPECIFICATION FairSpec
CONSTANTS
    Main = main
    Others = {other}
    PhaseCount = 2
    Priorities = {0}
    MaxHandles = 2
    MaxDepth = 2
    MaxFrames = 1
    MayThrow = FALSE
INVARIANTS
    FrameCallsEveryone
PROPERTIES
    KeptIsCalled
