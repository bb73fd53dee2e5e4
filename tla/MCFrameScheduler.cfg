SPECIFICATION Spec
CONSTANTS
    Main = main
    Others = {other}
    PhaseCount = 1
    Priorities = {0, 1}
    MaxHandles = 3
    MaxDepth = 2
    MaxFrames = 1
    MayThrow = TRUE
INVARIANTS
    IInv
    NothingLost
PROPERTIES
    EntriesFrozen
