SPECIFICATION Spec
CONSTANTS
    Workers = {w1, w2}
    Main = main
    Batches = {b1, b2}
    NoBatch = none
    MaxCount = 5
    Counts = {0, 1, 5}
    TargetGrains = 1
    MaxStarts = 2
    MaxSpurious = 1
SYMMETRY Symmetry
INVARIANTS
    WaitReturnsAfterWork
    ShutdownRunsTheQueue
    IInv
PROPERTIES
    ReturnedBatchIsFrozen
    ImplementsRangeWork
