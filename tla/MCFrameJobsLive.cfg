SPECIFICATION FairSpec
CONSTANTS
    Workers = {w1, w2}
    Main = main
    Batches = {b1, b2}
    NoBatch = none
    MaxCount = 2
    Counts = {0, 1, 2}
    TargetGrains = 1
    MaxStarts = 1
    MaxSpurious = 1
PROPERTIES
    EveryItemRuns
    CallsReturn
