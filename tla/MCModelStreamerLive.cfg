SPECIFICATION FairSpec
CONSTANTS
    Paths = {p}
    NoPath = none
    Priorities = {0}
    MaxTasks = 2
    MaxTextures = 2
    MaxModels = 2
    MaxLeases = 2
    MaxResets = 1
    MaxLoads = 1
INVARIANTS
    IInv
PROPERTIES
    TicketsAreAnswered
    UnusedGoes
