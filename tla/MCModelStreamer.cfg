SPECIFICATION Spec
CONSTANTS
    Paths = {p, q}
    NoPath = none
    Priorities = {0, 1}
    MaxTasks = 2
    MaxTextures = 2
    MaxModels = 2
    MaxLeases = 2
    MaxResets = 0
    MaxLoads = 1
INVARIANTS
    IInv
    LeasedModelStays
PROPERTIES
    TicketsMoveForward
