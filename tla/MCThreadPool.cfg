SPECIFICATION FairSpec
CONSTANTS
    Workers = {w1, w2}
    Callers = {owner, other}
    Owner = owner
    ThreadCounts = {0, 2}
    Priorities = {0, 1}
    MaxTasks = 3
    MaxStarts = 2
INVARIANTS
    IInv
PROPERTIES
    StatusMovesForward
    QueuedIsServed
    CallersReturn
    ImplementsTaskService
