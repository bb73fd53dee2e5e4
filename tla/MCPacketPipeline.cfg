SPECIFICATION FairSpec
CONSTANTS
    MaxSent = 2
    MaxStarts = 2
    MaxConnects = 2
    Capacity = 2
INVARIANTS
    TypeOK
    ReceiveIsSafe
    WorldSeesAll
    PhaseMatchesScreen
PROPERTIES
    WorldEnds
