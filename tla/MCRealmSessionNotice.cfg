SPECIFICATION Spec
CONSTANTS
    MaxSends = 1
    MaxControl = 3
    MaxStreams = 2
    MaxConnects = 1
INVARIANTS
    DropIsAnnounced
