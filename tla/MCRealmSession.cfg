SPECIFICATION FairSpec
CONSTANTS
    MaxSends = 2
    MaxControl = 3
    MaxStreams = 3
    MaxConnects = 2
INVARIANTS
    IInv
    NothingLostInTransfer
    AnnouncedOnce
PROPERTIES
    OnlyToListeners
    WaitingEnds
