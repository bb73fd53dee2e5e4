SPECIFICATION FairSpec
CONSTANTS
    MaxCalls = 3
INVARIANTS
    IInv
    StreamStaysWhole
PROPERTIES
    CallsEnd
