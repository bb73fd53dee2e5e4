SPECIFICATION FairSpec
CONSTANT MaxCalls = 1
CONSTANT Character = {"list", "delete", "rename"}
CHECK_DEADLOCK FALSE
INVARIANTS
  IInv
PROPERTIES
  CancelledStaysCancelled
  FlowComesToRest
