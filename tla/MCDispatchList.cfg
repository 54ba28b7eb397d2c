SPECIFICATION Spec
CONSTANTS
  Operators = {o1}
  Dispatcher = dispatcher
  Allowed = {"list"}
  MaxTurns = 1
  Overlap = TRUE
INVARIANTS
  AckedIsKept
CHECK_DEADLOCK FALSE
