SPECIFICATION Spec
CONSTANTS
  Operators = {o1}
  Dispatcher = dispatcher
  Allowed = {"message", "follow"}
  MaxTurns = 2
  Overlap = FALSE
INVARIANTS
  EachTurnCommitted
CHECK_DEADLOCK FALSE
