SPECIFICATION Spec
CONSTANTS
  Operators = {o1}
  Dispatcher = dispatcher
  Allowed = {"message"}
  MaxTurns = 2
  Overlap = FALSE
INVARIANTS
  NoParallelTurns
CHECK_DEADLOCK FALSE
