SPECIFICATION Spec
CONSTANTS
  Operators = {o1, o2}
  Dispatcher = dispatcher
  Allowed = {"list", "message"}
  MaxTurns = 2
  Overlap = FALSE
SYMMETRY Symmetry
INVARIANTS
  LocalProofSound
CHECK_DEADLOCK FALSE
