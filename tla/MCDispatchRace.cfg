SPECIFICATION Spec
CONSTANTS
  Operators = {o1, o2}
  Dispatcher = dispatcher
  Allowed = {"follow", "abort"}
  MaxTurns = 1
  Overlap = FALSE
SYMMETRY Symmetry
INVARIANTS
  AckedIsKept
  AdmittedIsTraceable
CHECK_DEADLOCK FALSE
