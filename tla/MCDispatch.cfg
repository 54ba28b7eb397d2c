SPECIFICATION Spec
CONSTANTS
  Operators = {o1}
  Dispatcher = dispatcher
  Allowed = {"list", "follow", "message", "queue"}
  MaxTurns = 2
  Overlap = FALSE
INVARIANTS
  TurnInv
  NoReplay
  SendInv
  LocalProofSound
  SettledHasCommit
  CompletionIsReply
CHECK_DEADLOCK FALSE
