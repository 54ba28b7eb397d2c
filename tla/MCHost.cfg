SPECIFICATION HostSpec
CONSTANTS
  a = a
  b = b
  gone = gone
  Proc = {a, b, gone}
  Command = {a, b}
  Product = {f1}
  p1 = p1
  p2 = p2
  p3 = p3
  broken = broken
  Broken = broken
  Verb <- MCVerb
  Argument <- MCArgument
  Key <- MCKey
  Rank <- MCRank
  Normal <- MCNormal
  Split <- MCSplit
  Files <- MCFiles
  Asker = {p1, p2}
  Tag = {"first", "second"}
  Actor = {p1, p2, p3}
  Setups <- MCSetups
  MaxEdits = 3
  MaxFaults = 2
  MaxFiles = 2
  MaxLines = 2
  PageLimit = 1
  MaxPages = 1
INVARIANTS
  HostInv
  TreesInv
  MutualExclusion
  LastJobHolds
  NoEmptyCommit
  UncertainIsTraced
  PullHasBranch
  PagesAreComplete
  LiveTabKept
  NoForgottenScreen
  VerdictIsHistory
  JournalExact
  OneSpawner
  ScannersAgree
  GrammarIsParsed
PROPERTIES
  ProtectedKept
  PruneSparesWriters
  CorruptionIsReal
  EveryAttemptEnds
  EndsUnlessMissed
CHECK_DEADLOCK FALSE
