\* The first subscribe request may fail, a rule's call may time out, a render
\* may throw.  All may end.
SPECIFICATION MCSpec
CONSTANTS
  h1 = h1
  h2 = h2
  Handlers = {h1, h2}
  ChanCap = 2
  QueueCap = 2
  MaxEvents = 5
  BusFails = TRUE
  w1 = w1
  w2 = w2
  w3 = w3
  s1 = s1
  s2 = s2
  Windows = {w1, w2, w3}
  RuleFor <- MCRuleFor
  NoName = "none"
  RuleScripts = {s1}
  WantedBy <- MCWantedBy
  FloatScripts = {s1}
  MaxSpaces = 3
  MaxMaps = 2
  MaxRuns = 2
  MaxFloats = 2
  SlowCalls = TRUE
  MaxChanges = 2
  MaxKeys = 2
  TileTaken = TRUE
  Sources = {"expr", "stmt", "throws", "bad"}
  EvalCap = 1
  MaxCells = 3
  MaxMoves = 2
INVARIANTS
  InOrder
  NothingTwice
  RulesHold
  CellsOwn
PROPERTIES
  QueuedSeen
  ScreenFollows
  CellsComplete
CHECK_DEADLOCK FALSE
