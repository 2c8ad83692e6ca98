\* Two peers and a channel of two; two calls that may give up and a third that
\* has no deadline; two verbs and two sessions of others.  All may end.
SPECIFICATION MCSpec
CONSTANTS
  p1 = p1
  p2 = p2
  Conns = {p1, p2}
  NoConn = NoConn
  OpsCap = 2
  MaxFrames = 2
  Lossy = TRUE
  None = None
  Closed = Closed
  c1 = c1
  c2 = c2
  c3 = c3
  Calls = {c1, c2, c3}
  Deadlines = {c1, c2}
  v1 = v1
  v2 = v2
  VerbIds = {v1, v2}
  MaxRegisters = 2
  MaxPicks = 2
  MaxSessions = 2
  SlowBroker = TRUE
  QuietInstall = TRUE
INVARIANTS
  OwnReply
  FramesInOrder
PROPERTIES
  CallsEnd
  ConnectionsEnd
  BridgesHold
CHECK_DEADLOCK FALSE
