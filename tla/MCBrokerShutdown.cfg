\* The broker's goroutines when ctx is cancelled: one peer.
SPECIFICATION ServeSpec
CONSTANTS
  p1 = p1
  p2 = p2
  Conns = {p1}
  NoConn = NoConn
  OpsCap = 2
  MaxFrames = 2
PROPERTIES ServeReturns
CHECK_DEADLOCK FALSE
