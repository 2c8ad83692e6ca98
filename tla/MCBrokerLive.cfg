\* Liveness of the accept protocol.
SPECIFICATION LiveSpec
CONSTANTS
  c1 = c1
  c2 = c2
  c3 = c3
  Conns = {c1, c2}
  Nobody = Nobody
  NameOf <- MCSameName
  IsWM <- MCNoWM
  Ptypes = {"color", "file"}
  WantSets = {{"color"}}
  VerbIds = {}
  Kinds <- LiveKinds
  MaxReq = 2
  MaxIn = 1
  SendCap = 3
PROPERTIES RequestsAnswered AbandonedSessionEnds
CHECK_DEADLOCK FALSE
