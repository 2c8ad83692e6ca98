\* The accept protocol: two clients, every order of starts, answers, cancels, clicks and closes.
SPECIFICATION Spec
CONSTANTS
  c1 = c1
  c2 = c2
  c3 = c3
  Conns = {c1, c2}
  Nobody = Nobody
  NameOf <- MCSameName
  IsWM <- MCNoWM
  Ptypes = {"color", "file"}
  WantSets = {{"color"}}
  VerbIds = {}
  Kinds <- AcceptKinds
  MaxReq = 3
  MaxIn = 1
  SendCap = 3
SYMMETRY MCSymmetry
INVARIANTS
  OneReply
  NoneForgotten
  ViewsAgree
CHECK_DEADLOCK FALSE
