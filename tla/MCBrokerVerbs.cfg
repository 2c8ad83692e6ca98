\* Verbs, menus, events and hovers: a window manager and an application with names of their own.
SPECIFICATION Spec
CONSTANTS
  c1 = c1
  c2 = c2
  c3 = c3
  Conns = {c1, c2}
  Nobody = Nobody
  NameOf <- MCNameOf
  IsWM <- MCIsWM
  Ptypes = {"color"}
  WantSets = {{"any"}}
  VerbIds = {"mix"}
  Kinds <- VerbKinds
  MaxReq = 3
  MaxIn = 1
  SendCap = 2
INVARIANTS
  VerbsFollowClients
CHECK_DEADLOCK FALSE
