\* Every op, one by one and in batches; no swaps, no fullscreen.
SPECIFICATION Spec
CONSTANTS
  c1 = c1
  c2 = c2
  Clients = {c1}
  None = None
  Ops <- ScriptOps
  MaxLeaves = 2
  MaxWs = 2
VIEW ShellView
INVARIANTS
  TreeMatchesFrames
  
  OrphansAsked
