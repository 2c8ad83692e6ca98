\* Tiles, floats, workspaces and fullscreen by keys, mouse and launcher.
SPECIFICATION Spec
CONSTANTS
  c1 = c1
  c2 = c2
  Clients = {c1, c2}
  None = None
  Ops <- ScreenOps
  MaxLeaves = 2
  MaxWs = 2
SYMMETRY MCSymmetry
VIEW ShellView
INVARIANTS
  FramesConsistent
PROPERTIES
  SwitchLandsFocus
