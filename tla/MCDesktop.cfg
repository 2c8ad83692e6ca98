\* Every op, on desktops of up to two workspaces.
SPECIFICATION Spec
CONSTANTS
  Apps <- MCApps
  OpDirs <- MCDirs
  OpRatios <- MCRatios
  Names <- MCNames
  MaxId = 5
  MaxWs = 2
  MaxLeaves = 3
VIEW DesktopView
INVARIANTS
  DesktopValid
PROPERTIES
  ImplementsLeafSlots
  DividersLocal
CHECK_DEADLOCK FALSE
