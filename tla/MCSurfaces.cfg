\* Drags of dividers and tiles, with splits, closes and switches in between.
SPECIFICATION MCSpec
CONSTANTS
  Apps <- MCApps
  OpDirs <- MCDirs
  OpRatios = {}
  Names = {}
  MaxId = 100
  MaxWs = 2
  MaxLeaves = 3
  Area <- MCArea
  Gap = 2
  Pointers <- MCPointers
  MaxTiles = 3
  trace = trace
  deploy = deploy
  LauncherCmds <- MCLauncherCmds
  KindOf <- MCKindOf
  Hits <- MCHits
  MaxQuery = 1
  MaxRows = 2
  MaxUses = 1
  Places = {1, 2}
  DataDirs <- MCDataDirs
  FileIds = {"firefox"}
  MaxWrites = 3
VIEW MCView
INVARIANTS
  ScreenHolds
  
  KeyboardFollows
PROPERTIES
  DragsLand
  
CHECK_DEADLOCK FALSE
