\* Three cells, one in the worker, one in the queue and one to be queued.
SPECIFICATION ReplSpec
CONSTANTS
  Sources = {"expr"}
  EvalCap = 1
  MaxCells = 3
  MaxMoves = 0
CHECK_DEADLOCK FALSE
INVARIANTS SubmitNeverBlocks
