SPECIFICATION Spec
CONSTANTS
  MaxFrames = 4
  Sizes <- MCSizes
  Hints <- MCHints
  SPLIT_MINS = 1
  Requests <- MCRequests
  Calls = {}
  MaxOps = 4
INVARIANTS Tiled
PROPERTIES CurrentFollows MinKept
CHECK_DEADLOCK FALSE
