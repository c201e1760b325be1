SPECIFICATION Spec
CONSTANTS
  Frames = {f, t}
  Floating = {f}
  Regions = {r1, r2}
  Phs = {h1, h2, h3}
  NULL = NULL
  Other = Other
  AttachFlags <- MCFlags
  Indices <- MCIndices
  Calls = {"orphan"}
  MaxOps = 6
SYMMETRY Symmetry
INVARIANTS UnlinkAsserted
CHECK_DEADLOCK FALSE
