SPECIFICATION MCSpec
CONSTANTS
  Frames = {f, t, u}
  Floating = {f}
  Regions = {r1, r2, r3}
  Phs = {h1, h2, h3}
  NULL = NULL
  Other = Other
  AttachFlags <- MCFlags
  Indices <- MCIndices
  Calls = {}
  MaxOps = 4
SYMMETRY Symmetry
INVARIANTS LinksSound OneShown
PROPERTY OrderKept
CHECK_DEADLOCK FALSE
