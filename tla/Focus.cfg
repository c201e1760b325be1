SPECIFICATION MCSpec
CONSTANTS
  root = root
  f1 = f1
  f2 = f2
  g = g
  c1 = c1
  c2 = c2
  NULL = NULL
  Root = root
  Frames = {f1, f2}
  Groups = {g}
  Clients = {c1, c2}
  NoInput = {c2}
  Tiled = {f2}
  StartParent <- MCParent
  StartManager <- MCManager
  MaxOps = 4
  Windows = {w1, w2}
  NoWindow = NoWindow
  Geoms = {g1, g2}
  ClientCalls = {}
  MaxMoves = 2
  MaxEnds = 1
SYMMETRY Symmetry
CHECK_DEADLOCK FALSE
INVARIANTS LinksFollow CurrentFirst GotoArrives ClientsKnown ConfigureAnswered NoWindowLost
