SPECIFICATION MCSpec
CONSTANTS
  Bindmaps <- MCBindmaps
  OwnMaps = {"Frame"}
  Subs = {"groupws", "tiling", "groupcw"}
  MapsOf <- MCMapsOf
  Managers <- MCManagers
  Keysyms = {"K", "L"}
  Keycodes = {1, 2}
  Mods = {"none", "Mod1"}
  Locks = {1, 2, 3}
  NoOwner = NoOwner
  BindCalls = {}
  MaxBind = 5
  Root = root
  Frames = {f1, f2}
  Inputs = {i1}
  Menus = {m1}
  Clients = {c1}
  NULL = NULL
  MAX_GRABS = 3
  DragCalls = {"quote"}
  MaxOps = 6
INVARIANTS GrabsSound ModesHaveGrab GrabbedIffBound OwnersFollow
CHECK_DEADLOCK FALSE
