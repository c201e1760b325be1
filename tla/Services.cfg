SPECIFICATION MCSpec
CONSTANTS
  Fns = {f1, f2, f3}
  Items = {i1, i2, i3}
  NoItem = NoItem
  HookCalls = {}
  MaxHooked = 6
  MaxNested = 2
  Pipes = {p1, p2, p3}
  Conns = {c1, c2}
  Nothing = Nothing
  MAX_SERVED = 1
  MAX_DATA = 2
  InputCalls = {}
  MaxData = 1
  MaxRequest = 2
  InUse <- MCInUse
  USECS_IN_SEC = 10
  USECS_IN_MSEC = 2
  UINT = 16
  MaxMsecs = 15
  MaxClock = 25
SYMMETRY Symmetry
INVARIANTS CallsSound StreamsKept TimerExact
CHECK_DEADLOCK FALSE
