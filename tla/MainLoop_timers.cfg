\* two timers, no signals
SPECIFICATION MCSpec
CONSTANTS
  Timers = {t1, t2}
  Children = {}
  UserSignals = {}
  Off = Off
  MaxDelay = 2
  MaxTime = 2
SYMMETRY Symmetry
INVARIANTS NoLostTimer OnTime
PROPERTY ImplementsService
