\* two children and two user signals, or a timer
SPECIFICATION MCFairSpec
CONSTANTS
  Timers = {t1}
  Children = {c1, c2}
  UserSignals = {"USR2", "TERM"}
  Off = Off
  MaxDelay = 1
  MaxTime = 1
INVARIANTS NoMissedSignal NoLostChild
PROPERTIES ChildrenReaped TimersServed
CHECK_DEADLOCK FALSE
