SPECIFICATION FairSpec
CONSTANTS
  Cmds = {cmd}
  None = None
  SaveFails = TRUE
  MaxChanges = 1
  MaxRequests = 2
  MaxSmSaves = 1
  MaxBreaks = 1
INVARIANTS OneDone RequestKept
PROPERTIES SaveAnswered RestartHappens
CHECK_DEADLOCK FALSE
