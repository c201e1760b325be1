SPECIFICATION GroupsSpec
CONSTANTS
  Wins = {w1, w2}
  Groups = {"ws", "cw"}
  CWGroups = {"cw"}
  Regs = {"r1", "r2", "t"}
  Tilings = {"t"}
  STDisp = "stdisp"
  Home = w1
  Levels = {1, 3}
  NoItem = NoItem
  ON_TOP = 2
  MODAL1 = 3
  GroupCalls = {}
  MaxGroupOps = 3
INVARIANTS GroupsSound STDispShown FocusReaches
PROPERTY StayTogether
CHECK_DEADLOCK FALSE
