SPECIFICATION Spec
CONSTANTS
  Lines = {0, 1, 2}
  Context = own
  Foreign = foreign
  Entries <- MCEntries
  HISTORY_SIZE = 3
  NoEntry = NoEntry
  NULL = NULL
  Histories <- MCHistories
  Pushed <- MCPushed
  Calls = {}
  MaxOps = 4
INVARIANTS AskedAfterChange
PROPERTIES AnswerFits HistoryStaysList
CHECK_DEADLOCK FALSE
