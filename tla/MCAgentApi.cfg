SPECIFICATION FairSpec
CONSTANTS
  Dashboards = {desk}
  Positions = {0, 1}
  Pnl <- WinAndLose
  FeedStatuses = {"reconnecting"}
  startingBankroll = 10
  Underway <- SettledOrCommitted
  MAX_RECENT_ERRORS = 1
  MaxUpdates = 2
  MaxConnections = 2
  MaxRuns = 2
INVARIANTS
  NoUpdateLost
  PageAgrees
PROPERTIES
  ViewsOnlyAdvance
  CatchesUp
  ShutdownExits
CHECK_DEADLOCK FALSE
