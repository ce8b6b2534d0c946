SPECIFICATION Spec
CONSTANTS
  Programs = {"oracle", "other"}
  ScoreFeed <- MCScoreFeed
  OddsFeed <- NoOdds
  Authorities = {"alice"}
  StrategyIds = {1}
  Fixtures = {"f1", "f2"}
  Markets = {0}
  Bankrolls = {1}
  Reveals <- SettlementReveals
  Timestamps = {1, 3}
  DayLength = 2
  MaxDay = 1
  VOID_GRACE_SECONDS = 2
  MaxI64 = 4000
  MaxU64 = 9000
  MaxDecisions = 2
  MaxTime = 3
INVARIANTS
  TypeOK
  LedgerAgrees
  BankrollDominates
  LogBindsHistory
CHECK_DEADLOCK FALSE
