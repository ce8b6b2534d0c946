SPECIFICATION Spec
CONSTANTS
  Programs = {"oracle", "other"}
  ScoreFeed <- EarlyScores
  OddsFeed <- OneSnapshot
  Authorities = {"alice", "bob"}
  StrategyIds = {1}
  Fixtures = {"f1"}
  Markets = {0, 1}
  Bankrolls = {10}
  Reveals <- SealReveals
  Timestamps = {1}
  DayLength = 1
  MaxDay = 1
  VOID_GRACE_SECONDS = 1
  MaxI64 = 4000
  MaxU64 = 9000
  MaxDecisions = 1
  MaxTime = 2
INVARIANTS
  SettledOnProof
  EntryOddsPublished
PROPERTIES
  AccountsOnlyAdvance
  ImplementsSealedBets
CHECK_DEADLOCK FALSE
