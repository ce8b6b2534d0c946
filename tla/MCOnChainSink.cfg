SPECIFICATION SinkSpec
CONSTANTS
  Programs = {"oracle"}
  ScoreFeed <- Scores
  OddsFeed <- Quotes
  Authorities = {"agent"}
  StrategyIds = {1}
  Fixtures = {"f1"}
  Markets = {0}
  Bankrolls = {10}
  Reveals <- Seals
  Timestamps = {0}
  DayLength = 10
  MaxDay = 1
  VOID_GRACE_SECONDS = 0
  MaxI64 = 4000
  MaxU64 = 9000
  MaxDecisions = 3
  MaxTime = 0
  Agent = "agent"
  StrategyId = 1
  Oracle = "oracle"
  StartingBankroll = 10
  Decisions <- TwoDecisions
  Foreign <- Stranger
  HourMs = 2
  ODDS_LOOKBACK_HOURS = 2
  MaxNonce = 3
  MaxRestarts = 1
INVARIANTS
  RevealFitsChain
  StoreBackedByChain
  FailuresRecorded
  SettledOnFinalRecord
CHECK_DEADLOCK FALSE
