SPECIFICATION Spec
CONSTANTS
  B = 4
  Bytes16 = 2
  Bytes32 = 3
  Bytes64 = 4
  HashLen = 2
  MaxSafe = 100
  DayMs = 4
  StrategyId = 1
  Strategies <- MCStrategies
  Reveals <- MCReveals
  Scores <- MCScores
  Quotes <- MCQuotes
  Reasons <- MCReasons
  Ledgers <- MCLedgers
  Commits <- MCCommits
INVARIANTS
  Understood
  RootAgrees
  ReadsTellTheChain
