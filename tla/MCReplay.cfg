SPECIFICATION Spec
CONSTANTS
  Callers = {feed, prover}
  replay = feed
  maxAttempts = 2
  MaxIssued = 3
  Mortal = {1, 2}
  OddsRecords <- OddsSent
  ScoreRecords <- ScoresSent
  Recordings <- Both
  startMs = 3
INVARIANTS
  BudgetKept
  UnauthorizedIsReal
  EmissionIsOrdered
  ReplaysFirstCopies
CHECK_DEADLOCK FALSE
