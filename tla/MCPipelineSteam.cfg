SPECIFICATION Spec
CONSTANTS
  Fixtures = {"f1", "f2"}
  Markets = {"m1", "n1", "m2"}
  Frames <- SteamFrames
  CrossMarket = FALSE
  EloOverlay = FALSE
  Config <- BaseConfig
  ODDS_MILLI_SCALE = 10
  FitSignals <- Fits
  Multipliers = {100}
  MaxSkew = 1
  MaxTime = 2
INVARIANTS
  RiskBooksAgree
  WithinLimits
  LossIsBounded
  OnePositionPerKey
  TrackedScoreIsBest
  SettledOnFinal
CHECK_DEADLOCK FALSE
