SPECIFICATION Spec
CONSTANTS
  Fixtures = {"f1", "f2"}
  Markets = {"m1", "o1", "m2", "o2"}
  Frames <- CrossFrames
  CrossMarket = TRUE
  EloOverlay = TRUE
  Config <- BaseConfig
  ODDS_MILLI_SCALE = 10
  FitSignals <- Fits
  Multipliers = {50, 150}
  MaxSkew = 1
  MaxTime = 3
INVARIANTS
  SettledWhenIdle
PROPERTIES
  SettlementsLocked
CHECK_DEADLOCK FALSE
