SPECIFICATION FairSpec
CONSTANTS
  MaxPublished <- MoreOdds
  MaxChunk = 2
  ResumeHonoured = TRUE
  IntervalsPerHour = 2
  maxReconnects = 1
  Malformed <- OddsFrameMalformed
  Unmappable <- ScoreUnmappable
INVARIANTS
  TypeOK
  NoLostWakeup
  QueueIsContiguous
  NoDoubleEmit
PROPERTIES
  NothingSkipped
  DropReconnects
  StopTakesHold
CHECK_DEADLOCK FALSE
