SPECIFICATION FairSpec
CONSTANTS
  MaxPublished <- One
  MaxChunk = 1
  ResumeHonoured = FALSE
  IntervalsPerHour = 1
  maxReconnects = 2
  Malformed <- Nothing
  Unmappable <- Nothing
PROPERTIES
  EitherDropReconnects
CHECK_DEADLOCK FALSE
