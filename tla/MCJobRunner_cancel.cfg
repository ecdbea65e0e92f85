SPECIFICATION FairSpec
CONSTANTS
  Config <- Plain
  MaxOutput = 1
  MaxChunk = 1
  QueueSize = 1
  Workers = 1
PROPERTIES
  CancelEndsJob
CHECK_DEADLOCK FALSE
