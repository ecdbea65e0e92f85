SPECIFICATION FairSpec
CONSTANTS
  Config <- AnyWriters
  MaxOutput = 2
  MaxChunk = 1
  QueueSize = 1
  Workers = 1
INVARIANTS
  TypeOK
  
  LogInOrder
  FinishComesLast
  
PROPERTIES
  JobFinishes
CHECK_DEADLOCK FALSE
