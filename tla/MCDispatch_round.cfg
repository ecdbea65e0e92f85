SPECIFICATION FairSpec
CONSTANTS
  a = a
  b = b
  Slug <- TwoSlugs
  Worker <- TwoEntries
  slugOf <- OneEach2
  NumCPU = 1
  Status <- AllStatuses
  Config <- AnyFlags
INVARIANTS
  TypeOK
  AgentsBounded
  ClosedAfterLastSend
  EveryOutcomeCollected
  SnapshotIsPast
  PlanMatchesOutcomes
  ExitCodeHonest
  WorktreesTornDown
PROPERTIES
  PlanMonotone
  KeepsPromise
  Termination
