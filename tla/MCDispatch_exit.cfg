SPECIFICATION FairSpec
CONSTANTS
  a = a
  b = b
  Slug <- TwoSlugs
  Worker <- TwoEntries
  slugOf <- OneEach2
  NumCPU = 1
  Status <- TwoStatuses
  Config <- OneAtATime
INVARIANTS
  ProcessExitReported
