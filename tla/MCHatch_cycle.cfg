SPECIFICATION Spec
CONSTANTS
  App = {a}
  Limits = {5}
  MaxEdits = 3
  MaxKills = 1
  Undo = FALSE
  GitFails = FALSE
  TooLarge <- MCTooLarge
  Gzipped <- MCGzipped
INVARIANTS
  TypeOK
  
  CompleteOnSuccess
  SeedOnce
  MergeGivesLattice
  BoundSuffices
