SPECIFICATION Spec
CONSTANTS
  App = {a}
  Limits = {5}
  MaxEdits = 2
  MaxKills = 1
  Undo = TRUE
  GitFails = FALSE
  TooLarge <- MCTooLarge
  Gzipped <- MCGzipped
INVARIANT ShortCircuitIsSound
