SPECIFICATION Spec
CONSTANTS
  Blob = {"b1", "b2"}
  Client = {c1, c2}
  Worker = {w1, w2}
  Path = {"p", "q"}
  Commit = {"k1", "k2"}
  Branch = {"main", "dev"}
  Main = "main"
  First = "k1"
  Tree <- MCTree
  Scopes <- MCScopes
  MaxPrefetch = 1
INVARIANTS TypeOK  GenerationKept 
  
