SPECIFICATION Spec
CONSTANTS
  x = x
  y = y
  z = z
  x1 = x1
  y1 = y1
  old = old
  new = new
  gone = gone
  Path <- Paths
  Content <- Contents
  Absent = gone
  Base <- ForkPoint
  Agent <- Agents
  Order <- SlugOrder
  Repos <- JustSubdirectory
INVARIANTS
  SpillageNeverLands
