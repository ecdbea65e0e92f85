SPECIFICATION FairSpec
CONSTANTS
  w = w
  v = v
  Self = w
  Peers <- OnePeer
  Config <- Modes
INVARIANTS
  TypeOK
  BatonGuardsActions
  OneShotAgents
PROPERTIES
  IdleExitOnlyWhenQuiet
  StopReturns
  PollingTakesOver
CHECK_DEADLOCK FALSE
