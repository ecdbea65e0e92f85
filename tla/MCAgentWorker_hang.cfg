SPECIFICATION FairSpec
CONSTANTS
  w = w
  v = v
  Self = w
  Peers <- OnePeer
  Config <- Auto
PROPERTIES
  StartReturns
CHECK_DEADLOCK FALSE
