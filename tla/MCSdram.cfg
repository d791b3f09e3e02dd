CONSTANTS
  Nway = 2
  Addr <- MCAddr
  Data = {0, 1}
  None = None
  Banks = {0, 1}
  POWER_UP = 1
  REFRESH_FIRST = 1
  REFRESH_CYCLES = 2
  REFRESH_WAIT = 7
  FORGETS = 7
SPECIFICATION FairSpec
INVARIANT NoneLost
INVARIANT TimingsKept
PROPERTY ImplementsMemory
PROPERTY Served
PROPERTY Refreshes
