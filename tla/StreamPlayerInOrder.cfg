CONSTANTS
  N = 4
  B = 3
  Budget = 2
SPECIFICATION FairSpec
PROPERTIES InOrder
