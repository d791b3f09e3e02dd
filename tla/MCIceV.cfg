SPECIFICATION Spec
CHECK_DEADLOCK FALSE
CONSTANTS
  BYTE = 2
  addrW = 4
  NREGS = 3
  CODE = 4
  MAX_RETIRED = 6
  Inputs = {0, 217}
  LAST = {34}
  AFTER = 179
  Decode <- MCDecode
  Programs <- MCPrograms
INVARIANT Timed
PROPERTY ImplementsRiscV
