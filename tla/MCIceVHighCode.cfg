SPECIFICATION Spec
CHECK_DEADLOCK FALSE
CONSTANTS
  BYTE = 2
  addrW = 4
  NREGS = 3
  CODE = 7
  MAX_RETIRED = 6
  Inputs = {0, 217}
  LAST = {0}
  AFTER = 14
  Decode <- MCDecode
  Programs <- MCPrograms
PROPERTY ImplementsRiscV
