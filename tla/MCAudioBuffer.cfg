CONSTANTS
  W = 2
  PERIOD = 1
  Sample = {0, 1}
  Silence = 0
  Masks = {{1}, {0, 1}, {0, 1, 2, 3}}
  Data <- MCData
SPECIFICATION FairSpec
INVARIANTS TypeOK DacPlaysBank
PROPERTIES Isochronous ImplementsDoubleBuffer
