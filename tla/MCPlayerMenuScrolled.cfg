CONSTANTS
  MAX_LISTED_ITEMS = 2
  Sizes <- MCSizes
SPECIFICATION Spec
INVARIANTS MenuScrolled
