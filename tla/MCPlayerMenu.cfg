CONSTANTS
  MAX_LISTED_ITEMS = 2
  Sizes <- MCSizes
SPECIFICATION FairSpec
INVARIANTS TypeOK SelectionShown
PROPERTIES MenusDebounced PlaylistEnds
