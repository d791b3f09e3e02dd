CONSTANTS
  N = 4
  B = 4
  Budget = 2
SPECIFICATION FairSpec
INVARIANTS SilentWhenStopped LedsOffWhenStopped PlayedToTheEnd CopiesInOneBank
PROPERTIES NoReplayWhileLoading Seamless ImplementsPlay
