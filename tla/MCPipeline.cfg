SPECIFICATION FairSpec
CONSTANT N = 3
CONSTANT Last <- MCMiddle
CONSTANT Stalling = {1, 2}
CONSTANT Conditional = TRUE
CONSTANT MaxTokens = 4
INVARIANT TypeOK
INVARIANT EveryTokenPasses
INVARIANT InOrder
INVARIANT Drained
PROPERTY TokensExit
