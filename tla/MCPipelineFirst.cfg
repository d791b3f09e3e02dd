SPECIFICATION Spec
CONSTANT N = 2
CONSTANT Last <- MCFirst
CONSTANT Stalling = {}
CONSTANT Conditional = TRUE
CONSTANT MaxTokens = 2
INVARIANT EveryTokenPasses
