SPECIFICATION Spec
CONSTANT Programs <- MCLabel
INVARIANT SameEvents
