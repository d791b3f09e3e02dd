SPECIFICATION Spec
CONSTANT Programs <- MCReturn
INVARIANT SameEvents
