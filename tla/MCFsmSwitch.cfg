SPECIFICATION Spec
CONSTANT Programs <- MCSwitch
INVARIANT SameEvents
