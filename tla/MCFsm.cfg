SPECIFICATION Spec
CONSTANT Programs <- MCPrograms
INVARIANT SameEvents
INVARIANT CyclesPredicted
INVARIANT NoCodeDup
