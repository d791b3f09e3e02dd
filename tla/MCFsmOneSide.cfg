SPECIFICATION Spec
CONSTANT Programs <- MCOneSide
INVARIANT CyclesDocumented
