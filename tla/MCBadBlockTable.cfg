SPECIFICATION MCFairSpec
CONSTANT MaxSystem = 8
INVARIANTS TypeOK TableCorrect TableIsBuilt
PROPERTY Finishes
CHECK_DEADLOCK FALSE
