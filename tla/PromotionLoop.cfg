SPECIFICATION Spec
CONSTANTS
    Users = {1, 2, 3, 4}
    MaxPosition = 5
    MaxFree = 4
INVARIANTS
    LoopMeetsItsFormula
    PromotedInOrder
PROPERTIES
    LoopEnds
CHECK_DEADLOCK FALSE
