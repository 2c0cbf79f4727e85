SPECIFICATION Spec
CONSTANTS
    Users = {u1, u2}
    MaxCapacity = 2
    MaxPosition = 3
    MaxTime = 1
    MaxLag = 0
PROPERTIES
    CancelledIsTerminal
