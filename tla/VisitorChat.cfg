SPECIFICATION ChatSpec
CONSTANTS
    Users = {u1, u2}
    Visitor = u1
    MaxCapacity = 1
    MaxPosition = 2
    MaxTime = 1
    MaxLag = 0
    MaxRows = 2
INVARIANTS
    ChatTypeOK
    LastWordIsTrue
    ImmediateStatus
PROPERTIES
    ListedOnce
