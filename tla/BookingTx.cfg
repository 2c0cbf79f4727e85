SPECIFICATION Spec
CONSTANTS
    u1 = u1
    u2 = u2
    Users <- TwoUsers
    NewUsers <- FirstUser
    Handlers = {h1, h2}
    Commands <- Rush
    NoCommand = NoCommand
    InitialCapacity = 1
    MaxCapacity = 2
    MaxPosition = 3
INVARIANTS
    TypeOK
    DoneOnce
    AnswersAreTrue
PROPERTIES
    CommitsAreSerial
    DeliveriesEnd
