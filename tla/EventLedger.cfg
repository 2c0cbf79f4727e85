SPECIFICATION Spec
CONSTANTS
    Users = {u1, u2, u3, u4}
    MaxCapacity = 3
    MaxPosition = 6
    MaxTime = 2
    MaxLag = 1
SYMMETRY UserSymmetry
INVARIANTS
    TypeOK
    SeatsCounted
    OneStanding
    PositionsDistinct
    FullMeansFull
    CancelledIsEmpty
    EveryoneIsTold
PROPERTIES
    NobodyOvertakes
    SeatsGoToTheQueue
    StartedEventIsFrozen
    UnpostedOnlyByReopening
    ImplementsSeatBook
