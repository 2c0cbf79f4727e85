SPECIFICATION AnnouncementsSpec
CONSTANTS
    Workers = {w1}
    MaxCrashes = 2
    MaxFaults = 1
    MaxLost = 1
    MaxUnheard = 1
    Users = {u1}
    NoOne = NoOne
    Handlers = {h1, h2}
INVARIANTS
    AnnouncementsTypeOK
    AnnouncedOnce
    SentIsSettled
    OnePostPerStart
    StoredPostExists
PROPERTIES
    ToldAsShown
    TapsTurn
    SettledUnlessStopped
CHECK_DEADLOCK FALSE
