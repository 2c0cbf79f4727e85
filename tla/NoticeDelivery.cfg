SPECIFICATION Spec
CONSTANTS
    MaxFree = 1
    MaxNotices = 3
    MaxCrashes = 1
    MaxFaults = 1
    MaxSilentEdits = 1
INVARIANTS
    OncePerStart
PROPERTIES
    PostCatchesUp
    SoundNoticesArrive
CHECK_DEADLOCK FALSE
