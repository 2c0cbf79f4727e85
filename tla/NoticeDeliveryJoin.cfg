SPECIFICATION Spec
CONSTANTS
    MaxFree = 1
    MaxNotices = 2
    MaxCrashes = 0
    MaxFaults = 0
    MaxSilentEdits = 0
PROPERTIES
    JoinersAreTold
CHECK_DEADLOCK FALSE
