SPECIFICATION Spec
CONSTANTS
    Workers = {w1}
    MaxCrashes = 1
    MaxFaults = 0
    MaxLost = 0
    MaxUnheard = 0
PROPERTIES
    RequestIsSettled
CHECK_DEADLOCK FALSE
