SPECIFICATION Spec
CONSTANTS
    People = {mia, ben}
    ClockRuled = {}
    HasCage = TRUE
    MaxFaults = 0
    MaxCrashes = 0
    OstUnlocks = FALSE
    NoOne = NoOne
    mia = mia
    ben = ben
SYMMETRY Symmetry
INVARIANT StoppedStayCovered
CHECK_DEADLOCK FALSE
