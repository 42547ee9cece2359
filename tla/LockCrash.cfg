SPECIFICATION Spec
CONSTANTS
    People = {mia}
    ClockRuled = {mia}
    HasCage = TRUE
    MaxFaults = 1
    MaxCrashes = 1
    OstUnlocks = TRUE
    NoOne = NoOne
    mia = mia
INVARIANT NothingLeftBehind
PROPERTY NoFreshCountdown
CHECK_DEADLOCK FALSE
