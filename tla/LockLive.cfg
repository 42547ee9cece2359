SPECIFICATION FairSpec
CONSTANTS
    People = {mia}
    ClockRuled = {}
    HasCage = TRUE
    MaxFaults = 0
    MaxCrashes = 1
    OstUnlocks = FALSE
    NoOne = NoOne
    mia = mia
PROPERTIES FreedInTheEnd StopLands
CHECK_DEADLOCK FALSE
