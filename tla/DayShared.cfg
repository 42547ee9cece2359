SPECIFICATION FairSpec
CONSTANTS
    Machine = {m1, m2}
    Grant = {}
    MaxRec = 2
    MaxDay = 2
    MaxUse = 1
    MaxReport = 1
    MaxFault = 0
    m1 = m1
    m2 = m2
PROPERTIES
    SeesTheDay
CHECK_DEADLOCK FALSE
