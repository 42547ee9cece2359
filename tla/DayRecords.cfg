SPECIFICATION Spec
CONSTANTS
    Machine = {m1}
    Grant = {g1}
    MaxRec = 3
    MaxDay = 1
    MaxUse = 1
    MaxReport = 1
    MaxFault = 1
    m1 = m1
    g1 = g1
INVARIANTS
    CountedOnce
    EarnedOnce
PROPERTIES
    DayKept
    HeardUntilRemoved
CHECK_DEADLOCK FALSE
