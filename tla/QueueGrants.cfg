SPECIFICATION FairSpec
CONSTANTS
    MaxCmd = 1
    MaxConn = 1
    MaxDay = 4
    MaxFault = 2
    ChannelCap = 2
    Skew = 2
    Types = {"credit_time"}
    Modes = {"ws", "poll"}
    Task = {t1}
    t1 = t1
INVARIANTS
    AckedGrantCounted
PROPERTIES
    EventuallySettled
    QueuePromised
CHECK_DEADLOCK FALSE
