SPECIFICATION FairSpec
CONSTANTS
    MaxCmd = 2
    MaxConn = 1
    MaxDay = 1
    MaxFault = 1
    ChannelCap = 2
    Skew = 0
    Types = {"lock", "unlock"}
    Modes = {"ws"}
    Task = {t1}
    t1 = t1
PROPERTY ConsoleTruthful
CHECK_DEADLOCK FALSE
