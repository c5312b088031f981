SPECIFICATION FairSpec
CONSTANTS
    Instances   = {i1}
    ChanCap     = 1
    MaxIndex    = 2
    MaxRestarts = 0
    MaxAttempt  = 1
PROPERTY RemovalIsAnnounced
