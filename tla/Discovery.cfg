SPECIFICATION DFairSpec
CONSTANTS
    Instances   = {i1, i2}
    ChanCap     = 1
    MaxIndex    = 2
    MaxRestarts = 0
    MaxAttempt  = 1
INVARIANTS
    DTypeOK
    SettledIsCurrent
PROPERTY DeadIsDropped
