SPECIFICATION DSpec
CONSTANTS
    Instances   = {i1, i2}
    ChanCap     = 1
    MaxIndex    = 2
    MaxRestarts = 0
    MaxAttempt  = 1
PROPERTY AddressIsStable
