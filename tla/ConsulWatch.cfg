SPECIFICATION FairSpec
CONSTANTS
    Instances   = {i1, i2}
    ChanCap     = 1
    MaxIndex    = 3
    MaxRestarts = 1
    MaxAttempt  = 1
INVARIANTS
    TypeOK
    AnnouncedIsCatalog
PROPERTIES
    LoopEnds
    CatchesUp
