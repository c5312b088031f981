SPECIFICATION HFairSpec
CONSTANTS
    Names     = {n1}
    Callers   = {c1}
    Resolvers = {r1}
    Services  = {s1}
    ChanCap   = 1
PROPERTY NoStaleSeedErr
