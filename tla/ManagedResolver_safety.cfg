SPECIFICATION HSpec
CONSTANTS
    Names     = {n1}
    Callers   = {c1, c2}
    Resolvers = {r1, r2}
    Services  = {s1, s2}
    ChanCap   = 1
SYMMETRY Symmetry
INVARIANTS
    TypeOK
    OneResolverPerName
    SingleWriter
    SeedBeforeRead
    PublishedBeforeRead
    CacheIsLastAnswer
PROPERTIES
    WatchEndsOnlyWhenTold
    ReadsAreRegular
    LateCallsDegrade
    CacheIsLastKnownGood
