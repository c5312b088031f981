SPECIFICATION FairSpec
CONSTANTS
    Names     = {n1}
    Callers   = {c1, c2}
    Resolvers = {r1}
    Services  = {s1}
    ChanCap   = 1
PROPERTIES
    CallsReturn
    WatchesEndAfterClose
    EventsAreServed
