SPECIFICATION FairSpec
CONSTANTS
    ext1 = ext1  ext2 = ext2  int1 = int1  static = static
    http = http  https = https
    Addresses   <- MCAddresses
    SchemeNames <- MCSchemeNames
    Services    <- MCServices
    Fallback    <- MCFallback
    ChanCap     = 2
INVARIANTS
    TypeOK
    SnapshotIsOneSource
PROPERTIES
    AddressIsNeverLost
    WatchEnds
    EventsAreFollowed
\* A resolver that is not made ends there.
CHECK_DEADLOCK FALSE
