SPECIFICATION Spec
CONSTANTS
    extHost = extHost  intHost = intHost  otherHost = otherHost
    https = https  Http = http  Junk = junk
    Addrs         <- MCAddrs
    Ports         <- MCPorts
    Schemes       <- MCSchemes
    Registrations <- MCRegistrations
INVARIANTS
    TypeOK
    AdvertisedAsWritten
    RoundTrip
    ExternalViewIsExternal
    OldReadersFindRoot
    OldEntriesAreExternal
    BeatsTwicePerTTL
\* A refused registration ends there.
CHECK_DEADLOCK FALSE
