SPECIFICATION FairSpec
CONSTANTS
    Publishers = {p1, p2}
    Async      = {p2}
    MaxFaults  = 2
INVARIANTS
    TypeOK
    LiveLoopIsTracked
    NoHeartbeatAfterClose
PROPERTIES
    DeregisterStopsReturned
    AsyncRegisters
    HeartbeatHeals
    LoopsEndAfterClose
    AbandonedIsReaped
\* Everything has ended once the registry is closed.
CHECK_DEADLOCK FALSE
