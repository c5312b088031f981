SPECIFICATION Spec
CONSTANTS
    Publishers = {p1}
    Async      = {p1}
    MaxFaults  = 0
INVARIANT DeregisterStopsHeartbeat
CHECK_DEADLOCK FALSE
