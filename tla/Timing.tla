------------------------------- MODULE Timing -------------------------------
(***************************************************************************)
(* The arithmetic on durations: the TTL of a health check                  *)
(* (ttlWithDefaults, src/config.go), the interval of its heartbeats        *)
(* (startHeartbeat) and the pause between retries (backoffDuration,        *)
(* src/consul.go). Durations are in milliseconds; one of the code is in    *)
(* nanoseconds, which changes no comparison here.                          *)
(***************************************************************************)
EXTENDS Integers

ttlFloor          == 15000
defaultTTL        == 30000
ttlHeartbeatFloor == 1000
watchBackoffBase  == 100
watchBackoffMax   == 30000

\* The TTL that is registered, for a text that is a duration d or is blank.
ttlWithDefaults_NoFloor(d) == d                                     \* mutant
ttlWithDefaults(d) == IF d < ttlFloor THEN ttlFloor ELSE d

\* startHeartbeat: every half TTL, but not more often than the floor.
heartbeatInterval(ttl) ==
    IF ttl \div 2 > ttlHeartbeatFloor THEN ttl \div 2 ELSE ttlHeartbeatFloor

\* The pause after failed attempt number n, counted from 0.
backoffDuration(n) ==
    LET d == watchBackoffBase * 2^n
    IN  IF n < 0 THEN watchBackoffBase
        ELSE IF n >= 9 \/ d > watchBackoffMax THEN watchBackoffMax
        ELSE d
=============================================================================
