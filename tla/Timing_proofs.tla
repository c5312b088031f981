--------------------------- MODULE Timing_proofs ---------------------------
(* What the arithmetic of Timing guarantees for every duration and every   *)
(* number of attempts.                                                     *)
EXTENDS Timing, TLAPS

USE DEF ttlFloor, ttlHeartbeatFloor, watchBackoffBase, watchBackoffMax

\* Whatever TTL a caller asks for, the one that is registered is no shorter and
\* leaves room for two heartbeats, as ttlFloor is meant to; and heartbeats never
\* come more often than their own floor.
THEOREM TwoBeatsPerTTL ==
    ASSUME NEW d \in Int
    PROVE  LET ttl == ttlWithDefaults(d)
           IN  /\ d <= ttl
               /\ 2 * heartbeatInterval(ttl) <= ttl
               /\ heartbeatInterval(ttl) >= ttlHeartbeatFloor
  BY DEF ttlWithDefaults, heartbeatInterval

\* The powers of two below the cut-off.
LEMMA Powers ==
    /\ 2^0 = 1 /\ 2^1 = 2 /\ 2^2 = 4 /\ 2^3 = 8 /\ 2^4 = 16
    /\ 2^5 = 32 /\ 2^6 = 64 /\ 2^7 = 128 /\ 2^8 = 256
  BY SMT

\* The cases of backoffDuration: the powers in reach, and the cap.
LEMMA BackoffCases ==
    ASSUME NEW n \in Int
    PROVE  backoffDuration(n) =
             IF n <= 0 THEN 100 ELSE IF n = 1 THEN 200 ELSE IF n = 2 THEN 400
             ELSE IF n = 3 THEN 800 ELSE IF n = 4 THEN 1600
             ELSE IF n = 5 THEN 3200 ELSE IF n = 6 THEN 6400
             ELSE IF n = 7 THEN 12800 ELSE IF n = 8 THEN 25600 ELSE 30000
  <1>1. CASE n < 0
    BY <1>1 DEF backoffDuration
  <1>2. CASE n >= 9
    BY <1>2 DEF backoffDuration
  <1>3. CASE n \in 0..8
    <2>0. n = 0 => 2^n = 1
      BY Powers
    <2>1. n = 1 => 2^n = 2
      BY Powers
    <2>2. n = 2 => 2^n = 4
      BY Powers
    <2>3. n = 3 => 2^n = 8
      BY Powers
    <2>4. n = 4 => 2^n = 16
      BY Powers
    <2>5. n = 5 => 2^n = 32
      BY Powers
    <2>6. n = 6 => 2^n = 64
      BY Powers
    <2>7. n = 7 => 2^n = 128
      BY Powers
    <2>8. n = 8 => 2^n = 256
      BY Powers
    <2>9. PICK p \in Int : p = 2^n
      BY <1>3, <2>0, <2>1, <2>2, <2>3, <2>4, <2>5, <2>6, <2>7, <2>8
    <2>10. backoffDuration(n) = IF 100 * p > 30000 THEN 30000 ELSE 100 * p
      BY <1>3, <2>9 DEF backoffDuration
    <2> QED
      BY <1>3, <2>0, <2>1, <2>2, <2>3, <2>4, <2>5, <2>6, <2>7, <2>8, <2>9, <2>10
  <1> QED
    BY <1>1, <1>2, <1>3

\* However long an outage lasts, the pause between two attempts stays between
\* the base and the cap (the shift never overflows), and it never gets shorter.
THEOREM BackoffIsBounded ==
    ASSUME NEW m \in Int, NEW n \in Int, m <= n
    PROVE  /\ watchBackoffBase <= backoffDuration(m)
           /\ backoffDuration(m) <= backoffDuration(n)
           /\ backoffDuration(n) <= watchBackoffMax
  BY BackoffCases
=============================================================================
