--------------------------- MODULE LastKnownGood ---------------------------
(***************************************************************************)
(* What a managed resolver promises of its cache, with no lock, goroutine  *)
(* or atomic field in sight: one refresher per key learns one thing at a   *)
(* time, a service or that there is none, and installs exactly that before *)
(* it learns the next. A registry error is learning nothing, so it changes *)
(* nothing: the last known good content stays.                             *)
(***************************************************************************)
CONSTANTS
    Keys,      \* one cache each
    Values,    \* what a cache can hold
    Empty      \* the content of a cache that holds nothing

VARIABLES
    cache,     \* the content a reader finds
    learned    \* what the refresher knows and has not installed: {} or {v}

vars == <<cache, learned>>

Contents == Values \cup {Empty}

Init ==
    /\ cache = [k \in Keys |-> Empty]
    /\ learned = [k \in Keys |-> {}]

Learn(k, v) ==
    /\ learned[k] = {}
    /\ learned' = [learned EXCEPT ![k] = {v}]
    /\ UNCHANGED cache

Install(k) ==
    \E v \in learned[k] :
        /\ cache' = [cache EXCEPT ![k] = v]
        /\ learned' = [learned EXCEPT ![k] = {}]

Next == \E k \in Keys : Install(k) \/ \E v \in Contents : Learn(k, v)

Spec == Init /\ [][Next]_vars
=============================================================================
