---------------------------- MODULE ManagedReads ----------------------------
(***************************************************************************)
(* What one call of Resolve* may return, given everything that happens to  *)
(* the cache while it runs, and what the cache holds, given everything the *)
(* registry has answered. A read takes two or three atomic loads           *)
(* (managedResolver.service and emptyErr), so it is no snapshot; history   *)
(* variables beside ManagedResolver record what each call could have seen  *)
(* and what each resolver was last told.                                   *)
(***************************************************************************)
EXTENDS ManagedResolver

VARIABLES
    seen,      \* per caller: the contents its cache had or was given meanwhile
    cleared,   \* per caller: it found the cache authoritatively empty
    late,      \* per caller: it called after Close had released the lock
    answered   \* per resolver: the content its registry answered last

hvars == <<vars, seen, cleared, late, answered>>

\* A content that is being stored and is not published yet.
Installing(r) ==
    \/ watch[r].pc \in {"storeAuth", "storePublish"}
    \/ \E c \in Callers : /\ call[c].obj = r
                          /\ call[c].pc \in {"seedAuth", "seedPublish"}

\* What a read of r may regard as its content at this moment.
Visible(r) ==
    IF r = Ephemeral THEN {Empty}
    ELSE {Content(r)} \cup {v \in {mr[r].current} : Installing(r)}

HInit ==
    /\ Init
    /\ seen = [c \in Callers |-> {}]
    /\ cleared = [c \in Callers |-> FALSE]
    /\ late = [c \in Callers |-> FALSE]
    /\ answered = [r \in Resolvers |-> Empty]

Starts(c)  == call[c].pc = "idle" /\ call'[c].pc # "idle"
Returns(c) == call[c].pc # "idle" /\ call'[c].pc = "idle"
InCall(c)  == call[c].obj # None /\ call[c].pc # "idle"

\* In this step the registry answers the seed or a refresh of r with content v.
\* An empty catalog is an answer to a refresh; a failed query is none, and a seed
\* without a Service leaves the cache as empty as it was made.
Answered(r, v) ==
    \/ /\ v \in Services
       /\ \E c \in Callers : call[c].obj = r /\ SeedResolve(c, v)
    \/ v \in Services /\ WatchResolve(r, v)
    \/ v = Empty /\ WatchResolve(r, NoHealthy)

Record ==
    /\ seen' = [c \in Callers |->
          IF InCall(c)' THEN seen[c] \cup Visible(call[c].obj)' ELSE {}]
    /\ cleared' = [c \in Callers |->
          IF call[c].pc = "load" /\ call'[c].pc = "empty"
          THEN mr[call[c].obj].authEmpty
          ELSE cleared[c] /\ call'[c].pc = "empty"]
    /\ late' = [c \in Callers |->
          IF Starts(c) THEN closer \in {"registry", "done"}
          ELSE late[c] /\ call'[c].pc # "idle"]
    /\ answered' = [r \in Resolvers |->
          IF \E v \in Services \cup {Empty} : Answered(r, v)
          THEN CHOOSE v \in Services \cup {Empty} : Answered(r, v)
          ELSE answered[r]]

HNext == Next /\ Record

HSpec == HInit /\ [][HNext]_hvars

HFairSpec == HSpec /\ Fairness

-----------------------------------------------------------------------------
\* No store and no clear of r is under way.
Quiet(r) ==
    /\ watch[r].pc \in {"none", "select", "resolve", "exited"}
    /\ \A c \in Callers :
          call[c].obj = r => call[c].pc \notin {"seedCurrent", "seedAuth", "seedPublish"}

\* Between its stores and clears a cache holds what the registry answered last:
\* an empty catalog has emptied it, a failed query has left it as it was, and
\* neither Close nor a cancelled context has cut a store or a clear in two (the
\* branches of runManagedUpdates).
CacheIsLastAnswer == \A r \in Resolvers : Quiet(r) => Content(r) = answered[r]

\* A call returns a Service only if the cache held it, or was being given it,
\* at some moment of the call, and gives up (fallback or error) only if the
\* cache was empty at some moment of it. So no call returns an instance that an
\* authoritative empty catalog had removed before the call began
\* (managedResolver.service loads seeded before current for that).
ReadsAreRegular ==
    [][\A c \in Callers : Returns(c) =>
          IF call'[c].ret \in Services THEN call'[c].ret \in seen[c]
                                       ELSE Empty \in seen[c]]_hvars

\* A call that begins after Close neither seeds nor opens a watch nor serves
\* the cache: it degrades to the fallback or to ErrNoHealthyInstances.
LateCallsDegrade ==
    [][\A c \in Callers : late[c] =>
          /\ call'[c].pc \notin {"once", "seed", "startWatch", "openWatch"}
          /\ Returns(c) => call'[c].ret \in {Fallback, NoHealthy}]_hvars

\* emptyErr, src/managed_resolver.go:92-98: after an authoritative clear the
\* call surfaces ErrNoHealthyInstances, "never a stale seedErr from an earlier
\* transient seed failure".
NoStaleSeedErr ==
    [][\A c \in Callers : Returns(c) /\ cleared[c] =>
          call'[c].ret # Transient]_hvars
=============================================================================
