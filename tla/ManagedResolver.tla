-------------------------- MODULE ManagedResolver --------------------------
(***************************************************************************)
(* The watch-and-cache layer behind Manager.Resolve, ResolveService,       *)
(* ResolveEndpoint and ResolveURL (src/managed_resolver.go, and Close in   *)
(* src/manager.go).                                                        *)
(*                                                                         *)
(* Each name has one managedResolver, made by the first call that resolves *)
(* it. sync.Once makes one caller seed the cache and start the background  *)
(* watch, the others wait. A watch goroutine then refreshes the cache on   *)
(* every catalog event. Close cancels the manager-lifetime context, drains *)
(* the map under its lock and closes the registry.                         *)
(*                                                                         *)
(* Every load and every store of a shared field is a step of its own, so   *)
(* the seeding caller, the other callers, the watch goroutine and Close    *)
(* interleave as the Go memory model lets them. What the registry answers  *)
(* is any member of Answers: no property here rests on the catalog.        *)
(***************************************************************************)
EXTENDS Naturals, FiniteSets

CONSTANTS
    Names,      \* service names
    Callers,    \* goroutines that call Resolve*
    Resolvers,  \* managedResolver objects the heap has room for
    Services,   \* Service values the registry may answer with
    ChanCap     \* capacity of the event channel a Watch returns

None      == "none"                     \* a nil pointer, a nil error, no value
Ephemeral == "ephemeral"                \* the &managedResolver{} made after Close
NoHealthy == "ErrNoHealthyInstances"    \* the catalog is authoritatively empty
Transient == "registry error"           \* any other error of the registry
Fallback  == "fallback"                 \* the static address the caller gave

Errors  == {NoHealthy, Transient}
Answers == Services \cup Errors         \* what registry.Resolve may return
Objects == Resolvers \cup {Ephemeral}

ASSUME ConstantsAssumption ==
    /\ ChanCap \in Nat \ {0}
    /\ None \notin Names
    /\ None \notin Resolvers
    /\ Ephemeral \notin Resolvers
    /\ Services \cap {None, Fallback, NoHealthy, Transient} = {}

VARIABLES
    closed,     \* Manager.closed
    baseDone,   \* Manager.baseCtx has been cancelled
    closer,     \* where the one execution of doClose stands
    resolvers,  \* Manager.resolvers, a nil entry standing for no entry
    mr,         \* the fields of every managedResolver
    watch,      \* per resolver: its watch goroutine and its event channel
    call        \* per caller: the Resolve call it is in

vars == <<closed, baseDone, closer, resolvers, mr, watch, call>>

-----------------------------------------------------------------------------
\* Where a call stands, and where a watch goroutine stands.
CallPc == {"idle", "fast", "slow", "once", "seed", "seedCurrent", "seedAuth",
           "seedPublish", "startWatch", "openWatch", "load", "current", "empty"}

WatchPc == {"none", "select", "resolve", "storeCurrent", "storeAuth",
            "storePublish", "clearAuth", "clearSeeded", "exited"}

ResolverState ==
    [owner     : Names \cup {None},             \* the name it was made for
     once      : {"new", "running", "done"},
     current   : Services \cup {None},
     seeded    : BOOLEAN,
     authEmpty : BOOLEAN,
     seedErr   : Errors \cup {None},
     cancel    : {"nil", "live", "cancelled"}]  \* the cancel func it points to

NewResolver(n) ==
    [owner |-> n, once |-> "new", current |-> None, seeded |-> FALSE,
     authEmpty |-> FALSE, seedErr |-> None, cancel |-> "nil"]

WatchState ==
    [pc : WatchPc, answer : Answers \cup {None}, events : 0..ChanCap,
     open : BOOLEAN]

CallState ==
    [pc : CallPc, name : Names \cup {None}, obj : Objects \cup {None},
     answer : Services \cup {None}, ret : Answers \cup {None, Fallback}]

TypeOK ==
    /\ closed \in BOOLEAN
    /\ baseDone \in BOOLEAN
    /\ closer \in {"idle", "drain", "registry", "done"}
    /\ resolvers \in [Names -> Resolvers \cup {None}]
    /\ mr \in [Objects -> ResolverState]
    /\ watch \in [Resolvers -> WatchState]
    /\ call \in [Callers -> CallState]

Init ==
    /\ closed = FALSE
    /\ baseDone = FALSE
    /\ closer = "idle"
    /\ resolvers = [n \in Names |-> None]
    /\ mr = [r \in Objects |-> NewResolver(None)]
    /\ watch = [r \in Resolvers |->
                  [pc |-> "none", answer |-> None, events |-> 0, open |-> FALSE]]
    /\ call = [c \in Callers |->
                  [pc |-> "idle", name |-> None, obj |-> None,
                   answer |-> None, ret |-> None]]

-----------------------------------------------------------------------------
(* Writes and tests of the shared fields. An operator marked as a mutant   *)
(* is the one below it with a bug: the runs must tell the two apart.       *)

\* The statements of managedResolver.store, one atomic store each.
StoreCurrent(r, svc) == mr' = [mr EXCEPT ![r].current = svc]
StoreAuth(r)         == mr' = [mr EXCEPT ![r].authEmpty = FALSE]
StorePublish(r)      == mr' = [mr EXCEPT ![r].seeded = TRUE]

\* The statements of managedResolver.clear.
ClearAuth(r)   == mr' = [mr EXCEPT ![r].authEmpty = TRUE]
ClearSeeded(r) == mr' = [mr EXCEPT ![r].seeded = FALSE]

\* The error managedResolver.emptyErr returns.
EmptyErr(r) ==
    IF mr[r].authEmpty \/ mr[r].seedErr = None THEN NoHealthy ELSE mr[r].seedErr

\* The context of the watch of r, a child of baseCtx with a cancel of its own,
\* has ended.
CtxDone_FromBackground(r) == mr[r].cancel = "cancelled"     \* mutant
CtxDone(r) == baseDone \/ mr[r].cancel = "cancelled"

\* Under the write lock: the name still has no resolver and Close has not run.
MustCreate_NoRecheck(n) == ~closed                  \* mutant
MustCreate_AfterClose(n) == resolvers[n] = None     \* mutant
MustCreate(n) == ~closed /\ resolvers[n] = None

\* once.Do has not been entered.
OnceFree_NoExclusion(r) == mr[r].once # "done"      \* mutant
OnceFree(r) == mr[r].once = "new"

\* A caller that finds a resolver passes through once.Do before it reads.
Found_SkipsOnce == "load"                           \* mutant
Found == "once"

\* managedResolver.service finds a value.
Hit_UnlessCleared(r) == ~mr[r].authEmpty            \* mutant
Hit_AnyValue(r) == mr[r].current # None             \* mutant
Hit(r) == mr[r].seeded

\* The event channel takes one more event without blocking the registry.
Room(r) == watch[r].events < ChanCap

\* Close has emptied the map and may release the lock.
Drained_WaitsForCalls == \A c \in Callers : call[c].pc = "idle"    \* mutant
Drained == \A n \in Names : resolvers[n] = None

\* doClose holds resolversMu over several steps; every other critical section
\* is one step.
Locked == closer = "drain"

Goto(c, pc) == call' = [call EXCEPT ![c].pc = pc]

-----------------------------------------------------------------------------
(* A call of Resolve*, from managedResolverFor to its return.              *)

Call(c, n) ==
    /\ call[c].pc = "idle"
    /\ call' = [call EXCEPT ![c] = [pc |-> "fast", name |-> n, obj |-> None,
                                    answer |-> None, ret |-> None]]
    /\ UNCHANGED <<closed, baseDone, closer, resolvers, mr, watch>>

\* The lookup under the read lock.
FastLookup(c) ==
    /\ call[c].pc = "fast"
    /\ ~Locked
    /\ LET r == resolvers[call[c].name]
       IN  IF r # None
           THEN call' = [call EXCEPT ![c].obj = r, ![c].pc = Found]
           ELSE Goto(c, "slow")
    /\ UNCHANGED <<closed, baseDone, closer, resolvers, mr, watch>>

\* The critical section under the write lock: degrade after Close, take the
\* resolver another caller has made since the fast lookup, or make one.
SlowLookup(c) ==
    /\ call[c].pc = "slow"
    /\ ~Locked
    /\ LET n == call[c].name
       IN  \/ /\ closed
              /\ call' = [call EXCEPT ![c].obj = Ephemeral, ![c].pc = "load"]
              /\ UNCHANGED <<resolvers, mr>>
           \/ /\ ~closed
              /\ resolvers[n] # None
              /\ call' = [call EXCEPT ![c].obj = resolvers[n], ![c].pc = "once"]
              /\ UNCHANGED <<resolvers, mr>>
           \/ /\ MustCreate(n)
              /\ \E r \in Resolvers :
                    /\ mr[r].owner = None
                    /\ mr' = [mr EXCEPT ![r] = NewResolver(n)]
                    /\ resolvers' = [resolvers EXCEPT ![n] = r]
                    /\ call' = [call EXCEPT ![c].obj = r, ![c].pc = "once"]
    /\ UNCHANGED <<closed, baseDone, closer, watch>>

\* once.Do runs the seed in the first caller and returns at once when it is
\* done; while it runs, neither action is enabled and the caller waits.
OnceEnter(c) ==
    /\ call[c].pc = "once"
    /\ OnceFree(call[c].obj)
    /\ mr' = [mr EXCEPT ![call[c].obj].once = "running"]
    /\ Goto(c, "seed")
    /\ UNCHANGED <<closed, baseDone, closer, resolvers, watch>>

OnceDone(c) ==
    /\ call[c].pc = "once"
    /\ mr[call[c].obj].once = "done"
    /\ Goto(c, "load")
    /\ UNCHANGED <<closed, baseDone, closer, resolvers, mr, watch>>

\* The seed's registry.Resolve returns a; an expired SeedTimeout or a caller
\* that gives up is a Transient error. An error is recorded in seedErr and the
\* watch is started all the same.
SeedResolve(c, a) ==
    /\ call[c].pc = "seed"
    /\ \/ /\ a \in Errors
          /\ mr' = [mr EXCEPT ![call[c].obj].seedErr = a]
          /\ Goto(c, "startWatch")
       \/ /\ a \in Services
          /\ call' = [call EXCEPT ![c].answer = a, ![c].pc = "seedCurrent"]
          /\ UNCHANGED mr
    /\ UNCHANGED <<closed, baseDone, closer, resolvers, watch>>

SeedStoreCurrent(c) ==
    /\ call[c].pc = "seedCurrent"
    /\ StoreCurrent(call[c].obj, call[c].answer)
    /\ Goto(c, "seedAuth")
    /\ UNCHANGED <<closed, baseDone, closer, resolvers, watch>>

SeedStoreAuth(c) ==
    /\ call[c].pc = "seedAuth"
    /\ StoreAuth(call[c].obj)
    /\ Goto(c, "seedPublish")
    /\ UNCHANGED <<closed, baseDone, closer, resolvers, watch>>

SeedPublish(c) ==
    /\ call[c].pc = "seedPublish"
    /\ StorePublish(call[c].obj)
    /\ call' = [call EXCEPT ![c].pc = "startWatch", ![c].answer = None]
    /\ UNCHANGED <<closed, baseDone, closer, resolvers, watch>>

\* startManagedWatch: context.WithCancel(m.baseCtx), whose cancel func is stored.
StartWatch(c) ==
    /\ call[c].pc = "startWatch"
    /\ mr' = [mr EXCEPT ![call[c].obj].cancel = "live"]
    /\ Goto(c, "openWatch")
    /\ UNCHANGED <<closed, baseDone, closer, resolvers, watch>>

\* registry.Watch succeeds: the watch goroutine is spawned and once is over.
WatchOpened(c) ==
    /\ call[c].pc = "openWatch"
    /\ watch' = [watch EXCEPT ![call[c].obj].pc = "select",
                              ![call[c].obj].open = TRUE]
    /\ mr' = [mr EXCEPT ![call[c].obj].once = "done"]
    /\ Goto(c, "load")
    /\ UNCHANGED <<closed, baseDone, closer, resolvers>>

\* registry.Watch fails: the context is released, the seed is all there is.
WatchFailed(c) ==
    /\ call[c].pc = "openWatch"
    /\ mr' = [mr EXCEPT ![call[c].obj].once = "done",
                        ![call[c].obj].cancel = "cancelled"]
    /\ Goto(c, "load")
    /\ UNCHANGED <<closed, baseDone, closer, resolvers, watch>>

\* managedResolver.service: seeded is loaded first, then current.
LoadSeeded(c) ==
    /\ call[c].pc = "load"
    /\ Goto(c, IF Hit(call[c].obj) THEN "current" ELSE "empty")
    /\ UNCHANGED <<closed, baseDone, closer, resolvers, mr, watch>>

LoadCurrent(c) ==
    /\ call[c].pc = "current"
    /\ call' = [call EXCEPT ![c].ret = mr[call[c].obj].current, ![c].pc = "idle"]
    /\ UNCHANGED <<closed, baseDone, closer, resolvers, mr, watch>>

\* The cache was empty: the caller's fallback if it gave one, else emptyErr.
ReturnEmpty(c) ==
    /\ call[c].pc = "empty"
    /\ \E ret \in {Fallback, EmptyErr(call[c].obj)} :
          call' = [call EXCEPT ![c].ret = ret, ![c].pc = "idle"]
    /\ UNCHANGED <<closed, baseDone, closer, resolvers, mr, watch>>

-----------------------------------------------------------------------------
(* The watch goroutine of a resolver: runManagedUpdates.                   *)

\* The select takes an event (buffered events outlive the close of the channel).
Wake(r) ==
    /\ watch[r].pc = "select"
    /\ watch[r].events > 0
    /\ watch' = [watch EXCEPT ![r].events = @ - 1, ![r].pc = "resolve",
                              ![r].answer = None]
    /\ UNCHANGED <<closed, baseDone, closer, resolvers, mr, call>>

\* The select finds the context done, or the channel closed and drained.
Exit(r) ==
    /\ watch[r].pc = "select"
    /\ CtxDone(r) \/ (~watch[r].open /\ watch[r].events = 0)
    /\ watch' = [watch EXCEPT ![r].pc = "exited"]
    /\ UNCHANGED <<closed, baseDone, closer, resolvers, mr, call>>

\* Where the goroutine goes with the answer of registry.Resolve: an empty
\* catalog clears the cache, any other error keeps it, a Service is stored.
AfterAnswer_ReturnsOnError(a) ==                    \* mutant
    IF a = Transient THEN "exited"
    ELSE IF a = NoHealthy THEN "clearAuth" ELSE "storeCurrent"
AfterAnswer_ClearsOnError(a) ==                     \* mutant
    IF a \in Errors THEN "clearAuth" ELSE "storeCurrent"
AfterAnswer_KeepsOnEmpty(a) ==                      \* mutant
    IF a \in Errors THEN "select" ELSE "storeCurrent"
AfterAnswer_StoresErrors(a) ==                      \* mutant
    IF a = NoHealthy THEN "clearAuth" ELSE "storeCurrent"
AfterAnswer(a) ==
    CASE a = NoHealthy   -> "clearAuth"
      [] a = Transient   -> "select"
      [] a \in Services  -> "storeCurrent"

WatchResolve(r, a) ==
    /\ watch[r].pc = "resolve"
    /\ watch' = [watch EXCEPT ![r].answer = a, ![r].pc = AfterAnswer(a)]
    /\ UNCHANGED <<closed, baseDone, closer, resolvers, mr, call>>

WatchStoreCurrent(r) ==
    /\ watch[r].pc = "storeCurrent"
    /\ StoreCurrent(r, watch[r].answer)
    /\ watch' = [watch EXCEPT ![r].pc = "storeAuth"]
    /\ UNCHANGED <<closed, baseDone, closer, resolvers, call>>

WatchStoreAuth(r) ==
    /\ watch[r].pc = "storeAuth"
    /\ StoreAuth(r)
    /\ watch' = [watch EXCEPT ![r].pc = "storePublish"]
    /\ UNCHANGED <<closed, baseDone, closer, resolvers, call>>

WatchPublish(r) ==
    /\ watch[r].pc = "storePublish"
    /\ StorePublish(r)
    /\ watch' = [watch EXCEPT ![r].pc = "select", ![r].answer = None]
    /\ UNCHANGED <<closed, baseDone, closer, resolvers, call>>

WatchClearAuth(r) ==
    /\ watch[r].pc = "clearAuth"
    /\ ClearAuth(r)
    /\ watch' = [watch EXCEPT ![r].pc = "clearSeeded"]
    /\ UNCHANGED <<closed, baseDone, closer, resolvers, call>>

WatchClearSeeded(r) ==
    /\ watch[r].pc = "clearSeeded"
    /\ ClearSeeded(r)
    /\ watch' = [watch EXCEPT ![r].pc = "select", ![r].answer = None]
    /\ UNCHANGED <<closed, baseDone, closer, resolvers, call>>

-----------------------------------------------------------------------------
(* The registry's side of the event channel: it sends while there is room, *)
(* and closes the channel once the context of the watch has ended.         *)

Emit(r) ==
    /\ watch[r].open
    /\ Room(r)
    /\ watch' = [watch EXCEPT ![r].events = @ + 1]
    /\ UNCHANGED <<closed, baseDone, closer, resolvers, mr, call>>

CloseChan(r) ==
    /\ watch[r].open
    /\ CtxDone(r)
    /\ watch' = [watch EXCEPT ![r].open = FALSE]
    /\ UNCHANGED <<closed, baseDone, closer, resolvers, mr, call>>

-----------------------------------------------------------------------------
(* Manager.Close: doClose runs once.                                       *)

CloseBegin ==
    /\ closer = "idle"
    /\ closed' = TRUE
    /\ baseDone' = TRUE
    /\ closer' = "drain"
    /\ UNCHANGED <<resolvers, mr, watch, call>>

\* mr.stop(), which finds a nil cancel when the seed has not started the watch,
\* and delete(m.resolvers, name).
CloseDrain(n) ==
    /\ closer = "drain"
    /\ resolvers[n] # None
    /\ mr' = [mr EXCEPT ![resolvers[n]].cancel =
                 IF @ = "live" THEN "cancelled" ELSE @]
    /\ resolvers' = [resolvers EXCEPT ![n] = None]
    /\ UNCHANGED <<closed, baseDone, closer, watch, call>>

CloseUnlock ==
    /\ closer = "drain"
    /\ Drained
    /\ closer' = "registry"
    /\ UNCHANGED <<closed, baseDone, resolvers, mr, watch, call>>

CloseRegistry ==
    /\ closer = "registry"
    /\ closer' = "done"
    /\ UNCHANGED <<closed, baseDone, resolvers, mr, watch, call>>

-----------------------------------------------------------------------------
\* Steps of a caller's goroutine inside a call.
CallerStep(c) ==
    \/ FastLookup(c)
    \/ SlowLookup(c)
    \/ OnceEnter(c)
    \/ OnceDone(c)
    \/ \E a \in Answers : SeedResolve(c, a)
    \/ SeedStoreCurrent(c)
    \/ SeedStoreAuth(c)
    \/ SeedPublish(c)
    \/ StartWatch(c)
    \/ WatchOpened(c)
    \/ WatchFailed(c)
    \/ LoadSeeded(c)
    \/ LoadCurrent(c)
    \/ ReturnEmpty(c)

\* Steps of a watch goroutine.
WatchStep(r) ==
    \/ Wake(r)
    \/ Exit(r)
    \/ \E a \in Answers : WatchResolve(r, a)
    \/ WatchStoreCurrent(r)
    \/ WatchStoreAuth(r)
    \/ WatchPublish(r)
    \/ WatchClearAuth(r)
    \/ WatchClearSeeded(r)

CloseStep ==
    \/ \E n \in Names : CloseDrain(n)
    \/ CloseUnlock
    \/ CloseRegistry

Next ==
    \/ \E c \in Callers, n \in Names : Call(c, n)
    \/ \E c \in Callers : CallerStep(c)
    \/ \E r \in Resolvers : WatchStep(r) \/ Emit(r) \/ CloseChan(r)
    \/ CloseBegin
    \/ CloseStep

\* A runnable goroutine runs: the Go scheduler is fair to each of them, and a
\* registry call returns because its context or its timeouts end it. Nobody has
\* to call Resolve, to call Close or to change the catalog.
Fairness ==
    /\ \A c \in Callers : WF_vars(CallerStep(c))
    /\ \A r \in Resolvers : WF_vars(WatchStep(r)) /\ WF_vars(CloseChan(r))
    /\ WF_vars(CloseStep)

Spec == Init /\ [][Next]_vars

FairSpec == Spec /\ Fairness

-----------------------------------------------------------------------------
(* Safety.                                                                 *)

\* Caller c runs the seed of r: it is inside the function given to once.Do.
Seeding(c, r) ==
    /\ call[c].obj = r
    /\ call[c].pc \in {"seed", "seedCurrent", "seedAuth", "seedPublish",
                       "startWatch", "openWatch"}

\* Caller c reads the cache of r.
Reading(c, r) ==
    /\ call[c].obj = r
    /\ call[c].pc \in {"load", "current", "empty"}

\* A name never has two resolvers, and so never two seeds, two watches or two
\* caches: concurrent first calls share one (managedResolverFor, the re-check
\* under the write lock), and nothing is made for a name Close has dropped.
OneResolverPerName ==
    \A r1, r2 \in Resolvers :
        mr[r1].owner # None /\ mr[r1].owner = mr[r2].owner => r1 = r2

\* At any time one goroutine at most writes a resolver's fields: the one caller
\* that seeds it, and its watch only after that (the comments of clear, of
\* seedErr and of authEmpty all rest on this).
SingleWriter ==
    \A r \in Resolvers, c \in Callers : Seeding(c, r) =>
        /\ watch[r].pc = "none"
        /\ \A d \in Callers : Seeding(d, r) => d = c

\* seedErr is a plain field: nobody reads a resolver's fields while a caller is
\* still seeding it (the happens-before emptyErr claims from once).
SeedBeforeRead ==
    \A r \in Resolvers, c, d \in Callers : Seeding(c, r) => ~Reading(d, r)

\* A reader that saw seeded loads a Service and not the empty atomic.Value, and
\* a call therefore never returns the zero Service as if it were an instance.
PublishedBeforeRead ==
    \A c \in Callers :
        call[c].pc = "current" => mr[call[c].obj].current # None

\* A watch goroutine gives up only when its context is done or the registry has
\* closed the channel: no answer of the registry ends it.
WatchEndsOnlyWhenTold ==
    [][\A r \in Resolvers :
          watch[r].pc # "exited" /\ watch'[r].pc = "exited" =>
              CtxDone(r) \/ ~watch[r].open]_vars

-----------------------------------------------------------------------------
(* Liveness.                                                               *)

\* Every call returns, also the ones that wait for another caller's seed or for
\* the lock Close holds.
CallsReturn ==
    \A c \in Callers : call[c].pc # "idle" ~> call[c].pc = "idle"

\* After Close every watch goroutine goes away for good, also one born from a
\* seed that was in flight.
WatchesEndAfterClose ==
    closer = "done" ~>
        [](\A r \in Resolvers : watch[r].pc \in {"none", "exited"})

\* A catalog event leads to a new look at the registry, unless the watch is
\* being stopped: no earlier failed refresh makes the watch deaf.
EventsAreServed ==
    \A r \in Resolvers :
        watch[r].events > 0 ~> watch[r].pc = "resolve" \/ CtxDone(r)

-----------------------------------------------------------------------------
(* Refinement: each resolver's cache is a LastKnownGood cache.             *)

Empty == "empty"

Content(r) == IF mr[r].seeded THEN mr[r].current ELSE Empty

\* A store takes effect at its first write when the cache has a content, and at
\* the last when it is empty; a clear takes effect at its last write.
Storing(r, pc, first, rest) ==
    pc = first \/ (pc \in rest /\ ~mr[r].seeded)

SeedLearned(r) ==
    {call[c].answer : c \in {d \in Callers :
        /\ call[d].obj = r
        /\ Storing(r, call[d].pc, "seedCurrent", {"seedAuth", "seedPublish"})}}

\* What the registry answered decides what the goroutine knows, and not where
\* the goroutine went with it.
WatchLearned(r) ==
    LET a  == watch[r].answer
        pc == watch[r].pc
    IN  IF a \in Services
           /\ Storing(r, pc, "storeCurrent", {"storeAuth", "storePublish"})
        THEN {a}
        ELSE IF a = NoHealthy /\ pc \in {"clearAuth", "clearSeeded"}
        THEN {Empty}
        ELSE {}

LKG == INSTANCE LastKnownGood WITH
    Keys    <- Resolvers,
    Values  <- Services,
    cache   <- [r \in Resolvers |-> Content(r)],
    learned <- [r \in Resolvers |-> SeedLearned(r) \cup WatchLearned(r)]

\* The cache changes only by installing, whole and one at a time, what the
\* registry answered: a Service, or emptiness when it is authoritative; a failed
\* refresh changes nothing.
CacheIsLastKnownGood == LKG!Spec
=============================================================================
