----------------------- MODULE ManagedResolver_proofs -----------------------
(***************************************************************************)
(* Proofs about ManagedResolver, for any number of names, callers,         *)
(* resolver objects and services and any channel capacity.                 *)
(***************************************************************************)
EXTENDS ManagedResolver, TLAPS

-----------------------------------------------------------------------------
(* Records: what an update of one field keeps.                             *)

\* A write of a field of a resolver gives a resolver again.
LEMMA ResolverUpdate ==
  ASSUME NEW x \in ResolverState
  PROVE  /\ [x EXCEPT !.once = "running"] \in ResolverState
         /\ [x EXCEPT !.once = "done"] \in ResolverState
         /\ [x EXCEPT !.once = "done", !.cancel = "cancelled"] \in ResolverState
         /\ [x EXCEPT !.cancel = "live"] \in ResolverState
         /\ [x EXCEPT !.cancel = IF x.cancel = "live" THEN "cancelled"
                                 ELSE x.cancel] \in ResolverState
         /\ \A v \in Services : [x EXCEPT !.current = v] \in ResolverState
         /\ \A e \in Errors : [x EXCEPT !.seedErr = e] \in ResolverState
         /\ \A b \in BOOLEAN : /\ [x EXCEPT !.authEmpty = b] \in ResolverState
                               /\ [x EXCEPT !.seeded = b] \in ResolverState
<1>1. \A b \in BOOLEAN : [x EXCEPT !.authEmpty = b] \in ResolverState
  BY DEF ResolverState
<1>2. \A b \in BOOLEAN : [x EXCEPT !.seeded = b] \in ResolverState
  BY DEF ResolverState
<1>3. /\ [x EXCEPT !.once = "running"] \in ResolverState
      /\ [x EXCEPT !.once = "done"] \in ResolverState
  BY DEF ResolverState
<1>4. [x EXCEPT !.once = "done", !.cancel = "cancelled"] \in ResolverState
  BY DEF ResolverState
<1>5. \A s \in {"nil", "live", "cancelled"} : [x EXCEPT !.cancel = s] \in ResolverState
  BY DEF ResolverState
<1>6. (IF x.cancel = "live" THEN "cancelled" ELSE x.cancel)
        \in {"nil", "live", "cancelled"}
  BY DEF ResolverState
<1>7. \A v \in Services : [x EXCEPT !.current = v] \in ResolverState
  BY DEF ResolverState
<1>8. \A e \in Errors : [x EXCEPT !.seedErr = e] \in ResolverState
  BY DEF ResolverState
<1> QED
  BY <1>1, <1>2, <1>3, <1>4, <1>5, <1>6, <1>7, <1>8

\* A resolver that has just been made.
LEMMA NewResolverType ==
  ASSUME NEW n \in Names \cup {None}
  PROVE  NewResolver(n) \in ResolverState
BY DEF NewResolver, ResolverState

\* What a step of a watch goroutine or of the registry makes of a watch.
LEMMA WatchUpdate ==
  ASSUME NEW x \in WatchState
  PROVE  /\ \A pc \in WatchPc : [x EXCEPT !.pc = pc] \in WatchState
         /\ \A pc \in WatchPc, a \in Answers \cup {None} :
               [x EXCEPT !.answer = a, !.pc = pc] \in WatchState
         /\ \A k \in 0..ChanCap : [x EXCEPT !.events = k] \in WatchState
         /\ \A k \in 0..ChanCap, pc \in WatchPc :
               [x EXCEPT !.events = k, !.pc = pc, !.answer = None] \in WatchState
         /\ [x EXCEPT !.open = FALSE] \in WatchState
         /\ [x EXCEPT !.pc = "select", !.open = TRUE] \in WatchState
<1>1. \A b \in BOOLEAN : [x EXCEPT !.open = b] \in WatchState
  BY DEF WatchState
<1>2. \A b \in BOOLEAN : [x EXCEPT !.pc = "select", !.open = b] \in WatchState
  BY DEF WatchState, WatchPc
<1> QED
  BY <1>1, <1>2 DEF WatchState

-----------------------------------------------------------------------------
(* What the steps that write several fields at once leave behind, field by *)
(* field.                                                                  *)

\* A caller goes on with a resolver, and the other callers stay.
Moves(c, o, pc) ==
    /\ call'[c].pc = pc /\ call'[c].obj = o
    /\ call'[c].name = call[c].name /\ call'[c].answer = call[c].answer
    /\ \A d \in Callers \ {c} : call'[d] = call[d]

\* It has found another one.
LEMMA MovedTo ==
  ASSUME call \in [Callers -> CallState], NEW c \in Callers, NEW o, NEW pc,
         call' = [call EXCEPT ![c].obj = o, ![c].pc = pc]
  PROVE  /\ Moves(c, o, pc)
         /\ o \in Objects /\ pc \in CallPc => call' \in [Callers -> CallState]
<1> DEFINE x == [call[c] EXCEPT !.obj = o, !.pc = pc]
<1>1. call' = [call EXCEPT ![c] = x]
  BY Zenon
<1>2. x.pc = pc /\ x.obj = o /\ x.name = call[c].name /\ x.answer = call[c].answer
  BY DEF CallState
<1>3. o \in Objects /\ pc \in CallPc => x \in CallState
  BY DEF CallState
<1> HIDE DEF x
<1>4. call'[c] = x /\ \A d \in Callers \ {c} : call'[d] = call[d]
  BY <1>1
<1>5. x \in CallState => call' \in [Callers -> CallState]
  BY <1>1
<1> QED
  BY <1>2, <1>3, <1>4, <1>5 DEF Moves

\* It keeps the one it has.
LEMMA GoneTo ==
  ASSUME call \in [Callers -> CallState], NEW c \in Callers, NEW pc, Goto(c, pc)
  PROVE  Moves(c, call[c].obj, pc)
BY DEF CallState, Goto, Moves

\* A call that returns what it has loaded, or what it says of an empty cache.
LEMMA Returned ==
  ASSUME call \in [Callers -> CallState], NEW c \in Callers, NEW ret,
         call' = [call EXCEPT ![c].ret = ret, ![c].pc = "idle"]
  PROVE  /\ call'[c].pc = "idle" /\ call'[c].ret = ret
         /\ call'[c].name = call[c].name /\ call'[c].obj = call[c].obj
         /\ call'[c].answer = call[c].answer
         /\ \A d \in Callers \ {c} : call'[d] = call[d]
         /\ ret \in Answers \cup {None, Fallback} => call' \in [Callers -> CallState]
<1> DEFINE x == [call[c] EXCEPT !.ret = ret, !.pc = "idle"]
<1>1. call' = [call EXCEPT ![c] = x]
  BY Zenon
<1>2. /\ x.pc = "idle" /\ x.ret = ret
      /\ x.name = call[c].name /\ x.obj = call[c].obj /\ x.answer = call[c].answer
  BY DEF CallState
<1>3. ret \in Answers \cup {None, Fallback} => x \in CallState
  BY DEF CallState, CallPc
<1> HIDE DEF x
<1>4. call'[c] = x /\ \A d \in Callers \ {c} : call'[d] = call[d]
  BY <1>1
<1>5. x \in CallState => call' \in [Callers -> CallState]
  BY <1>1
<1> QED
  BY <1>2, <1>3, <1>4, <1>5

\* What the return of a call leaves behind.
CallOver(c) ==
    /\ call[c].pc \in {"current", "empty"}
    /\ Moves(c, call[c].obj, "idle")
    /\ UNCHANGED <<closed, baseDone, closer, resolvers, mr, watch>>

\* Either way out of service.
LEMMA ReturnIsOver ==
  ASSUME call \in [Callers -> CallState], NEW c \in Callers,
         LoadCurrent(c) \/ ReturnEmpty(c)
  PROVE  CallOver(c)
<1>1. CASE LoadCurrent(c)
  BY <1>1, Returned DEF LoadCurrent, CallOver, Moves
<1>2. CASE ReturnEmpty(c)
  <2>1. PICK ret : call' = [call EXCEPT ![c].ret = ret, ![c].pc = "idle"]
    BY <1>2 DEF ReturnEmpty
  <2> QED
    BY <1>2, <2>1, Returned DEF ReturnEmpty, CallOver, Moves
<1> QED
  BY <1>1, <1>2

\* The end of a store by the seed.
LEMMA SeedPublished ==
  ASSUME call \in [Callers -> CallState], NEW c \in Callers, SeedPublish(c)
  PROVE  /\ call[c].pc = "seedPublish" /\ call'[c].pc = "startWatch"
         /\ call'[c].name = call[c].name /\ call'[c].obj = call[c].obj
         /\ \A d \in Callers \ {c} : call'[d] = call[d]
         /\ call' \in [Callers -> CallState]
<1> DEFINE x == [call[c] EXCEPT !.pc = "startWatch", !.answer = None]
<1>1. call[c].pc = "seedPublish" /\ call' = [call EXCEPT ![c] = x]
  BY Zenon DEF SeedPublish
<1>2. /\ x.pc = "startWatch" /\ x.name = call[c].name /\ x.obj = call[c].obj
  BY DEF CallState
<1>3. x \in CallState
  BY DEF CallState, CallPc
<1> HIDE DEF x
<1>4. call'[c] = x /\ \A d \in Callers \ {c} : call'[d] = call[d]
  BY <1>1
<1>5. call' \in [Callers -> CallState]
  BY <1>1, <1>3
<1> QED
  BY <1>1, <1>2, <1>4, <1>5

\* The watch has taken an event, and is about to ask.
LEMMA Woken ==
  ASSUME watch \in [Resolvers -> WatchState], NEW r \in Resolvers, Wake(r)
  PROVE  /\ watch[r].pc = "select" /\ watch'[r].pc = "resolve"
         /\ \A q \in Resolvers \ {r} : watch'[q] = watch[q]
<1> DEFINE x == [watch[r] EXCEPT !.events = @ - 1, !.pc = "resolve", !.answer = None]
<1>1. watch' = [watch EXCEPT ![r] = x]
  BY Zenon DEF Wake
<1>2. x.pc = "resolve"
  BY DEF WatchState
<1> HIDE DEF x
<1> QED
  BY <1>1, <1>2 DEF Wake

\* It has its answer.
LEMMA Refreshed ==
  ASSUME watch \in [Resolvers -> WatchState], NEW r \in Resolvers, NEW a,
         WatchResolve(r, a)
  PROVE  /\ watch[r].pc = "resolve" /\ watch'[r].pc = AfterAnswer(a)
         /\ watch'[r].answer = a /\ mr' = mr
         /\ \A q \in Resolvers \ {r} : watch'[q] = watch[q]
<1> DEFINE x == [watch[r] EXCEPT !.answer = a, !.pc = AfterAnswer(a)]
<1>1. watch' = [watch EXCEPT ![r] = x]
  BY Zenon DEF WatchResolve
<1>2. x.pc = AfterAnswer(a) /\ x.answer = a
  BY DEF WatchState
<1> HIDE DEF x
<1> QED
  BY <1>1, <1>2 DEF WatchResolve

\* The end of once for resolver r, which has a watch now or never will.
EndsOnce(c, r) ==
    /\ call[c].pc = "openWatch" /\ Moves(c, r, "load")
    /\ UNCHANGED <<closed, baseDone, closer, resolvers>>
    /\ mr'[r].once = "done"
    /\ mr'[r].owner = mr[r].owner /\ mr'[r].current = mr[r].current
    /\ mr'[r].seeded = mr[r].seeded
    /\ \A o \in Objects \ {r} : mr'[o] = mr[o]
    /\ watch'[r].pc = "select" \/ watch'[r] = watch[r]
    /\ watch'[r].answer = watch[r].answer
    /\ \A q \in Resolvers \ {r} : watch'[q] = watch[q]

\* registry.Watch has given a watch, or has failed.
LEMMA OnceOver ==
  ASSUME call \in [Callers -> CallState], mr \in [Objects -> ResolverState],
         watch \in [Resolvers -> WatchState],
         NEW c \in Callers, call[c].obj \in Resolvers,
         WatchOpened(c) \/ WatchFailed(c)
  PROVE  EndsOnce(c, call[c].obj)
<1> DEFINE r == call[c].obj
<1>0. r \in Objects
  BY DEF Objects
<1>1. Moves(c, r, "load")
  BY GoneTo DEF WatchOpened, WatchFailed
<1>2. CASE WatchOpened(c)
  <2>1. /\ mr'[r].once = "done"
        /\ mr'[r].owner = mr[r].owner /\ mr'[r].current = mr[r].current
        /\ mr'[r].seeded = mr[r].seeded
        /\ \A o \in Objects \ {r} : mr'[o] = mr[o]
    BY <1>0, <1>2 DEF WatchOpened, ResolverState
  <2>2. /\ watch'[r].pc = "select" /\ watch'[r].answer = watch[r].answer
        /\ \A q \in Resolvers \ {r} : watch'[q] = watch[q]
    BY <1>2 DEF WatchOpened, WatchState
  <2> QED
    BY <1>1, <1>2, <2>1, <2>2 DEF WatchOpened, EndsOnce
<1>3. CASE WatchFailed(c)
  <2>1. /\ mr'[r].once = "done"
        /\ mr'[r].owner = mr[r].owner /\ mr'[r].current = mr[r].current
        /\ mr'[r].seeded = mr[r].seeded
        /\ \A o \in Objects \ {r} : mr'[o] = mr[o]
    BY <1>0, <1>3 DEF WatchFailed, ResolverState
  <2> QED
    BY <1>1, <1>3, <2>1 DEF WatchFailed, EndsOnce
<1> QED
  BY <1>2, <1>3

-----------------------------------------------------------------------------
(* Type correctness. A store writes what the goroutine holds, and a call   *)
(* indexes resolvers by what it holds: TypeOK needs to know what they are. *)

SeedPc == {"seed", "seedCurrent", "seedAuth", "seedPublish", "startWatch",
           "openWatch"}
ReadPc == {"load", "current", "empty"}

CallTyped ==
    \A c \in Callers :
        /\ call[c].pc # "idle" => call[c].name \in Names
        /\ call[c].pc \in SeedPc \cup {"once"} => call[c].obj \in Resolvers
        /\ call[c].pc \in ReadPc => call[c].obj \in Objects
        /\ call[c].pc = "seedCurrent" => call[c].answer \in Services

WatchTyped ==
    \A r \in Resolvers :
        watch[r].pc = "storeCurrent" => watch[r].answer \in Services

Typed == TypeOK /\ CallTyped /\ WatchTyped

\* The invariant holds in every initial state.
LEMMA TypedInit == Init => Typed
<1> SUFFICES ASSUME Init PROVE Typed
  OBVIOUS
<1>1. mr \in [Objects -> ResolverState]
  BY NewResolverType DEF Init
<1>2. watch \in [Resolvers -> WatchState]
  <2>1. [pc |-> "none", answer |-> None, events |-> 0, open |-> FALSE] \in WatchState
    BY ConstantsAssumption DEF WatchState, WatchPc
  <2> QED
    BY <2>1 DEF Init
<1>3. call \in [Callers -> CallState]
  BY DEF Init, CallState, CallPc
<1> QED
  BY <1>1, <1>2, <1>3 DEF Init, Typed, TypeOK, CallTyped, WatchTyped, SeedPc,
     ReadPc

\* A step on the watch of r changes that watch alone: what is left to show is
\* that it stays a watch, holding a Service when it is about to store.
LEMMA WatchTypedStep ==
  ASSUME Typed, NEW r \in Resolvers, NEW w \in WatchState,
         w.pc = "storeCurrent" => w.answer \in Services,
         watch' = [watch EXCEPT ![r] = w],
         mr' \in [Objects -> ResolverState],
         UNCHANGED <<closed, baseDone, closer, resolvers, call>>
  PROVE  Typed'
<1>1. watch' \in [Resolvers -> WatchState]
  BY DEF Typed, TypeOK
<1>2. WatchTyped'
  BY DEF Typed, TypeOK, WatchTyped
<1> QED
  BY <1>1, <1>2 DEF Typed, TypeOK, CallTyped

\* A step of a watch keeps the types.
LEMMA WatchTypedNext ==
  ASSUME Typed, NEW r \in Resolvers, WatchStep(r) \/ Emit(r) \/ CloseChan(r)
  PROVE  Typed'
<1> DEFINE w == watch[r]
<1>1. w \in WatchState /\ mr \in [Objects -> ResolverState] /\ r \in Objects
  BY DEF Typed, TypeOK, Objects
<1>2. mr[r] \in ResolverState
  BY <1>1
<1>3. CASE Wake(r)
  <2>1. w.events - 1 \in 0..ChanCap
    BY <1>1, <1>3, ConstantsAssumption DEF Wake, WatchState
  <2>2. [w EXCEPT !.events = w.events - 1, !.pc = "resolve", !.answer = None] \in WatchState
    BY <1>1, <2>1, WatchUpdate DEF WatchPc
  <2>3. watch' = [watch EXCEPT ![r] =
            [w EXCEPT !.events = w.events - 1, !.pc = "resolve", !.answer = None]]
    BY <1>3, Zenon DEF Wake
  <2>4. [w EXCEPT !.events = w.events - 1, !.pc = "resolve", !.answer = None].pc
            = "resolve"
    BY <1>1 DEF WatchState
  <2> QED
    BY <1>1, <1>3, <2>2, <2>3, <2>4, WatchTypedStep DEF Wake
<1>4. CASE Exit(r)
  <2> DEFINE v == [w EXCEPT !.pc = "exited"]
  <2>1. v \in WatchState /\ v.pc = "exited"
    BY <1>1 DEF WatchState, WatchPc
  <2>2. watch' = [watch EXCEPT ![r] = v]
    BY <1>4, Zenon DEF Exit
  <2> QED
    BY <1>1, <1>4, <2>1, <2>2, WatchTypedStep DEF Exit
<1>5. ASSUME NEW a \in Answers, WatchResolve(r, a) PROVE Typed'
  <2> DEFINE v == [w EXCEPT !.answer = a, !.pc = AfterAnswer(a)]
  <2>1. /\ AfterAnswer(a) \in WatchPc
        /\ AfterAnswer(a) = "storeCurrent" => a \in Services
    BY ConstantsAssumption DEF AfterAnswer, Answers, Errors, WatchPc, NoHealthy, Transient
  <2>2. /\ v \in WatchState
        /\ v.pc = AfterAnswer(a)
        /\ v.answer = a
    BY <1>1, <2>1 DEF WatchState
  <2>3. watch' = [watch EXCEPT ![r] = v]
    BY <1>5, Zenon DEF WatchResolve
  <2> QED
    BY <1>1, <1>5, <2>1, <2>2, <2>3, WatchTypedStep DEF WatchResolve
<1>6. CASE WatchStoreCurrent(r)
  <2> DEFINE v == [w EXCEPT !.pc = "storeAuth"]
  <2>1. v \in WatchState /\ v.pc = "storeAuth"
    BY <1>1 DEF WatchState, WatchPc
  <2>2. watch' = [watch EXCEPT ![r] = v]
    BY <1>6, Zenon DEF WatchStoreCurrent
  <2>3. mr' \in [Objects -> ResolverState]
    <3>1. w.answer \in Services
      BY <1>6 DEF WatchStoreCurrent, Typed, WatchTyped
    <3>2. mr' = [mr EXCEPT ![r] = [mr[r] EXCEPT !.current = w.answer]]
      BY <1>6, Zenon DEF WatchStoreCurrent, StoreCurrent
    <3> QED
      BY <1>1, <1>2, <3>1, <3>2, ResolverUpdate
  <2> QED
    BY <1>6, <2>1, <2>2, <2>3, WatchTypedStep DEF WatchStoreCurrent
<1>7. CASE WatchStoreAuth(r)
  <2> DEFINE v == [w EXCEPT !.pc = "storePublish"]
  <2>1. v \in WatchState /\ v.pc = "storePublish"
    BY <1>1 DEF WatchState, WatchPc
  <2>2. watch' = [watch EXCEPT ![r] = v]
    BY <1>7, Zenon DEF WatchStoreAuth
  <2>3. mr' \in [Objects -> ResolverState]
    <3>1. mr' = [mr EXCEPT ![r] = [mr[r] EXCEPT !.authEmpty = FALSE]]
      BY <1>7, Zenon DEF WatchStoreAuth, StoreAuth
    <3> QED
      BY <1>1, <1>2, <3>1, ResolverUpdate
  <2> QED
    BY <1>7, <2>1, <2>2, <2>3, WatchTypedStep DEF WatchStoreAuth
<1>8. CASE WatchPublish(r)
  <2> DEFINE v == [w EXCEPT !.pc = "select", !.answer = None]
  <2>1. v \in WatchState /\ v.pc = "select"
    BY <1>1 DEF WatchState, WatchPc
  <2>2. watch' = [watch EXCEPT ![r] = v]
    BY <1>8, Zenon DEF WatchPublish
  <2>3. mr' \in [Objects -> ResolverState]
    <3>1. mr' = [mr EXCEPT ![r] = [mr[r] EXCEPT !.seeded = TRUE]]
      BY <1>8, Zenon DEF WatchPublish, StorePublish
    <3> QED
      BY <1>1, <1>2, <3>1, ResolverUpdate
  <2> QED
    BY <1>8, <2>1, <2>2, <2>3, WatchTypedStep DEF WatchPublish
<1>9. CASE WatchClearAuth(r)
  <2> DEFINE v == [w EXCEPT !.pc = "clearSeeded"]
  <2>1. v \in WatchState /\ v.pc = "clearSeeded"
    BY <1>1 DEF WatchState, WatchPc
  <2>2. watch' = [watch EXCEPT ![r] = v]
    BY <1>9, Zenon DEF WatchClearAuth
  <2>3. mr' \in [Objects -> ResolverState]
    <3>1. mr' = [mr EXCEPT ![r] = [mr[r] EXCEPT !.authEmpty = TRUE]]
      BY <1>9, Zenon DEF WatchClearAuth, ClearAuth
    <3> QED
      BY <1>1, <1>2, <3>1, ResolverUpdate
  <2> QED
    BY <1>9, <2>1, <2>2, <2>3, WatchTypedStep DEF WatchClearAuth
<1>10. CASE WatchClearSeeded(r)
  <2> DEFINE v == [w EXCEPT !.pc = "select", !.answer = None]
  <2>1. v \in WatchState /\ v.pc = "select"
    BY <1>1 DEF WatchState, WatchPc
  <2>2. watch' = [watch EXCEPT ![r] = v]
    BY <1>10, Zenon DEF WatchClearSeeded
  <2>3. mr' \in [Objects -> ResolverState]
    <3>1. mr' = [mr EXCEPT ![r] = [mr[r] EXCEPT !.seeded = FALSE]]
      BY <1>10, Zenon DEF WatchClearSeeded, ClearSeeded
    <3> QED
      BY <1>1, <1>2, <3>1, ResolverUpdate
  <2> QED
    BY <1>10, <2>1, <2>2, <2>3, WatchTypedStep DEF WatchClearSeeded
<1>11. CASE Emit(r)
  <2> DEFINE v == [w EXCEPT !.events = w.events + 1]
  <2>1. w.events + 1 \in 0..ChanCap
    BY <1>1, <1>11, ConstantsAssumption DEF Emit, Room, WatchState
  <2>2. v \in WatchState /\ v.pc = w.pc /\ v.answer = w.answer
    BY <1>1, <2>1 DEF WatchState
  <2>3. watch' = [watch EXCEPT ![r] = v]
    BY <1>11, Zenon DEF Emit
  <2>4. w.pc = "storeCurrent" => w.answer \in Services
    BY DEF Typed, WatchTyped
  <2> QED
    BY <1>1, <1>11, <2>2, <2>3, <2>4, WatchTypedStep DEF Emit
<1>12. CASE CloseChan(r)
  <2> DEFINE v == [w EXCEPT !.open = FALSE]
  <2>1. v \in WatchState
    BY <1>1, WatchUpdate
  <2>2. v.pc = w.pc /\ v.answer = w.answer
    BY <1>1 DEF WatchState
  <2>3. watch' = [watch EXCEPT ![r] = v]
    BY <1>12, Zenon DEF CloseChan
  <2>4. w.pc = "storeCurrent" => w.answer \in Services
    BY DEF Typed, WatchTyped
  <2> QED
    BY <1>1, <1>12, <2>1, <2>2, <2>3, <2>4, WatchTypedStep DEF CloseChan
<1> QED
  BY <1>3, <1>4, <1>5, <1>6, <1>7, <1>8, <1>9, <1>10, <1>11, <1>12 DEF WatchStep

\* Every step keeps the types.
LEMMA TypedNext == Typed /\ [Next]_vars => Typed'
<1> SUFFICES ASSUME Typed, [Next]_vars PROVE Typed'
  OBVIOUS
<1> USE DEF Typed, TypeOK, CallTyped, WatchTyped, SeedPc, ReadPc, Objects
<1>1. ASSUME NEW c \in Callers, NEW n \in Names, Call(c, n) PROVE Typed'
  BY <1>1 DEF Call, CallState, CallPc
<1>2. ASSUME NEW c \in Callers, FastLookup(c) PROVE Typed'
  BY <1>2 DEF FastLookup, Goto, Found, CallState, CallPc
<1>3. ASSUME NEW c \in Callers, SlowLookup(c) PROVE Typed'
  <2> DEFINE n == call[c].name
  <2>1. /\ call[c].pc = "slow"
        /\ n \in Names
        /\ call[c].name \in Names
        /\ UNCHANGED <<closed, baseDone, closer, watch>>
    BY <1>3 DEF SlowLookup
  <2>2. CASE closed /\ call' = [call EXCEPT ![c].obj = Ephemeral, ![c].pc = "load"]
             /\ UNCHANGED <<resolvers, mr>>
    BY <2>1, <2>2 DEF CallState, CallPc
  <2>3. CASE /\ resolvers[n] # None
             /\ call' = [call EXCEPT ![c].obj = resolvers[n], ![c].pc = "once"]
             /\ UNCHANGED <<resolvers, mr>>
    <3>1. resolvers[n] \in Resolvers
      BY <2>1, <2>3
    <3>2. call' \in [Callers -> CallState]
      BY <2>3, <3>1, MovedTo DEF CallPc
    <3>3. CallTyped'
      <4>1. Moves(c, resolvers[n], "once")
        BY <2>3, MovedTo
      <4> QED
        BY <2>1, <3>1, <4>1 DEF Moves
    <3> QED
      BY <2>1, <2>3, <3>2, <3>3
  <2>4. ASSUME NEW r \in Resolvers,
               mr' = [mr EXCEPT ![r] = NewResolver(n)],
               resolvers' = [resolvers EXCEPT ![n] = r],
               call' = [call EXCEPT ![c].obj = r, ![c].pc = "once"]
        PROVE  Typed'
    <3>1. mr' \in [Objects -> ResolverState]
      BY <2>1, <2>4, NewResolverType
    <3>2. resolvers' \in [Names -> Resolvers \cup {None}]
      BY <2>1, <2>4
    <3>3. call' \in [Callers -> CallState] /\ CallTyped'
      BY <2>1, <2>4 DEF CallState, CallPc
    <3> QED
      BY <2>1, <3>1, <3>2, <3>3
  <2> QED
    BY <1>3, <2>2, <2>3, <2>4 DEF SlowLookup
<1>4. ASSUME NEW c \in Callers, OnceEnter(c) PROVE Typed'
  <2>1. mr' \in [Objects -> ResolverState]
    BY <1>4, ResolverUpdate DEF OnceEnter
  <2> QED
    BY <1>4, <2>1 DEF OnceEnter, Goto, CallState, CallPc
<1>5. ASSUME NEW c \in Callers, OnceDone(c) PROVE Typed'
  BY <1>5 DEF OnceDone, Goto, CallState, CallPc
<1>6. ASSUME NEW c \in Callers, NEW a \in Answers, SeedResolve(c, a)
      PROVE  Typed'
  <2>1. mr' \in [Objects -> ResolverState]
    <3> DEFINE o == call[c].obj
    <3>1. o \in Objects /\ mr[o] \in ResolverState
      BY <1>6 DEF SeedResolve
    <3>2. CASE UNCHANGED mr
      BY <3>2
    <3>3. CASE a \in Errors /\ mr' = [mr EXCEPT ![o] = [mr[o] EXCEPT !.seedErr = a]]
      BY <3>1, <3>3, ResolverUpdate
    <3> QED
      BY <1>6, <3>2, <3>3, Zenon DEF SeedResolve
  <2> QED
    BY <1>6, <2>1 DEF SeedResolve, Goto, CallState, CallPc
<1>7. ASSUME NEW c \in Callers, SeedStoreCurrent(c) PROVE Typed'
  <2>1. mr' \in [Objects -> ResolverState]
    BY <1>7, ResolverUpdate DEF SeedStoreCurrent, StoreCurrent
  <2> QED
    BY <1>7, <2>1 DEF SeedStoreCurrent, Goto, CallState, CallPc
<1>8. ASSUME NEW c \in Callers, SeedStoreAuth(c) PROVE Typed'
  <2>1. mr' \in [Objects -> ResolverState]
    BY <1>8, ResolverUpdate DEF SeedStoreAuth, StoreAuth
  <2> QED
    BY <1>8, <2>1 DEF SeedStoreAuth, Goto, CallState, CallPc
<1>9. ASSUME NEW c \in Callers, SeedPublish(c) PROVE Typed'
  <2>1. mr' \in [Objects -> ResolverState]
    BY <1>9, ResolverUpdate DEF SeedPublish, StorePublish
  <2> QED
    BY <1>9, <2>1, SeedPublished DEF SeedPublish
<1>10. ASSUME NEW c \in Callers, StartWatch(c) PROVE Typed'
  <2>1. mr' \in [Objects -> ResolverState]
    BY <1>10, ResolverUpdate DEF StartWatch
  <2> QED
    BY <1>10, <2>1 DEF StartWatch, Goto, CallState, CallPc
<1>11. ASSUME NEW c \in Callers, WatchOpened(c) PROVE Typed'
  <2>1. mr' \in [Objects -> ResolverState]
    BY <1>11, ResolverUpdate DEF WatchOpened
  <2>2. /\ watch' \in [Resolvers -> WatchState]
        /\ WatchTyped'
    <3> DEFINE r == call[c].obj
    <3>1. r \in Resolvers
      BY <1>11 DEF WatchOpened
    <3>2. watch' = [watch EXCEPT ![r] = [watch[r] EXCEPT !.pc = "select", !.open = TRUE]]
      BY <1>11, Zenon DEF WatchOpened
    <3>3. watch' \in [Resolvers -> WatchState]
      BY <3>1, <3>2, WatchUpdate
    <3>4. \A q \in Resolvers : q # r => watch'[q] = watch[q]
      BY <3>2
    <3>5. watch'[r].pc = "select"
      BY <3>1, <3>2 DEF WatchState
    <3> QED
      BY <3>3, <3>4, <3>5
  <2>3. call' \in [Callers -> CallState]
    BY <1>11 DEF WatchOpened, Goto, CallState, CallPc
  <2>4. CallTyped'
    <3>1. Moves(c, call[c].obj, "load")
      BY <1>11, GoneTo DEF WatchOpened
    <3> QED
      BY <1>11, <3>1 DEF Moves, WatchOpened
  <2> QED
    BY <1>11, <2>1, <2>2, <2>3, <2>4 DEF WatchOpened
<1>12. ASSUME NEW c \in Callers, WatchFailed(c) PROVE Typed'
  <2>1. mr' \in [Objects -> ResolverState]
    BY <1>12, ResolverUpdate DEF WatchFailed
  <2> QED
    BY <1>12, <2>1 DEF WatchFailed, Goto, CallState, CallPc
<1>13. ASSUME NEW c \in Callers, LoadSeeded(c) PROVE Typed'
  BY <1>13 DEF LoadSeeded, Goto, CallState, CallPc
<1>14. ASSUME NEW c \in Callers, LoadCurrent(c) PROVE Typed'
  <2>1. mr[call[c].obj].current \in Services \cup {None}
    BY <1>14 DEF LoadCurrent, ResolverState
  <2>2. call' \in [Callers -> CallState]
    <3>1. mr[call[c].obj].current \in Answers \cup {None, Fallback}
      BY <2>1 DEF Answers
    <3>2. /\ call \in [Callers -> CallState]
          /\ call' = [call EXCEPT ![c].ret = mr[call[c].obj].current, ![c].pc = "idle"]
      BY <1>14, Zenon DEF LoadCurrent
    <3> QED
      BY <3>1, <3>2, Returned
  <2>3. CallOver(c)
    BY <1>14, ReturnIsOver
  <2>4. CallTyped'
    BY <2>3 DEF CallOver, Moves
  <2> QED
    BY <2>2, <2>3, <2>4 DEF CallOver
<1>15. ASSUME NEW c \in Callers, ReturnEmpty(c) PROVE Typed'
  <2>1. EmptyErr(call[c].obj) \in Errors
    BY <1>15 DEF ReturnEmpty, EmptyErr, Errors, ResolverState
  <2> QED
    BY <1>15, <2>1 DEF ReturnEmpty, CallState, CallPc, Answers
<1>16. ASSUME NEW r \in Resolvers, WatchStep(r) \/ Emit(r) \/ CloseChan(r)
      PROVE  Typed'
  BY <1>16, WatchTypedNext
<1>17. ASSUME NEW n \in Names, CloseDrain(n) PROVE Typed'
  <2>1. mr' \in [Objects -> ResolverState]
    BY <1>17, ResolverUpdate DEF CloseDrain
  <2> QED
    BY <1>17, <2>1 DEF CloseDrain
<1>18. ASSUME CloseBegin \/ CloseUnlock \/ CloseRegistry PROVE Typed'
  BY <1>18 DEF CloseBegin, CloseUnlock, CloseRegistry
<1>19. CASE UNCHANGED vars
  BY <1>19 DEF vars
<1> QED
  BY <1>1, <1>2, <1>3, <1>4, <1>5, <1>6, <1>7, <1>8, <1>9, <1>10, <1>11, <1>12,
     <1>13, <1>14, <1>15, <1>16, <1>17, <1>18, <1>19
     DEF Next, CallerStep, CloseStep

-----------------------------------------------------------------------------
(* The inductive invariant: what makes the safety properties true together *)
(* with the shape of managedResolverFor, of once.Do and of Close.          *)

\* Close is under way only after closed was set.
CloseOrder == closer # "idle" => closed

\* The map and the resolvers agree: an entry leads to a resolver of its name,
\* and until Close a resolver is reached from the name it was made for.
Owned ==
    /\ \A n \in Names : resolvers[n] # None => mr[resolvers[n]].owner = n
    /\ ~closed => \A r \in Resolvers :
                     mr[r].owner # None => resolvers[mr[r].owner] = r
    /\ OneResolverPerName

\* Nobody holds an object that has not been made into a resolver yet.
Fresh ==
    \A r \in Resolvers : mr[r].owner = None =>
        /\ mr[r].once = "new"
        /\ \A c \in Callers : call[c].obj # r

\* once orders the life of a resolver: one caller seeds it while once runs, its
\* watch and its readers come only when once is done.
OnceOrder ==
    \A r \in Resolvers :
        /\ mr[r].once # "done" => watch[r].pc = "none"
        /\ \A c \in Callers : Seeding(c, r) => mr[r].once = "running"
        /\ \A c \in Callers : Reading(c, r) => mr[r].once = "done"
        /\ \A c, d \in Callers : Seeding(c, r) /\ Seeding(d, r) => c = d

\* seeded is raised only after current has been stored, by whoever stores.
Stored ==
    /\ \A o \in Objects : mr[o].seeded => mr[o].current # None
    /\ \A c \in Callers :
          call[c].pc \in {"seedAuth", "seedPublish", "current"} =>
              mr[call[c].obj].current # None
    /\ \A r \in Resolvers :
          watch[r].pc \in {"storeAuth", "storePublish"} => mr[r].current # None

IInv == Typed /\ CloseOrder /\ Owned /\ Fresh /\ OnceOrder /\ Stored

\* A caller that goes where nothing is seeded or read leaves the order of once
\* as it was.
LEMMA OnceStays ==
  ASSUME OnceOrder, NEW c \in Callers, NEW o, NEW pc, pc \notin SeedPc \cup ReadPc,
         Moves(c, o, pc), UNCHANGED <<mr, watch>>
  PROVE  OnceOrder'
<1>1. \A d \in Callers, r \in Resolvers :
          (Seeding(d, r)' => Seeding(d, r)) /\ (Reading(d, r)' => Reading(d, r))
  BY DEF Moves, Seeding, Reading, SeedPc, ReadPc
<1> QED
  BY <1>1 DEF OnceOrder

\* The end of once lets the one that seeded read, and the watch begin.
LEMMA OnceEnds ==
  ASSUME OnceOrder, NEW c \in Callers, NEW r \in Resolvers, call[c].obj = r,
         EndsOnce(c, r)
  PROVE  OnceOrder'
<1>1. \A d \in Callers, q \in Resolvers : Seeding(d, q)' => Seeding(d, q)
  BY DEF EndsOnce, Moves, Seeding
<1>2. \A d \in Callers, q \in Resolvers :
          Reading(d, q)' => Reading(d, q) \/ q = r
  BY DEF EndsOnce, Moves, Reading
<1>3. \A d \in Callers : ~Seeding(d, r)'
  BY DEF EndsOnce, Moves, Seeding, OnceOrder
<1>4. \A q \in Resolvers \ {r} : mr'[q] = mr[q] /\ watch'[q] = watch[q]
  BY DEF EndsOnce, Objects
<1>5. mr'[r].once = "done"
  BY DEF EndsOnce
<1> QED
  BY <1>1, <1>2, <1>3, <1>4, <1>5 DEF OnceOrder

\* A caller that goes where nothing has to be stored yet.
LEMMA StoredStays ==
  ASSUME Stored, NEW c \in Callers, NEW o, NEW pc,
         pc \notin {"seedAuth", "seedPublish", "current"},
         Moves(c, o, pc), UNCHANGED <<mr, watch>>
  PROVE  Stored'
BY DEF Stored, Moves

\* The end of once stores nothing and takes nothing back.
LEMMA StoredEnds ==
  ASSUME Typed, Stored, NEW c \in Callers, NEW r \in Resolvers, EndsOnce(c, r)
  PROVE  Stored'
<1>1. \A o \in Objects : mr'[o].seeded = mr[o].seeded /\ mr'[o].current = mr[o].current
  BY DEF EndsOnce
<1>2. \A d \in Callers :
          call'[d].pc \in {"seedAuth", "seedPublish", "current"} =>
              call'[d] = call[d]
  BY DEF EndsOnce, Moves
<1>3. \A d \in Callers :
          call[d].pc \in {"seedAuth", "seedPublish", "current"} =>
              call[d].obj \in Objects /\ mr[call[d].obj].current # None
  BY DEF Typed, CallTyped, SeedPc, ReadPc, Objects, Stored
<1>4. \A q \in Resolvers :
          watch'[q].pc \in {"storeAuth", "storePublish"} => watch'[q].pc = watch[q].pc
  BY DEF EndsOnce
<1> QED
  BY <1>1, <1>2, <1>3, <1>4 DEF Stored, Objects

\* The invariant holds in every initial state.
LEMMA IInvInit == Init => IInv
<1> SUFFICES ASSUME Init PROVE IInv
  OBVIOUS
<1>1. Typed
  BY TypedInit
<1>2. \A o \in Objects : /\ mr[o].owner = None
                         /\ mr[o].once = "new"
                         /\ mr[o].seeded = FALSE
  BY DEF Init, NewResolver
<1>3. CloseOrder /\ Owned
  BY <1>2 DEF Init, CloseOrder, Owned, OneResolverPerName, Objects
<1>4. Fresh
  BY <1>2, ConstantsAssumption DEF Init, Fresh, Objects
<1>5. OnceOrder
  BY <1>2 DEF Init, OnceOrder, Seeding, Reading
<1>6. Stored
  BY <1>2 DEF Init, Stored
<1> QED
  BY <1>1, <1>3, <1>4, <1>5, <1>6 DEF IInv

\* Only SlowLookup makes a resolver, before Close and for a name without one;
\* only CloseDrain removes an entry, after closed was set.
LEMMA OwnedNext == Typed /\ CloseOrder /\ Fresh /\ Owned /\ [Next]_vars => Owned'
<1> SUFFICES ASSUME Typed, CloseOrder, Fresh, Owned, [Next]_vars PROVE Owned'
  OBVIOUS
<1> USE ConstantsAssumption DEF Typed, TypeOK, CallTyped, Objects,
            ResolverState, SeedPc, CloseOrder, Fresh, Owned, OneResolverPerName
<1>1. ASSUME NEW c \in Callers, NEW n \in Names, Call(c, n) PROVE Owned'
  BY <1>1 DEF Call
<1>2. ASSUME NEW c \in Callers, FastLookup(c) PROVE Owned'
  <2> DEFINE r == resolvers[call[c].name]
  <2>1. /\ call[c].pc = "fast" /\ call[c].name \in Names
        /\ UNCHANGED <<closed, baseDone, closer, resolvers, mr, watch>>
    BY <1>2 DEF FastLookup
  <2>2. CASE r # None /\ call' = [call EXCEPT ![c].obj = r, ![c].pc = "once"]
    BY <2>1, <2>2
  <2>3. CASE call' = [call EXCEPT ![c].pc = "slow"]
    BY <2>1, <2>3
  <2> QED
    BY <1>2, <2>2, <2>3 DEF FastLookup, Goto, Found
<1>3. ASSUME NEW c \in Callers, SlowLookup(c) PROVE Owned'
  <2> DEFINE n == call[c].name
  <2>1. /\ call[c].pc = "slow" /\ n \in Names
        /\ UNCHANGED <<closed, baseDone, closer, watch>>
    BY <1>3 DEF SlowLookup
  <2>2. CASE /\ call' = [call EXCEPT ![c].obj = Ephemeral, ![c].pc = "load"]
             /\ UNCHANGED <<resolvers, mr>>
    BY <2>1, <2>2
  <2>3. CASE /\ resolvers[n] # None
             /\ call' = [call EXCEPT ![c].obj = resolvers[n], ![c].pc = "once"]
             /\ UNCHANGED <<resolvers, mr>>
    BY <2>1, <2>3
  <2>4. ASSUME NEW r \in Resolvers, MustCreate(n), mr[r].owner = None,
               mr' = [mr EXCEPT ![r] = NewResolver(n)],
               resolvers' = [resolvers EXCEPT ![n] = r],
               call' = [call EXCEPT ![c].obj = r, ![c].pc = "once"]
        PROVE  Owned'
    BY <2>1, <2>4 DEF MustCreate, NewResolver
  <2> QED
    BY <1>3, <2>2, <2>3, <2>4 DEF SlowLookup
<1>4. ASSUME NEW c \in Callers, OnceEnter(c) PROVE Owned'
  BY <1>4 DEF OnceEnter, Goto, OnceFree
<1>5. ASSUME NEW c \in Callers, OnceDone(c) PROVE Owned'
  BY <1>5 DEF OnceDone, Goto
<1>6. ASSUME NEW c \in Callers, NEW a \in Answers, SeedResolve(c, a)
      PROVE  Owned'
  <2>1. call[c].pc = "seed" /\ UNCHANGED <<closed, baseDone, closer, resolvers, watch>>
    BY <1>6 DEF SeedResolve
  <2>2. CASE /\ mr' = [mr EXCEPT ![call[c].obj].seedErr = a]
             /\ call' = [call EXCEPT ![c].pc = "startWatch"]
    BY <2>1, <2>2
  <2>3. CASE /\ call' = [call EXCEPT ![c].answer = a, ![c].pc = "seedCurrent"]
             /\ UNCHANGED mr
    BY <2>1, <2>3
  <2> QED
    BY <1>6, <2>2, <2>3 DEF SeedResolve, Goto
<1>7. ASSUME NEW c \in Callers, SeedStoreCurrent(c) PROVE Owned'
  BY <1>7 DEF SeedStoreCurrent, Goto, StoreCurrent
<1>8. ASSUME NEW c \in Callers, SeedStoreAuth(c) PROVE Owned'
  BY <1>8 DEF SeedStoreAuth, Goto, StoreAuth
<1>9. ASSUME NEW c \in Callers, SeedPublish(c) PROVE Owned'
  BY <1>9 DEF SeedPublish, StorePublish
<1>10. ASSUME NEW c \in Callers, StartWatch(c) PROVE Owned'
  BY <1>10 DEF StartWatch, Goto
<1>11. ASSUME NEW c \in Callers, WatchOpened(c) PROVE Owned'
  <2>1. EndsOnce(c, call[c].obj)
    BY <1>11, OnceOver DEF WatchOpened
  <2> HIDE DEF ResolverState
  <2> QED
    BY <2>1 DEF EndsOnce, Moves
<1>12. ASSUME NEW c \in Callers, WatchFailed(c) PROVE Owned'
  <2>1. EndsOnce(c, call[c].obj)
    BY <1>12, OnceOver DEF WatchFailed
  <2> HIDE DEF ResolverState
  <2> QED
    BY <2>1 DEF EndsOnce, Moves
<1>13. ASSUME NEW c \in Callers, LoadSeeded(c) PROVE Owned'
  BY <1>13 DEF LoadSeeded, Goto, Hit
<1>14. ASSUME NEW c \in Callers, LoadCurrent(c) PROVE Owned'
  <2>1. CallOver(c)
    BY <1>14, ReturnIsOver
  <2> HIDE DEF ResolverState
  <2> QED
    BY <2>1 DEF CallOver, Moves
<1>15. ASSUME NEW c \in Callers, ReturnEmpty(c) PROVE Owned'
  <2>1. CallOver(c)
    BY <1>15, ReturnIsOver
  <2> HIDE DEF ResolverState
  <2> QED
    BY <2>1 DEF CallOver, Moves
<1>16. ASSUME NEW r \in Resolvers, Wake(r) PROVE Owned'
  BY <1>16 DEF Wake
<1>17. ASSUME NEW r \in Resolvers, Exit(r) PROVE Owned'
  BY <1>17 DEF Exit, CtxDone
<1>18. ASSUME NEW r \in Resolvers, NEW a \in Answers, WatchResolve(r, a)
      PROVE  Owned'
  BY <1>18 DEF WatchResolve, AfterAnswer
<1>19. ASSUME NEW r \in Resolvers, WatchStoreCurrent(r) PROVE Owned'
  BY <1>19 DEF WatchStoreCurrent, StoreCurrent
<1>20. ASSUME NEW r \in Resolvers, WatchStoreAuth(r) PROVE Owned'
  BY <1>20 DEF WatchStoreAuth, StoreAuth
<1>21. ASSUME NEW r \in Resolvers, WatchPublish(r) PROVE Owned'
  BY <1>21 DEF WatchPublish, StorePublish
<1>22. ASSUME NEW r \in Resolvers, WatchClearAuth(r) PROVE Owned'
  BY <1>22 DEF WatchClearAuth, ClearAuth
<1>23. ASSUME NEW r \in Resolvers, WatchClearSeeded(r) PROVE Owned'
  BY <1>23 DEF WatchClearSeeded, ClearSeeded
<1>24. ASSUME NEW r \in Resolvers, Emit(r) PROVE Owned'
  BY <1>24 DEF Emit, Room
<1>25. ASSUME NEW r \in Resolvers, CloseChan(r) PROVE Owned'
  BY <1>25 DEF CloseChan, CtxDone
<1>26. ASSUME NEW n \in Names, CloseDrain(n) PROVE Owned'
  BY <1>26 DEF CloseDrain
<1>27. ASSUME CloseBegin \/ CloseUnlock \/ CloseRegistry PROVE Owned'
  BY <1>27 DEF CloseBegin, CloseUnlock, CloseRegistry
<1>28. CASE UNCHANGED vars
  BY <1>28 DEF vars
<1> QED
  BY <1>1, <1>2, <1>3, <1>4, <1>5, <1>6, <1>7, <1>8, <1>9, <1>10, <1>11,
     <1>12, <1>13, <1>14, <1>15, <1>16, <1>17, <1>18, <1>19, <1>20, <1>21,
     <1>22, <1>23, <1>24, <1>25, <1>26, <1>27, <1>28 DEF Next, CallerStep,
     WatchStep, CloseStep

\* A caller takes its object from the map or has just made it.
LEMMA FreshNext == Typed /\ Owned /\ Fresh /\ [Next]_vars => Fresh'
<1> SUFFICES ASSUME Typed, Owned, Fresh, [Next]_vars PROVE Fresh'
  OBVIOUS
<1> USE ConstantsAssumption DEF Typed, TypeOK, CallTyped, Objects,
            ResolverState, CallState, SeedPc, Fresh, Owned
<1>1. ASSUME NEW c \in Callers, NEW n \in Names, Call(c, n) PROVE Fresh'
  BY <1>1 DEF Call
<1>2. ASSUME NEW c \in Callers, FastLookup(c) PROVE Fresh'
  <2> DEFINE r == resolvers[call[c].name]
  <2>1. /\ call[c].pc = "fast" /\ call[c].name \in Names
        /\ UNCHANGED <<closed, baseDone, closer, resolvers, mr, watch>>
    BY <1>2 DEF FastLookup
  <2>2. CASE r # None /\ call' = [call EXCEPT ![c].obj = r, ![c].pc = "once"]
    BY <2>1, <2>2
  <2>3. CASE call' = [call EXCEPT ![c].pc = "slow"]
    BY <2>1, <2>3
  <2> QED
    BY <1>2, <2>2, <2>3 DEF FastLookup, Goto, Found
<1>3. ASSUME NEW c \in Callers, SlowLookup(c) PROVE Fresh'
  <2> DEFINE n == call[c].name
  <2>1. /\ call[c].pc = "slow" /\ n \in Names
        /\ UNCHANGED <<closed, baseDone, closer, watch>>
    BY <1>3 DEF SlowLookup
  <2>2. CASE /\ call' = [call EXCEPT ![c].obj = Ephemeral, ![c].pc = "load"]
             /\ UNCHANGED <<resolvers, mr>>
    BY <2>1, <2>2
  <2>3. CASE /\ resolvers[n] # None
             /\ call' = [call EXCEPT ![c].obj = resolvers[n], ![c].pc = "once"]
             /\ UNCHANGED <<resolvers, mr>>
    BY <2>1, <2>3
  <2>4. ASSUME NEW r \in Resolvers, MustCreate(n), mr[r].owner = None,
               mr' = [mr EXCEPT ![r] = NewResolver(n)],
               resolvers' = [resolvers EXCEPT ![n] = r],
               call' = [call EXCEPT ![c].obj = r, ![c].pc = "once"]
        PROVE  Fresh'
    BY <2>1, <2>4 DEF MustCreate, NewResolver
  <2> QED
    BY <1>3, <2>2, <2>3, <2>4 DEF SlowLookup
<1>4. ASSUME NEW c \in Callers, OnceEnter(c) PROVE Fresh'
  BY <1>4 DEF OnceEnter, Goto, OnceFree
<1>5. ASSUME NEW c \in Callers, OnceDone(c) PROVE Fresh'
  BY <1>5 DEF OnceDone, Goto
<1>6. ASSUME NEW c \in Callers, NEW a \in Answers, SeedResolve(c, a)
      PROVE  Fresh'
  <2>1. call[c].pc = "seed" /\ UNCHANGED <<closed, baseDone, closer, resolvers, watch>>
    BY <1>6 DEF SeedResolve
  <2>2. CASE /\ mr' = [mr EXCEPT ![call[c].obj].seedErr = a]
             /\ call' = [call EXCEPT ![c].pc = "startWatch"]
    BY <2>1, <2>2
  <2>3. CASE /\ call' = [call EXCEPT ![c].answer = a, ![c].pc = "seedCurrent"]
             /\ UNCHANGED mr
    BY <2>1, <2>3
  <2> QED
    BY <1>6, <2>2, <2>3 DEF SeedResolve, Goto
<1>7. ASSUME NEW c \in Callers, SeedStoreCurrent(c) PROVE Fresh'
  BY <1>7 DEF SeedStoreCurrent, Goto, StoreCurrent
<1>8. ASSUME NEW c \in Callers, SeedStoreAuth(c) PROVE Fresh'
  BY <1>8 DEF SeedStoreAuth, Goto, StoreAuth
<1>9. ASSUME NEW c \in Callers, SeedPublish(c) PROVE Fresh'
  BY <1>9 DEF SeedPublish, StorePublish
<1>10. ASSUME NEW c \in Callers, StartWatch(c) PROVE Fresh'
  BY <1>10 DEF StartWatch, Goto
<1>11. ASSUME NEW c \in Callers, WatchOpened(c) PROVE Fresh'
  BY <1>11 DEF WatchOpened, Goto
<1>12. ASSUME NEW c \in Callers, WatchFailed(c) PROVE Fresh'
  BY <1>12 DEF WatchFailed, Goto
<1>13. ASSUME NEW c \in Callers, LoadSeeded(c) PROVE Fresh'
  BY <1>13 DEF LoadSeeded, Goto, Hit
<1>14. ASSUME NEW c \in Callers, LoadCurrent(c) PROVE Fresh'
  <2>1. CallOver(c)
    BY <1>14, ReturnIsOver
  <2> QED
    BY <2>1 DEF CallOver, Moves
<1>15. ASSUME NEW c \in Callers, ReturnEmpty(c) PROVE Fresh'
  <2>1. CallOver(c)
    BY <1>15, ReturnIsOver
  <2> QED
    BY <2>1 DEF CallOver, Moves
<1>16. ASSUME NEW r \in Resolvers, Wake(r) PROVE Fresh'
  BY <1>16 DEF Wake
<1>17. ASSUME NEW r \in Resolvers, Exit(r) PROVE Fresh'
  BY <1>17 DEF Exit, CtxDone
<1>18. ASSUME NEW r \in Resolvers, NEW a \in Answers, WatchResolve(r, a)
      PROVE  Fresh'
  BY <1>18 DEF WatchResolve, AfterAnswer
<1>19. ASSUME NEW r \in Resolvers, WatchStoreCurrent(r) PROVE Fresh'
  BY <1>19 DEF WatchStoreCurrent, StoreCurrent
<1>20. ASSUME NEW r \in Resolvers, WatchStoreAuth(r) PROVE Fresh'
  BY <1>20 DEF WatchStoreAuth, StoreAuth
<1>21. ASSUME NEW r \in Resolvers, WatchPublish(r) PROVE Fresh'
  BY <1>21 DEF WatchPublish, StorePublish
<1>22. ASSUME NEW r \in Resolvers, WatchClearAuth(r) PROVE Fresh'
  BY <1>22 DEF WatchClearAuth, ClearAuth
<1>23. ASSUME NEW r \in Resolvers, WatchClearSeeded(r) PROVE Fresh'
  BY <1>23 DEF WatchClearSeeded, ClearSeeded
<1>24. ASSUME NEW r \in Resolvers, Emit(r) PROVE Fresh'
  BY <1>24 DEF Emit, Room
<1>25. ASSUME NEW r \in Resolvers, CloseChan(r) PROVE Fresh'
  BY <1>25 DEF CloseChan, CtxDone
<1>26. ASSUME NEW n \in Names, CloseDrain(n) PROVE Fresh'
  BY <1>26 DEF CloseDrain
<1>27. ASSUME CloseBegin \/ CloseUnlock \/ CloseRegistry PROVE Fresh'
  BY <1>27 DEF CloseBegin, CloseUnlock, CloseRegistry
<1>28. CASE UNCHANGED vars
  BY <1>28 DEF vars
<1> QED
  BY <1>1, <1>2, <1>3, <1>4, <1>5, <1>6, <1>7, <1>8, <1>9, <1>10, <1>11,
     <1>12, <1>13, <1>14, <1>15, <1>16, <1>17, <1>18, <1>19, <1>20, <1>21,
     <1>22, <1>23, <1>24, <1>25, <1>26, <1>27, <1>28 DEF Next, CallerStep,
     WatchStep, CloseStep

\* Only OnceEnter starts a seed and only the caller inside it ends once.
LEMMA OnceNext == Typed /\ Fresh /\ OnceOrder /\ [Next]_vars => OnceOrder'
<1> SUFFICES ASSUME Typed, Fresh, OnceOrder, [Next]_vars PROVE OnceOrder'
  OBVIOUS
<1> USE ConstantsAssumption DEF Typed, TypeOK, CallTyped, Objects,
            ResolverState, WatchState, CallState, SeedPc, ReadPc, Fresh,
            OnceOrder, Seeding, Reading
<1>1. ASSUME NEW c \in Callers, NEW n \in Names, Call(c, n) PROVE OnceOrder'
  BY <1>1 DEF Call
<1>2. ASSUME NEW c \in Callers, FastLookup(c) PROVE OnceOrder'
  <2> DEFINE r == resolvers[call[c].name]
  <2>1. /\ call[c].pc = "fast" /\ call[c].name \in Names
        /\ UNCHANGED <<closed, baseDone, closer, resolvers, mr, watch>>
    BY <1>2 DEF FastLookup
  <2>2. CASE r # None /\ call' = [call EXCEPT ![c].obj = r, ![c].pc = "once"]
    <3>1. Moves(c, r, "once")
      BY <2>2, MovedTo
    <3> QED
      BY <2>1, <2>2, <3>1, OnceStays
  <2>3. CASE call' = [call EXCEPT ![c].pc = "slow"]
    BY <2>1, <2>3
  <2> QED
    BY <1>2, <2>2, <2>3 DEF FastLookup, Goto, Found
<1>3. ASSUME NEW c \in Callers, SlowLookup(c) PROVE OnceOrder'
  <2> DEFINE n == call[c].name
  <2>1. /\ call[c].pc = "slow" /\ n \in Names
        /\ UNCHANGED <<closed, baseDone, closer, watch>>
    BY <1>3 DEF SlowLookup
  <2>2. CASE /\ call' = [call EXCEPT ![c].obj = Ephemeral, ![c].pc = "load"]
             /\ UNCHANGED <<resolvers, mr>>
    BY <2>1, <2>2
  <2>3. CASE /\ resolvers[n] # None
             /\ call' = [call EXCEPT ![c].obj = resolvers[n], ![c].pc = "once"]
             /\ UNCHANGED <<resolvers, mr>>
    <3>1. Moves(c, resolvers[n], "once")
      BY <2>3, MovedTo
    <3> QED
      BY <2>1, <2>3, <3>1, OnceStays
  <2>4. ASSUME NEW r \in Resolvers, MustCreate(n), mr[r].owner = None,
               mr' = [mr EXCEPT ![r] = NewResolver(n)],
               resolvers' = [resolvers EXCEPT ![n] = r],
               call' = [call EXCEPT ![c].obj = r, ![c].pc = "once"]
        PROVE  OnceOrder'
    BY <2>1, <2>4 DEF MustCreate, NewResolver
  <2> QED
    BY <1>3, <2>2, <2>3, <2>4 DEF SlowLookup
<1>4. ASSUME NEW c \in Callers, OnceEnter(c) PROVE OnceOrder'
  BY <1>4 DEF OnceEnter, Goto, OnceFree
<1>5. ASSUME NEW c \in Callers, OnceDone(c) PROVE OnceOrder'
  BY <1>5 DEF OnceDone, Goto
<1>6. ASSUME NEW c \in Callers, NEW a \in Answers, SeedResolve(c, a)
      PROVE  OnceOrder'
  <2>1. call[c].pc = "seed" /\ UNCHANGED <<closed, baseDone, closer, resolvers, watch>>
    BY <1>6 DEF SeedResolve
  <2>2. CASE /\ mr' = [mr EXCEPT ![call[c].obj].seedErr = a]
             /\ call' = [call EXCEPT ![c].pc = "startWatch"]
    BY <2>1, <2>2
  <2>3. CASE /\ call' = [call EXCEPT ![c].answer = a, ![c].pc = "seedCurrent"]
             /\ UNCHANGED mr
    BY <2>1, <2>3
  <2> QED
    BY <1>6, <2>2, <2>3 DEF SeedResolve, Goto
<1>7. ASSUME NEW c \in Callers, SeedStoreCurrent(c) PROVE OnceOrder'
  BY <1>7 DEF SeedStoreCurrent, Goto, StoreCurrent
<1>8. ASSUME NEW c \in Callers, SeedStoreAuth(c) PROVE OnceOrder'
  BY <1>8 DEF SeedStoreAuth, Goto, StoreAuth
<1>9. ASSUME NEW c \in Callers, SeedPublish(c) PROVE OnceOrder'
  BY <1>9 DEF SeedPublish, StorePublish
<1>10. ASSUME NEW c \in Callers, StartWatch(c) PROVE OnceOrder'
  BY <1>10 DEF StartWatch, Goto
<1>11. ASSUME NEW c \in Callers, WatchOpened(c) PROVE OnceOrder'
  <2>1. call[c].obj \in Resolvers
    BY <1>11 DEF WatchOpened
  <2> QED
    BY <1>11, <2>1, OnceOver, OnceEnds
<1>12. ASSUME NEW c \in Callers, WatchFailed(c) PROVE OnceOrder'
  <2>1. call[c].obj \in Resolvers
    BY <1>12 DEF WatchFailed
  <2> QED
    BY <1>12, <2>1, OnceOver, OnceEnds
<1>13. ASSUME NEW c \in Callers, LoadSeeded(c) PROVE OnceOrder'
  BY <1>13 DEF LoadSeeded, Goto, Hit
<1>14. ASSUME NEW c \in Callers, LoadCurrent(c) PROVE OnceOrder'
  <2>1. CallOver(c)
    BY <1>14, ReturnIsOver
  <2> QED
    BY <2>1, OnceStays DEF CallOver
<1>15. ASSUME NEW c \in Callers, ReturnEmpty(c) PROVE OnceOrder'
  <2>1. CallOver(c)
    BY <1>15, ReturnIsOver
  <2> QED
    BY <2>1, OnceStays DEF CallOver
<1>16. ASSUME NEW r \in Resolvers, Wake(r) PROVE OnceOrder'
  BY <1>16 DEF Wake
<1>17. ASSUME NEW r \in Resolvers, Exit(r) PROVE OnceOrder'
  BY <1>17 DEF Exit, CtxDone
<1>18. ASSUME NEW r \in Resolvers, NEW a \in Answers, WatchResolve(r, a)
      PROVE  OnceOrder'
  BY <1>18 DEF WatchResolve, AfterAnswer
<1>19. ASSUME NEW r \in Resolvers, WatchStoreCurrent(r) PROVE OnceOrder'
  BY <1>19 DEF WatchStoreCurrent, StoreCurrent
<1>20. ASSUME NEW r \in Resolvers, WatchStoreAuth(r) PROVE OnceOrder'
  BY <1>20 DEF WatchStoreAuth, StoreAuth
<1>21. ASSUME NEW r \in Resolvers, WatchPublish(r) PROVE OnceOrder'
  BY <1>21 DEF WatchPublish, StorePublish
<1>22. ASSUME NEW r \in Resolvers, WatchClearAuth(r) PROVE OnceOrder'
  BY <1>22 DEF WatchClearAuth, ClearAuth
<1>23. ASSUME NEW r \in Resolvers, WatchClearSeeded(r) PROVE OnceOrder'
  BY <1>23 DEF WatchClearSeeded, ClearSeeded
<1>24. ASSUME NEW r \in Resolvers, Emit(r) PROVE OnceOrder'
  BY <1>24 DEF Emit, Room
<1>25. ASSUME NEW r \in Resolvers, CloseChan(r) PROVE OnceOrder'
  BY <1>25 DEF CloseChan, CtxDone
<1>26. ASSUME NEW n \in Names, CloseDrain(n) PROVE OnceOrder'
  BY <1>26 DEF CloseDrain
<1>27. ASSUME CloseBegin \/ CloseUnlock \/ CloseRegistry PROVE OnceOrder'
  BY <1>27 DEF CloseBegin, CloseUnlock, CloseRegistry
<1>28. CASE UNCHANGED vars
  BY <1>28 DEF vars
<1> QED
  BY <1>1, <1>2, <1>3, <1>4, <1>5, <1>6, <1>7, <1>8, <1>9, <1>10, <1>11,
     <1>12, <1>13, <1>14, <1>15, <1>16, <1>17, <1>18, <1>19, <1>20, <1>21,
     <1>22, <1>23, <1>24, <1>25, <1>26, <1>27, <1>28 DEF Next, CallerStep,
     WatchStep, CloseStep

\* current is stored before seeded is, and never reset.
LEMMA StoredNext == Typed /\ Fresh /\ OnceOrder /\ Stored /\ [Next]_vars => Stored'
<1> SUFFICES ASSUME Typed, Fresh, OnceOrder, Stored, [Next]_vars PROVE Stored'
  OBVIOUS
<1> USE ConstantsAssumption DEF Typed, TypeOK, CallTyped, WatchTyped, Objects,
            ResolverState, WatchState, CallState, SeedPc, ReadPc, Fresh,
            OnceOrder, Stored
<1>1. ASSUME NEW c \in Callers, NEW n \in Names, Call(c, n) PROVE Stored'
  BY <1>1 DEF Call
<1>2. ASSUME NEW c \in Callers, FastLookup(c) PROVE Stored'
  <2> DEFINE r == resolvers[call[c].name]
  <2>1. /\ call[c].pc = "fast" /\ call[c].name \in Names
        /\ UNCHANGED <<closed, baseDone, closer, resolvers, mr, watch>>
    BY <1>2 DEF FastLookup
  <2>2. CASE r # None /\ call' = [call EXCEPT ![c].obj = r, ![c].pc = "once"]
    <3>1. Moves(c, r, "once")
      BY <2>2, MovedTo
    <3>2. UNCHANGED <<mr, watch>>
      BY <2>1, <2>2
    <3> HIDE DEF Stored
    <3> QED
      BY <3>1, <3>2, StoredStays
  <2>3. CASE call' = [call EXCEPT ![c].pc = "slow"]
    BY <2>1, <2>3
  <2> QED
    BY <1>2, <2>2, <2>3 DEF FastLookup, Goto, Found
<1>3. ASSUME NEW c \in Callers, SlowLookup(c) PROVE Stored'
  <2> DEFINE n == call[c].name
  <2>1. /\ call[c].pc = "slow" /\ n \in Names
        /\ UNCHANGED <<closed, baseDone, closer, watch>>
    BY <1>3 DEF SlowLookup
  <2>2. CASE /\ call' = [call EXCEPT ![c].obj = Ephemeral, ![c].pc = "load"]
             /\ UNCHANGED <<resolvers, mr>>
    BY <2>1, <2>2
  <2>3. CASE /\ resolvers[n] # None
             /\ call' = [call EXCEPT ![c].obj = resolvers[n], ![c].pc = "once"]
             /\ UNCHANGED <<resolvers, mr>>
    <3>1. Moves(c, resolvers[n], "once")
      BY <2>3, MovedTo
    <3>2. UNCHANGED <<mr, watch>>
      BY <2>1, <2>3
    <3> HIDE DEF Stored
    <3> QED
      BY <3>1, <3>2, StoredStays
  <2>4. ASSUME NEW r \in Resolvers, MustCreate(n), mr[r].owner = None,
               mr' = [mr EXCEPT ![r] = NewResolver(n)],
               resolvers' = [resolvers EXCEPT ![n] = r],
               call' = [call EXCEPT ![c].obj = r, ![c].pc = "once"]
        PROVE  Stored'
    BY <2>1, <2>4 DEF MustCreate, NewResolver
  <2> QED
    BY <1>3, <2>2, <2>3, <2>4 DEF SlowLookup
<1>4. ASSUME NEW c \in Callers, OnceEnter(c) PROVE Stored'
  BY <1>4 DEF OnceEnter, Goto, OnceFree
<1>5. ASSUME NEW c \in Callers, OnceDone(c) PROVE Stored'
  BY <1>5 DEF OnceDone, Goto
<1>6. ASSUME NEW c \in Callers, NEW a \in Answers, SeedResolve(c, a)
      PROVE  Stored'
  <2>1. call[c].pc = "seed" /\ UNCHANGED <<closed, baseDone, closer, resolvers, watch>>
    BY <1>6 DEF SeedResolve
  <2>2. CASE /\ mr' = [mr EXCEPT ![call[c].obj].seedErr = a]
             /\ call' = [call EXCEPT ![c].pc = "startWatch"]
    BY <2>1, <2>2
  <2>3. CASE /\ call' = [call EXCEPT ![c].answer = a, ![c].pc = "seedCurrent"]
             /\ UNCHANGED mr
    BY <2>1, <2>3
  <2> QED
    BY <1>6, <2>2, <2>3 DEF SeedResolve, Goto
<1>7. ASSUME NEW c \in Callers, SeedStoreCurrent(c) PROVE Stored'
  BY <1>7 DEF SeedStoreCurrent, Goto, StoreCurrent
<1>8. ASSUME NEW c \in Callers, SeedStoreAuth(c) PROVE Stored'
  BY <1>8 DEF SeedStoreAuth, Goto, StoreAuth
<1>9. ASSUME NEW c \in Callers, SeedPublish(c) PROVE Stored'
  BY <1>9 DEF SeedPublish, StorePublish
<1>10. ASSUME NEW c \in Callers, StartWatch(c) PROVE Stored'
  BY <1>10 DEF StartWatch, Goto
<1>11. ASSUME NEW c \in Callers, WatchOpened(c) PROVE Stored'
  <2>1. call[c].obj \in Resolvers
    BY <1>11 DEF WatchOpened
  <2> QED
    BY <1>11, <2>1, OnceOver, StoredEnds
<1>12. ASSUME NEW c \in Callers, WatchFailed(c) PROVE Stored'
  <2>1. call[c].obj \in Resolvers
    BY <1>12 DEF WatchFailed
  <2> QED
    BY <1>12, <2>1, OnceOver, StoredEnds
<1>13. ASSUME NEW c \in Callers, LoadSeeded(c) PROVE Stored'
  BY <1>13 DEF LoadSeeded, Goto, Hit
<1>14. ASSUME NEW c \in Callers, LoadCurrent(c) PROVE Stored'
  <2>1. CallOver(c)
    BY <1>14, ReturnIsOver
  <2> QED
    BY <2>1, StoredStays DEF CallOver
<1>15. ASSUME NEW c \in Callers, ReturnEmpty(c) PROVE Stored'
  <2>1. CallOver(c)
    BY <1>15, ReturnIsOver
  <2> QED
    BY <2>1, StoredStays DEF CallOver
<1>16. ASSUME NEW r \in Resolvers, Wake(r) PROVE Stored'
  BY <1>16 DEF Wake
<1>17. ASSUME NEW r \in Resolvers, Exit(r) PROVE Stored'
  BY <1>17 DEF Exit, CtxDone
<1>18. ASSUME NEW r \in Resolvers, NEW a \in Answers, WatchResolve(r, a)
      PROVE  Stored'
  <2>1. AfterAnswer(a) \notin {"storeAuth", "storePublish"}
    BY DEF AfterAnswer, Answers, Errors
  <2> QED
    BY <1>18, <2>1 DEF WatchResolve
<1>19. ASSUME NEW r \in Resolvers, WatchStoreCurrent(r) PROVE Stored'
  BY <1>19 DEF WatchStoreCurrent, StoreCurrent
<1>20. ASSUME NEW r \in Resolvers, WatchStoreAuth(r) PROVE Stored'
  BY <1>20 DEF WatchStoreAuth, StoreAuth
<1>21. ASSUME NEW r \in Resolvers, WatchPublish(r) PROVE Stored'
  BY <1>21 DEF WatchPublish, StorePublish
<1>22. ASSUME NEW r \in Resolvers, WatchClearAuth(r) PROVE Stored'
  BY <1>22 DEF WatchClearAuth, ClearAuth
<1>23. ASSUME NEW r \in Resolvers, WatchClearSeeded(r) PROVE Stored'
  BY <1>23 DEF WatchClearSeeded, ClearSeeded
<1>24. ASSUME NEW r \in Resolvers, Emit(r) PROVE Stored'
  BY <1>24 DEF Emit, Room
<1>25. ASSUME NEW r \in Resolvers, CloseChan(r) PROVE Stored'
  BY <1>25 DEF CloseChan, CtxDone
<1>26. ASSUME NEW n \in Names, CloseDrain(n) PROVE Stored'
  BY <1>26 DEF CloseDrain
<1>27. ASSUME CloseBegin \/ CloseUnlock \/ CloseRegistry PROVE Stored'
  BY <1>27 DEF CloseBegin, CloseUnlock, CloseRegistry
<1>28. CASE UNCHANGED vars
  BY <1>28 DEF vars
<1> QED
  BY <1>1, <1>2, <1>3, <1>4, <1>5, <1>6, <1>7, <1>8, <1>9, <1>10, <1>11,
     <1>12, <1>13, <1>14, <1>15, <1>16, <1>17, <1>18, <1>19, <1>20, <1>21,
     <1>22, <1>23, <1>24, <1>25, <1>26, <1>27, <1>28 DEF Next, CallerStep,
     WatchStep, CloseStep

\* The invariant is inductive.
LEMMA IInvNext == IInv /\ [Next]_vars => IInv'
<1> SUFFICES ASSUME IInv, [Next]_vars PROVE IInv'
  OBVIOUS
<1>1. Typed'
  BY TypedNext DEF IInv
<1>2. CloseOrder'
  <2>1. ASSUME NEW c \in Callers, CallerStep(c) \/ \E n \in Names : Call(c, n)
        PROVE  UNCHANGED <<closed, closer>>
    BY <2>1 DEF CallerStep, Call, FastLookup, SlowLookup, OnceEnter, OnceDone,
       SeedResolve, SeedStoreCurrent, SeedStoreAuth, SeedPublish, StartWatch,
       WatchOpened, WatchFailed, LoadSeeded, LoadCurrent, ReturnEmpty
  <2>2. ASSUME NEW r \in Resolvers, WatchStep(r) \/ Emit(r) \/ CloseChan(r)
        PROVE  UNCHANGED <<closed, closer>>
    BY <2>2 DEF WatchStep, Wake, Exit, WatchResolve, WatchStoreCurrent,
       WatchStoreAuth, WatchPublish, WatchClearAuth, WatchClearSeeded, Emit,
       CloseChan
  <2>3. CASE CloseBegin \/ CloseStep
    BY <2>3 DEF IInv, CloseOrder, CloseBegin, CloseStep, CloseDrain, CloseUnlock,
       CloseRegistry
  <2>4. CASE UNCHANGED <<closed, closer>>
    BY <2>4 DEF IInv, CloseOrder
  <2> QED
    BY <2>1, <2>2, <2>3, <2>4 DEF Next, vars
<1>3. Owned'
  BY OwnedNext DEF IInv
<1>4. Fresh'
  BY FreshNext DEF IInv
<1>5. OnceOrder'
  BY OnceNext DEF IInv
<1>6. Stored'
  BY StoredNext DEF IInv
<1> QED
  BY <1>1, <1>2, <1>3, <1>4, <1>5, <1>6 DEF IInv

-----------------------------------------------------------------------------
(* The safety properties of ManagedResolver.                               *)

\* The invariant of the watch-and-cache layer.
LEMMA Inductive == Spec => []IInv
BY IInvInit, IInvNext, PTL DEF Spec

\* Every variable keeps its type along every behaviour of the model.
THEOREM TypeCorrect == Spec => []TypeOK
<1>1. IInv => TypeOK
  BY DEF IInv, Typed
<1> QED
  BY <1>1, Inductive, PTL

\* managedResolverFor never makes a second resolver for a name, whatever the
\* number of concurrent first calls and wherever Close falls among them.
THEOREM ResolverUnique == Spec => []OneResolverPerName
<1>1. IInv => OneResolverPerName
  BY DEF IInv, Owned
<1> QED
  BY <1>1, Inductive, PTL

\* The writers of a resolver are serialised without a lock: once has one caller
\* seed it, and the watch starts where the seed ends.
THEOREM WriterUnique == Spec => []SingleWriter
<1>1. IInv => SingleWriter
  BY DEF IInv, OnceOrder, SingleWriter
<1> QED
  BY <1>1, Inductive, PTL

\* The plain field seedErr is safe to read: its only writer has left the seed
\* before any caller reads the cache.
THEOREM SeedHappensBeforeRead == Spec => []SeedBeforeRead
<1>1. IInv => SeedBeforeRead
  BY DEF IInv, OnceOrder, SeedBeforeRead
<1> QED
  BY <1>1, Inductive, PTL

\* A caller that sees seeded finds a Service in current.
THEOREM ReadsFindAService == Spec => []PublishedBeforeRead
<1>1. IInv => PublishedBeforeRead
  BY DEF IInv, Stored, PublishedBeforeRead
<1> QED
  BY <1>1, Inductive, PTL

-----------------------------------------------------------------------------
(* A step of the watches changes one of them, and only Exit ends it.       *)

EndsWhenTold ==
    \A r \in Resolvers : watch[r].pc # "exited" /\ watch'[r].pc = "exited" =>
        CtxDone(r) \/ ~watch[r].open

\* Of all the steps, only Exit takes a watch goroutine to its end.
LEMMA EndsOnlyByExit == Typed /\ [Next]_vars => EndsWhenTold
<1> SUFFICES ASSUME Typed, [Next]_vars PROVE EndsWhenTold
  OBVIOUS
<1> USE DEF Typed, TypeOK, CallTyped, SeedPc, WatchState, EndsWhenTold
<1>1. ASSUME NEW c \in Callers, NEW n \in Names, Call(c, n) PROVE EndsWhenTold
  BY <1>1 DEF Call
<1>2. ASSUME NEW c \in Callers, CallerStep(c), ~WatchOpened(c)
      PROVE  EndsWhenTold
  BY <1>2 DEF CallerStep, FastLookup, SlowLookup, OnceEnter, OnceDone,
     SeedResolve,
     SeedStoreCurrent, SeedStoreAuth, SeedPublish, StartWatch, WatchFailed,
     LoadSeeded, LoadCurrent, ReturnEmpty
<1>3. ASSUME NEW c \in Callers, WatchOpened(c) PROVE EndsWhenTold
  BY <1>3 DEF WatchOpened
<1>4. ASSUME NEW r \in Resolvers, Wake(r) PROVE EndsWhenTold
  BY <1>4 DEF Wake
<1>5. ASSUME NEW r \in Resolvers, Exit(r) PROVE EndsWhenTold
  BY <1>5 DEF Exit
<1>6. ASSUME NEW r \in Resolvers, NEW a \in Answers, WatchResolve(r, a)
      PROVE  EndsWhenTold
  <2>1. AfterAnswer(a) # "exited"
    BY DEF AfterAnswer, Answers, Errors
  <2> QED
    BY <1>6, <2>1 DEF WatchResolve
<1>7. ASSUME NEW r \in Resolvers,
             \/ WatchStoreCurrent(r) \/ WatchStoreAuth(r) \/ WatchPublish(r)
             \/ WatchClearAuth(r) \/ WatchClearSeeded(r)
      PROVE  EndsWhenTold
  BY <1>7 DEF WatchStoreCurrent, WatchStoreAuth, WatchPublish, WatchClearAuth,
     WatchClearSeeded
<1>8. ASSUME NEW r \in Resolvers, Emit(r) \/ CloseChan(r) PROVE EndsWhenTold
  BY <1>8 DEF Emit, CloseChan
<1>9. ASSUME CloseBegin \/ CloseStep PROVE EndsWhenTold
  BY <1>9 DEF CloseBegin, CloseStep, CloseDrain, CloseUnlock, CloseRegistry
<1>10. CASE UNCHANGED vars
  BY <1>10 DEF vars
<1> QED
  BY <1>1, <1>2, <1>3, <1>4, <1>5, <1>6, <1>7, <1>8, <1>9, <1>10 DEF Next,
     WatchStep

\* No answer of the registry ends a watch: a goroutine that has ended was told to
\* by its context or by the closed channel.
THEOREM WatchesSurviveErrors == Spec => WatchEndsOnlyWhenTold
<1>1. IInv /\ [Next]_vars => [EndsWhenTold]_vars
  BY EndsOnlyByExit DEF IInv
<1> QED
  BY <1>1, Inductive, PTL DEF Spec, WatchEndsOnlyWhenTold, EndsWhenTold
-----------------------------------------------------------------------------
(* What CallsReturn and EventsAreServed rest on: a caller that waits for a *)
(* seed waits for somebody, and an event has a goroutine to take it.       *)

\* once runs only while a caller is inside the function given to it.
RunningHasSeeder ==
    \A r \in Resolvers :
        mr[r].once = "running" => \E c \in Callers : Seeding(c, r)

\* A step of c starts no once that c does not run, and ends no seed of c that
\* once goes on waiting for.
SeedsOn(c) ==
    /\ \A d \in Callers \ {c} : call'[d] = call[d]
    /\ \A r \in Resolvers :
          mr'[r].once = "running" => /\ mr[r].once = "running" \/ Seeding(c, r)'
                                     /\ Seeding(c, r) => Seeding(c, r)'

\* Then the seed of every running once still has its caller.
LEMMA SeedsGoOn ==
  ASSUME RunningHasSeeder, NEW c \in Callers, SeedsOn(c)
  PROVE  RunningHasSeeder'
<1> SUFFICES ASSUME NEW r \in Resolvers, mr'[r].once = "running"
             PROVE  \E d \in Callers : Seeding(d, r)'
  BY DEF RunningHasSeeder
<1>1. CASE Seeding(c, r)'
  BY <1>1
<1>2. CASE ~Seeding(c, r)'
  <2>1. PICK d \in Callers : Seeding(d, r)
    BY <1>2 DEF SeedsOn, RunningHasSeeder
  <2>2. d # c /\ call'[d] = call[d]
    BY <1>2, <2>1 DEF SeedsOn
  <2> QED
    BY <2>1, <2>2 DEF Seeding
<1> QED
  BY <1>1, <1>2

\* Goto, with no write of a once.
LEMMA GoesOn ==
  ASSUME Typed, NEW c \in Callers, NEW o, NEW pc, Moves(c, o, pc),
         \A r \in Resolvers : mr'[r].once = mr[r].once,
         \/ call[c].pc \notin SeedPc
         \/ pc \in SeedPc /\ o = call[c].obj
  PROVE  SeedsOn(c)
BY DEF Moves, SeedsOn, Seeding, SeedPc

\* No step of a call leaves a once running without its caller.
LEMMA CallerSeedsOn ==
  ASSUME Typed, NEW c \in Callers,
         CallerStep(c) \/ \E n \in Names : Call(c, n)
  PROVE  SeedsOn(c)
<1>0. /\ call \in [Callers -> CallState] /\ mr \in [Objects -> ResolverState]
      /\ watch \in [Resolvers -> WatchState]
      /\ call[c].pc \in SeedPc \cup {"once"} => call[c].obj \in Resolvers
      /\ call[c].pc = "slow" => call[c].name \in Names
  BY DEF Typed, TypeOK, CallTyped
<1>1. ASSUME NEW n \in Names, Call(c, n) PROVE SeedsOn(c)
  BY <1>0, <1>1 DEF Call, SeedsOn, Seeding
<1>2. CASE FastLookup(c) \/ OnceDone(c) \/ LoadSeeded(c)
  <2>1. /\ UNCHANGED mr /\ call[c].pc \notin SeedPc
        /\ \/ \E pc : Goto(c, pc)
           \/ \E o : call' = [call EXCEPT ![c].obj = o, ![c].pc = "once"]
    BY <1>2, Zenon DEF FastLookup, OnceDone, LoadSeeded, Found, SeedPc
  <2>2. CASE \E pc : Goto(c, pc)
    BY <1>0, <2>1, <2>2, GoneTo, GoesOn
  <2>3. CASE \E o : call' = [call EXCEPT ![c].obj = o, ![c].pc = "once"]
    BY <1>0, <2>1, <2>3, MovedTo, GoesOn
  <2> QED
    BY <2>1, <2>2, <2>3
<1>3. CASE SlowLookup(c)
  <2>1. /\ call[c].pc \notin SeedPc
        /\ \E o, pc : call' = [call EXCEPT ![c].obj = o, ![c].pc = pc]
        /\ \/ UNCHANGED mr
           \/ \E r \in Resolvers : mr' = [mr EXCEPT ![r] = NewResolver(call[c].name)]
    BY <1>3, Zenon DEF SlowLookup, SeedPc
  <2>2. \A r \in Resolvers : mr'[r].once = mr[r].once \/ mr'[r].once = "new"
    BY <1>0, <2>1 DEF NewResolver, Objects
  <2>3. PICK o, pc : Moves(c, o, pc)
    BY <1>0, <2>1, MovedTo
  <2> QED
    BY <2>1, <2>2, <2>3 DEF Moves, SeedsOn, Seeding, SeedPc
<1>4. CASE OnceEnter(c)
  <2>1. /\ call[c].pc = "once" /\ call[c].obj \in Resolvers
        /\ mr' = [mr EXCEPT ![call[c].obj].once = "running"]
        /\ Moves(c, call[c].obj, "seed")
    BY <1>0, <1>4, GoneTo DEF OnceEnter
  <2>2. \A r \in Resolvers : mr'[r].once = mr[r].once \/ r = call[c].obj
    BY <1>0, <2>1 DEF Objects
  <2>3. Seeding(c, call[c].obj)' /\ \A r \in Resolvers : ~Seeding(c, r)
    BY <2>1 DEF Moves, Seeding
  <2> QED
    BY <2>1, <2>2, <2>3 DEF Moves, SeedsOn, Seeding
<1>5. ASSUME NEW a \in Answers, SeedResolve(c, a) PROVE SeedsOn(c)
  <2>1. call[c].pc = "seed" /\ call[c].obj \in Resolvers
    BY <1>0, <1>5 DEF SeedResolve, SeedPc
  <2>2. CASE /\ mr' = [mr EXCEPT ![call[c].obj].seedErr = a]
             /\ Goto(c, "startWatch")
    <3>1. \A r \in Resolvers : mr'[r].once = mr[r].once
      BY <1>0, <2>1, <2>2 DEF ResolverState, Objects
    <3>2. Moves(c, call[c].obj, "startWatch")
      BY <1>0, <2>2, GoneTo
    <3> QED
      BY <3>1, <3>2, GoesOn DEF SeedPc
  <2>3. CASE /\ call' = [call EXCEPT ![c].answer = a, ![c].pc = "seedCurrent"]
             /\ UNCHANGED mr
    <3>1. /\ call'[c].obj = call[c].obj /\ call'[c].pc = "seedCurrent"
          /\ \A d \in Callers \ {c} : call'[d] = call[d]
      BY <1>0, <2>3 DEF CallState
    <3> QED
      BY <2>3, <3>1 DEF SeedsOn, Seeding
  <2> QED
    BY <1>5, <2>2, <2>3 DEF SeedResolve
<1>6. CASE SeedStoreCurrent(c) \/ SeedStoreAuth(c) \/ StartWatch(c)
  <2>1. /\ call[c].pc \in SeedPc /\ call[c].obj \in Resolvers
        /\ \E pc \in SeedPc : Moves(c, call[c].obj, pc)
    BY <1>0, <1>6, GoneTo DEF SeedStoreCurrent, SeedStoreAuth, StartWatch, SeedPc
  <2>2. \A r \in Resolvers : mr'[r].once = mr[r].once
    BY <1>0, <1>6 DEF SeedStoreCurrent, StoreCurrent, SeedStoreAuth, StoreAuth,
       StartWatch, ResolverState, Objects
  <2> QED
    BY <2>1, <2>2, GoesOn
<1>7. CASE SeedPublish(c)
  <2>1. /\ call'[c].pc = "startWatch" /\ call'[c].obj = call[c].obj
        /\ \A d \in Callers \ {c} : call'[d] = call[d]
    BY <1>0, <1>7, SeedPublished
  <2>2. \A r \in Resolvers : mr'[r].once = mr[r].once
    BY <1>0, <1>7 DEF SeedPublish, StorePublish, ResolverState, Objects
  <2> QED
    BY <2>1, <2>2 DEF SeedsOn, Seeding
<1>8. CASE WatchOpened(c) \/ WatchFailed(c)
  <2>1. EndsOnce(c, call[c].obj)
    BY <1>0, <1>8, OnceOver DEF WatchOpened, WatchFailed, SeedPc
  <2>2. \A r \in Resolvers : \/ mr'[r].once = mr[r].once /\ r # call[c].obj
                             \/ mr'[r].once = "done"
    BY <2>1 DEF EndsOnce, Objects
  <2> QED
    BY <2>1, <2>2 DEF EndsOnce, Moves, SeedsOn, Seeding
<1>9. CASE LoadCurrent(c) \/ ReturnEmpty(c)
  <2>1. CallOver(c)
    BY <1>0, <1>9, ReturnIsOver
  <2> QED
    BY <2>1 DEF CallOver, Moves, SeedsOn, Seeding
<1> QED
  BY <1>1, <1>2, <1>3, <1>4, <1>5, <1>6, <1>7, <1>8, <1>9 DEF CallerStep

\* Nobody else writes once.
LEMMA RunningHasSeederNext ==
  Typed /\ RunningHasSeeder /\ [Next]_vars => RunningHasSeeder'
<1> SUFFICES ASSUME Typed, RunningHasSeeder, [Next]_vars PROVE RunningHasSeeder'
  OBVIOUS
<1>0. mr \in [Objects -> ResolverState]
  BY DEF Typed, TypeOK
<1>1. ASSUME UNCHANGED call, \A r \in Resolvers : mr'[r].once = mr[r].once
      PROVE  RunningHasSeeder'
  BY <1>1 DEF RunningHasSeeder, Seeding
<1>2. ASSUME NEW r \in Resolvers, WatchStep(r) \/ Emit(r) \/ CloseChan(r)
      PROVE  UNCHANGED call /\ \A q \in Resolvers : mr'[q].once = mr[q].once
  <2>1. CASE \/ Wake(r) \/ Exit(r) \/ (\E a \in Answers : WatchResolve(r, a))
             \/ Emit(r) \/ CloseChan(r)
    BY <2>1 DEF Wake, Exit, WatchResolve, Emit, CloseChan
  <2>2. CASE WatchStoreCurrent(r) \/ WatchStoreAuth(r) \/ WatchPublish(r)
    BY <1>0, <2>2 DEF WatchStoreCurrent, StoreCurrent, WatchStoreAuth, StoreAuth,
       WatchPublish, StorePublish, ResolverState, Objects
  <2>3. CASE WatchClearAuth(r) \/ WatchClearSeeded(r)
    BY <1>0, <2>3 DEF WatchClearAuth, ClearAuth, WatchClearSeeded, ClearSeeded,
       ResolverState, Objects
  <2> QED
    BY <1>2, <2>1, <2>2, <2>3 DEF WatchStep
<1>3. ASSUME CloseBegin \/ CloseStep \/ UNCHANGED vars
      PROVE  UNCHANGED call /\ \A q \in Resolvers : mr'[q].once = mr[q].once
  <2>1. ASSUME NEW n \in Names, CloseDrain(n)
        PROVE  UNCHANGED call /\ \A q \in Resolvers : mr'[q].once = mr[q].once
    BY <1>0, <2>1 DEF CloseDrain, ResolverState, Objects
  <2>2. CASE CloseBegin \/ CloseUnlock \/ CloseRegistry \/ UNCHANGED vars
    BY <2>2 DEF CloseBegin, CloseUnlock, CloseRegistry, vars
  <2> QED
    BY <1>3, <2>1, <2>2 DEF CloseStep
<1> QED
  BY <1>1, <1>2, <1>3, CallerSeedsOn, SeedsGoOn DEF Next

\* A caller that waits in once.Do waits for another caller that is inside it: no
\* interleaving of first calls and Close leaves a once running that nobody will
\* end, on which every later call of the name would hang.
THEOREM WaitersHaveASeeder ==
  Spec => [](\A c \in Callers :
                call[c].pc = "once" /\ mr[call[c].obj].once = "running" =>
                    \E d \in Callers \ {c} : Seeding(d, call[c].obj))
<1>1. Init => RunningHasSeeder
  BY DEF Init, RunningHasSeeder, NewResolver, Objects
<1>2. IInv /\ RunningHasSeeder =>
        \A c \in Callers :
            call[c].pc = "once" /\ mr[call[c].obj].once = "running" =>
                \E d \in Callers \ {c} : Seeding(d, call[c].obj)
  <2> SUFFICES ASSUME IInv, RunningHasSeeder, NEW c \in Callers,
                      call[c].pc = "once", mr[call[c].obj].once = "running"
               PROVE  \E d \in Callers \ {c} : Seeding(d, call[c].obj)
    OBVIOUS
  <2>1. call[c].obj \in Resolvers
    BY DEF IInv, Typed, CallTyped
  <2>2. PICK d \in Callers : Seeding(d, call[c].obj)
    BY <2>1 DEF RunningHasSeeder
  <2>3. d # c
    BY <2>2 DEF Seeding
  <2> QED
    BY <2>2, <2>3
<1>3. IInv => Typed
  BY DEF IInv
<1> QED
  BY <1>1, <1>2, <1>3, Inductive, RunningHasSeederNext, PTL DEF Spec

\* A resolver without a watch has no channel; a channel is closed, and a goroutine
\* ends, only after the context of the watch has.
WatchTold ==
    \A r \in Resolvers :
        /\ watch[r].pc = "none" => ~watch[r].open /\ watch[r].events = 0
        /\ watch[r].pc # "none" /\ ~watch[r].open => CtxDone(r)
        /\ watch[r].pc = "exited" => CtxDone(r)

\* A step that writes no watch and takes no end of a context back.
LEMMA ToldStays ==
  ASSUME WatchTold, UNCHANGED watch,
         \A r \in Resolvers : watch[r].pc # "none" /\ CtxDone(r) => CtxDone(r)'
  PROVE  WatchTold'
BY DEF WatchTold

\* A step on the watch of r, which had one and leaves the contexts alone.
LEMMA ToldOfOne ==
  ASSUME WatchTold, NEW r \in Resolvers, watch[r].pc # "none",
         watch'[r].pc # "none",
         \A q \in Resolvers \ {r} : watch'[q] = watch[q],
         \A q \in Resolvers : CtxDone(q)' = CtxDone(q),
         watch'[r].open = watch[r].open \/ CtxDone(r),
         watch'[r].pc = "exited" => watch[r].pc = "exited" \/ CtxDone(r)
  PROVE  WatchTold'
BY DEF WatchTold

\* A step of a call ends no channel but by ending its context, and takes no end
\* back: a seed writes cancel only before its watch is there.
LEMMA CallerKeepsTold ==
  ASSUME Typed, Fresh, OnceOrder, WatchTold, NEW c \in Callers,
         CallerStep(c) \/ \E n \in Names : Call(c, n)
  PROVE  WatchTold'
<1>0. /\ call \in [Callers -> CallState] /\ mr \in [Objects -> ResolverState]
      /\ watch \in [Resolvers -> WatchState]
      /\ call[c].pc \in SeedPc \cup {"once"} => call[c].obj \in Resolvers
  BY DEF Typed, TypeOK, CallTyped
<1>1. CASE \/ (\E n \in Names : Call(c, n)) \/ FastLookup(c) \/ OnceDone(c)
           \/ LoadSeeded(c) \/ LoadCurrent(c) \/ ReturnEmpty(c)
  <2>1. UNCHANGED <<mr, watch, baseDone>>
    BY <1>1 DEF Call, FastLookup, OnceDone, LoadSeeded, LoadCurrent, ReturnEmpty
  <2> QED
    BY <2>1, ToldStays DEF CtxDone
<1>2. CASE SlowLookup(c)
  <2>1. /\ UNCHANGED <<watch, baseDone>>
        /\ \/ UNCHANGED mr
           \/ \E r \in Resolvers : /\ mr[r].owner = None
                                   /\ mr' = [mr EXCEPT ![r] = NewResolver(call[c].name)]
    BY <1>2, Zenon DEF SlowLookup
  <2>2. CASE UNCHANGED mr
    BY <2>1, <2>2, ToldStays DEF CtxDone
  <2>3. ASSUME NEW r \in Resolvers, mr[r].owner = None,
               mr' = [mr EXCEPT ![r] = NewResolver(call[c].name)]
        PROVE  WatchTold'
    <3>1. watch[r].pc = "none"
      BY <2>3 DEF Fresh, OnceOrder
    <3>2. \A q \in Resolvers \ {r} : mr'[q] = mr[q]
      BY <1>0, <2>3 DEF Objects
    <3> QED
      BY <2>1, <3>1, <3>2, ToldStays DEF CtxDone
  <2> QED
    BY <2>1, <2>2, <2>3
<1>3. CASE StartWatch(c)
  <2>1. /\ call[c].obj \in Resolvers /\ UNCHANGED <<watch, baseDone>>
        /\ mr' = [mr EXCEPT ![call[c].obj].cancel = "live"]
    BY <1>0, <1>3 DEF StartWatch, SeedPc
  <2>2. watch[call[c].obj].pc = "none"
    BY <1>3, <2>1 DEF StartWatch, Seeding, OnceOrder
  <2>3. \A q \in Resolvers \ {call[c].obj} : mr'[q] = mr[q]
    BY <1>0, <2>1 DEF Objects
  <2> QED
    BY <2>1, <2>2, <2>3, ToldStays DEF CtxDone
<1>4. CASE WatchFailed(c)
  <2> DEFINE r == call[c].obj
  <2>1. /\ r \in Resolvers /\ UNCHANGED <<watch, baseDone>>
        /\ mr' = [mr EXCEPT ![r].once = "done", ![r].cancel = "cancelled"]
    BY <1>0, <1>4 DEF WatchFailed, SeedPc
  <2>2. mr'[r].cancel = "cancelled" /\ \A q \in Resolvers \ {r} : mr'[q] = mr[q]
    BY <1>0, <2>1 DEF ResolverState, Objects
  <2> QED
    BY <2>1, <2>2, ToldStays DEF CtxDone
<1>5. CASE WatchOpened(c)
  <2> DEFINE r == call[c].obj
  <2>1. /\ r \in Resolvers /\ UNCHANGED baseDone
        /\ mr' = [mr EXCEPT ![r].once = "done"]
        /\ watch' = [watch EXCEPT ![r].pc = "select", ![r].open = TRUE]
    BY <1>0, <1>5 DEF WatchOpened, SeedPc
  <2>2. \A q \in Resolvers : mr'[q].cancel = mr[q].cancel
    BY <1>0, <2>1 DEF ResolverState, Objects
  <2>3. /\ watch'[r].pc = "select" /\ watch'[r].open
        /\ \A q \in Resolvers \ {r} : watch'[q] = watch[q]
    BY <1>0, <2>1 DEF WatchState
  <2>4. \A q \in Resolvers : CtxDone(q)' = CtxDone(q)
    BY <2>1, <2>2 DEF CtxDone
  <2> HIDE DEF r
  <2> QED
    BY <2>1, <2>3, <2>4 DEF WatchTold
<1>6. CASE \/ OnceEnter(c) \/ (\E a \in Answers : SeedResolve(c, a))
           \/ SeedStoreCurrent(c) \/ SeedStoreAuth(c) \/ SeedPublish(c)
  <2> DEFINE r == call[c].obj
  <2>1. /\ UNCHANGED <<watch, baseDone>> /\ r \in Resolvers
        /\ \/ UNCHANGED mr
           \/ mr' = [mr EXCEPT ![r].once = "running"]
           \/ \E a : mr' = [mr EXCEPT ![r].seedErr = a]
           \/ \E a : mr' = [mr EXCEPT ![r].current = a]
           \/ mr' = [mr EXCEPT ![r].authEmpty = FALSE]
           \/ mr' = [mr EXCEPT ![r].seeded = TRUE]
    BY <1>0, <1>6 DEF OnceEnter, SeedResolve, SeedStoreCurrent, StoreCurrent,
       SeedStoreAuth, StoreAuth, SeedPublish, StorePublish, SeedPc
  <2> HIDE DEF r
  <2>2. \A q \in Resolvers : mr'[q].cancel = mr[q].cancel
    BY <1>0, <2>1 DEF ResolverState, Objects
  <2> QED
    BY <2>1, <2>2, ToldStays DEF CtxDone
<1> QED
  BY <1>1, <1>2, <1>3, <1>4, <1>5, <1>6 DEF CallerStep

\* The watch goroutine and its channel end when they are told to.
LEMMA WatchKeepsTold ==
  ASSUME Typed, WatchTold, NEW r \in Resolvers,
         WatchStep(r) \/ Emit(r) \/ CloseChan(r)
  PROVE  WatchTold'
<1>0. /\ mr \in [Objects -> ResolverState] /\ watch \in [Resolvers -> WatchState]
  BY DEF Typed, TypeOK
<1>1. \A q \in Resolvers : CtxDone(q)' = CtxDone(q)
  <2>1. UNCHANGED baseDone
    BY DEF WatchStep, Wake, Exit, WatchResolve, WatchStoreCurrent, WatchStoreAuth,
       WatchPublish, WatchClearAuth, WatchClearSeeded, Emit, CloseChan
  <2>2. \/ UNCHANGED mr
        \/ \E a : mr' = [mr EXCEPT ![r].current = a]
        \/ \E a : mr' = [mr EXCEPT ![r].authEmpty = a]
        \/ \E a : mr' = [mr EXCEPT ![r].seeded = a]
    BY DEF WatchStep, Wake, Exit, WatchResolve, WatchStoreCurrent, StoreCurrent,
       WatchStoreAuth, StoreAuth, WatchPublish, StorePublish, WatchClearAuth,
       ClearAuth, WatchClearSeeded, ClearSeeded, Emit, CloseChan
  <2>3. \A q \in Resolvers : mr'[q].cancel = mr[q].cancel
    BY <1>0, <2>2 DEF ResolverState, Objects
  <2> QED
    BY <2>1, <2>3 DEF CtxDone
<1>2. watch[r].open => watch[r].pc # "none"
  BY DEF WatchTold
<1>3. CASE Wake(r)
  <2> DEFINE x == [watch[r] EXCEPT !.events = @ - 1, !.pc = "resolve", !.answer = None]
  <2>1. watch' = [watch EXCEPT ![r] = x]
    BY <1>3, Zenon DEF Wake
  <2>2. x.open = watch[r].open /\ x.pc = "resolve"
    BY <1>0 DEF WatchState
  <2> HIDE DEF x
  <2>3. watch'[r] = x /\ \A q \in Resolvers \ {r} : watch'[q] = watch[q]
    BY <1>0, <2>1
  <2> QED
    BY <1>1, <1>3, <2>2, <2>3, ToldOfOne DEF Wake
<1>4. CASE Exit(r)
  <2>1. /\ watch'[r].pc = "exited" /\ watch'[r].open = watch[r].open
        /\ \A q \in Resolvers \ {r} : watch'[q] = watch[q]
    BY <1>0, <1>4 DEF Exit, WatchState
  <2>2. watch[r].pc = "select" /\ CtxDone(r)
    BY <1>4 DEF Exit, WatchTold
  <2> QED
    BY <1>1, <2>1, <2>2, ToldOfOne
<1>5. ASSUME NEW a \in Answers, WatchResolve(r, a) PROVE WatchTold'
  <2> DEFINE x == [watch[r] EXCEPT !.answer = a, !.pc = AfterAnswer(a)]
  <2>1. watch' = [watch EXCEPT ![r] = x]
    BY <1>5, Zenon DEF WatchResolve
  <2>2. x.open = watch[r].open /\ x.pc = AfterAnswer(a)
    BY <1>0 DEF WatchState
  <2>3. AfterAnswer(a) \notin {"none", "exited"}
    BY DEF AfterAnswer, Answers, Errors
  <2> HIDE DEF x
  <2>4. watch'[r] = x /\ \A q \in Resolvers \ {r} : watch'[q] = watch[q]
    BY <1>0, <2>1
  <2> QED
    BY <1>1, <1>5, <2>2, <2>3, <2>4, ToldOfOne DEF WatchResolve
<1>6. CASE WatchStoreCurrent(r) \/ WatchStoreAuth(r) \/ WatchClearAuth(r)
  <2>1. /\ watch[r].pc # "none"
        /\ \E pc \in {"storeAuth", "storePublish", "clearSeeded"} :
              watch' = [watch EXCEPT ![r].pc = pc]
    BY <1>6 DEF WatchStoreCurrent, WatchStoreAuth, WatchClearAuth
  <2>2. /\ watch'[r].pc \notin {"none", "exited"} /\ watch'[r].open = watch[r].open
        /\ \A q \in Resolvers \ {r} : watch'[q] = watch[q]
    BY <1>0, <2>1 DEF WatchState
  <2> QED
    BY <1>1, <2>1, <2>2, ToldOfOne
<1>7. CASE WatchPublish(r) \/ WatchClearSeeded(r)
  <2> DEFINE x == [watch[r] EXCEPT !.pc = "select", !.answer = None]
  <2>1. watch[r].pc # "none" /\ watch' = [watch EXCEPT ![r] = x]
    BY <1>7, Zenon DEF WatchPublish, WatchClearSeeded
  <2>2. x.open = watch[r].open /\ x.pc = "select"
    BY <1>0 DEF WatchState
  <2> HIDE DEF x
  <2>3. watch'[r] = x /\ \A q \in Resolvers \ {r} : watch'[q] = watch[q]
    BY <1>0, <2>1
  <2> QED
    BY <1>1, <2>1, <2>2, <2>3, ToldOfOne
<1>8. CASE Emit(r)
  <2>1. /\ watch[r].open /\ watch'[r].pc = watch[r].pc
        /\ watch'[r].open = watch[r].open
        /\ \A q \in Resolvers \ {r} : watch'[q] = watch[q]
    BY <1>0, <1>8 DEF Emit, WatchState
  <2> QED
    BY <1>1, <1>2, <2>1, ToldOfOne
<1>9. CASE CloseChan(r)
  <2>1. /\ watch[r].open /\ CtxDone(r) /\ watch'[r].pc = watch[r].pc
        /\ \A q \in Resolvers \ {r} : watch'[q] = watch[q]
    BY <1>0, <1>9 DEF CloseChan, WatchState
  <2> QED
    BY <1>1, <1>2, <2>1, ToldOfOne
<1> QED
  BY <1>3, <1>4, <1>5, <1>6, <1>7, <1>8, <1>9 DEF WatchStep

\* Close ends contexts and takes none back.
LEMMA WatchToldNext ==
  Typed /\ Fresh /\ OnceOrder /\ WatchTold /\ [Next]_vars => WatchTold'
<1> SUFFICES ASSUME Typed, Fresh, OnceOrder, WatchTold, [Next]_vars
             PROVE  WatchTold'
  OBVIOUS
<1>1. ASSUME NEW n \in Names, CloseDrain(n) PROVE WatchTold'
  <2>1. /\ UNCHANGED <<watch, baseDone>> /\ mr \in [Objects -> ResolverState]
        /\ mr' = [mr EXCEPT ![resolvers[n]].cancel =
                    IF @ = "live" THEN "cancelled" ELSE @]
    BY <1>1 DEF CloseDrain, Typed, TypeOK
  <2>2. \A q \in Resolvers : mr[q].cancel = "cancelled" => mr'[q].cancel = "cancelled"
    BY <2>1 DEF ResolverState, Objects
  <2> QED
    BY <2>1, <2>2, ToldStays DEF CtxDone
<1>2. CASE CloseBegin \/ CloseUnlock \/ CloseRegistry \/ UNCHANGED vars
  <2>1. UNCHANGED <<watch, mr>> /\ (baseDone => baseDone')
    BY <1>2 DEF CloseBegin, CloseUnlock, CloseRegistry, vars
  <2> QED
    BY <2>1, ToldStays DEF CtxDone
<1> QED
  BY <1>1, <1>2, CallerKeepsTold, WatchKeepsTold DEF Next, CloseStep

\* No catalog event is sent into the void: while a channel is open, or holds
\* events still, its watch goroutine runs, unless the context of the watch has
\* ended; and no failure of the registry ends goroutine or channel.
THEOREM EventsHaveAReader ==
  Spec => [](\A r \in Resolvers :
                watch[r].open \/ watch[r].events > 0 =>
                    watch[r].pc \notin {"none", "exited"} \/ CtxDone(r))
<1>1. Init => WatchTold
  BY DEF Init, WatchTold
<1>2. WatchTold => \A r \in Resolvers :
                      watch[r].open \/ watch[r].events > 0 =>
                          watch[r].pc \notin {"none", "exited"} \/ CtxDone(r)
  BY DEF WatchTold
<1>3. IInv => Typed /\ Fresh /\ OnceOrder
  BY DEF IInv
<1> QED
  BY <1>1, <1>2, <1>3, Inductive, WatchToldNext, PTL DEF Spec
=============================================================================
